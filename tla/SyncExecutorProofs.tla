------------------------- MODULE SyncExecutorProofs -------------------------
(***************************************************************************)
(* The invariants of SyncExecutor for any number of tasks that u16 handles *)
(* can tell apart, and for any number of wakes: the count is exact, a leaf *)
(* that has fired is not missed, a drain leaves no task behind, and the    *)
(* contract of TaskContract is kept.                                       *)
(***************************************************************************)
EXTENDS SyncExecutor, FiniteSetTheorems, FunctionTheorems, TLAPS

\* The program spawns fewer tasks than there are handles: with as many,
\* num_active itself wraps to zero.
HandlesSuffice == IsFiniteSet(Futures) /\ Cardinality(Futures) < HandleSize

Spawned == Live \cup done

\* A handle is the index of its task's slot, which is vacated once and never
\* used again.
Slots ==
    /\ Len(tasks) = Cardinality(Spawned)
    /\ \A i \in 1..Len(tasks) :
        /\ tasks[i] # Gone => handle[tasks[i]] = i - 1 /\ tasks[i] \notin done
        /\ tasks[i] = Gone => \E f \in done : handle[f] = i - 1
    /\ \A f \in done : handle[f] < Len(tasks) /\ tasks[handle[f] + 1] = Gone
    /\ \A f, g \in done : handle[f] = handle[g] => f = g

\* Only tasks that were spawned are queued or awaited.
Queueing ==
    /\ \A i \in 1..Len(channel) : channel[i] < Len(tasks)
    /\ \A f \in Futures : armed[f] # {} => f \in Spawned

\* A side that the join has not seen ready holds the waker, or will be looked
\* at.
Watched(f, s) ==
    join[f][s] = "future" =>
        \/ s \in armed[f] /\ leaf[f][s] = "pending"
        \/ Queued(f) \/ AboutToLook(f, s) \/ (pc = "ready" /\ tasks[cur] = f)

AllWatched == ~Over => \A f \in Live, s \in Sides : Watched(f, s)

\* Polls happen inside do_some and drain.
Modes == pc # "recv" => mode \in {"some", "drain"}

IInv == ExecutorInv /\ Slots /\ Queueing /\ AllWatched /\ Modes /\ DrainComplete

-----------------------------------------------------------------------------
Handles == 0..(HandleSize - 1)

(* Handles are natural numbers. *)
LEMMA HandlesNat == HandleSize \in Nat /\ HandleSize > 0 /\ Handles \subseteq Nat
BY SyncAssumption DEF Handles

(* The types of what is indexed. *)
LEMMA Indexed ==
    ASSUME TypeOK
    PROVE  /\ tasks \in Seq(Futures \cup {Gone}) /\ Len(tasks) \in Nat
           /\ DOMAIN tasks = 1..Len(tasks)
           /\ \A i \in 1..Len(tasks) : tasks[i] \in Futures \cup {Gone}
           /\ channel \in Seq(Handles) /\ Len(channel) \in Nat
           /\ DOMAIN channel = 1..Len(channel)
           /\ \A i \in 1..Len(channel) : channel[i] \in Handles /\ channel[i] \in Nat
           /\ handle \in [Futures -> Handles] /\ \A f \in Futures : handle[f] \in Nat
           /\ done \subseteq Futures /\ Gone \notin Futures
<1>1. tasks \in Seq(Futures \cup {Gone}) /\ channel \in Seq(Handles)
      /\ handle \in [Futures -> Handles] /\ done \subseteq Futures /\ Gone \notin Futures
  BY SyncAssumption DEF TypeOK, Handles
<1>2. \A f \in Futures : handle[f] \in Nat
  BY <1>1, HandlesNat
<1>3. \A i \in 1..Len(channel) : channel[i] \in Handles
  BY <1>1
<1>4. \A i \in 1..Len(channel) : channel[i] \in Nat
  BY <1>3, HandlesNat
<1> QED
  BY <1>1, <1>2, <1>3, <1>4

(* A live task is in the slot its handle names, and has not completed. *)
LEMMA LiveSlot ==
    ASSUME TypeOK, Slots, NEW f \in Live
    PROVE  /\ f \in Futures /\ handle[f] + 1 \in 1..Len(tasks) /\ tasks[handle[f] + 1] = f
           /\ f \notin done /\ handle[f] < Len(tasks)
<1>1. PICK i \in 1..Len(tasks) : tasks[i] = f /\ f \in Futures
  BY Indexed DEF Live
<1>2. handle[f] = i - 1 /\ f \notin done
  BY <1>1, Indexed DEF Slots
<1>3. i = handle[f] + 1 /\ handle[f] < Len(tasks)
  BY <1>1, <1>2, Indexed
<1> QED
  BY <1>1, <1>2, <1>3

(* The task being polled is live. *)
LEMMA CurLive ==
    ASSUME TypeOK, Slots, pc # "recv"
    PROVE  /\ cur \in 1..Len(tasks) /\ tasks[cur] \in Live /\ handle[tasks[cur]] = cur - 1
<1>1. cur \in 1..Len(tasks) /\ tasks[cur] \in Futures
  BY Indexed DEF TypeOK
<1>2. tasks[cur] \in Live
  BY <1>1, Indexed DEF Live
<1> QED
  BY <1>1, <1>2, Indexed DEF Slots

(* Handles tell the tasks apart that were spawned. *)
LEMMA HandlesDiffer ==
    ASSUME TypeOK, Slots, NEW f \in Spawned, NEW g \in Spawned, handle[f] = handle[g]
    PROVE  f = g
<1>1. ASSUME NEW x \in Live, NEW y \in Spawned, handle[x] = handle[y] PROVE x = y
  <2>1. tasks[handle[x] + 1] = x /\ x # Gone
    BY LiveSlot, Indexed
  <2>2. CASE y \in Live
    BY <1>1, <2>1, <2>2, LiveSlot
  <2>3. CASE y \in done
    BY <1>1, <2>1, <2>3 DEF Slots
  <2> QED
    BY <2>2, <2>3 DEF Spawned
<1>2. CASE f \in Live
  BY <1>1, <1>2
<1>3. CASE g \in Live
  BY <1>1, <1>3
<1>4. CASE f \in done /\ g \in done
  BY <1>4 DEF Slots
<1> QED
  BY <1>2, <1>3, <1>4 DEF Spawned

(* A handle of a task that was spawned is an index. *)
LEMMA SpawnedHandle ==
    ASSUME TypeOK, Slots, NEW f \in Spawned
    PROVE  f \in Futures /\ handle[f] \in Nat /\ handle[f] < Len(tasks)
<1>1. CASE f \in Live
  BY <1>1, LiveSlot, Indexed
<1>2. CASE f \in done
  BY <1>2, Indexed DEF Slots
<1> QED
  BY <1>1, <1>2 DEF Spawned

(* The count, and what zero means. *)
Active == {i \in 1..Len(tasks) : tasks[i] # Gone}

LEMMA ActiveCounted ==
    ASSUME TypeOK
    PROVE  /\ IsFiniteSet(Active) /\ Cardinality(Active) \in Nat
           /\ CountExact <=> num_active = Cardinality(Active)
<1>1. Active \subseteq 1..Len(tasks) /\ IsFiniteSet(1..Len(tasks))
  BY Indexed, FS_Interval DEF Active
<1>2. IsFiniteSet(Active) /\ Cardinality(Active) \in Nat
  BY <1>1, FS_Subset, FS_CardinalityType
<1>3. Active = {i \in DOMAIN tasks : tasks[i] # Gone}
  BY Indexed DEF Active
<1> QED
  BY <1>2, <1>3 DEF CountExact

LEMMA NoneLeft ==
    ASSUME TypeOK, CountExact, num_active = 0 PROVE Live = {}
<1>1. Cardinality(Active) = 0
  BY ActiveCounted
<1>2. Active = {}
  BY <1>1, ActiveCounted, FS_EmptySet
<1> QED
  BY <1>2, Indexed DEF Active, Live

(* The wakes in the channel, when one is added or the first is taken. *)
LEMMA QueuedAppend ==
    ASSUME TypeOK, NEW x \in Handles, channel' = Append(channel, x), UNCHANGED handle,
           NEW f \in Futures, Queued(f) \/ handle[f] = x
    PROVE  Queued(f)'
<1>1. /\ channel' \in Seq(Handles) /\ Len(channel') = Len(channel) + 1
      /\ channel'[Len(channel) + 1] = x
      /\ \A i \in 1..Len(channel) : channel'[i] = channel[i]
      /\ DOMAIN channel' = 1..Len(channel')
  BY Indexed
<1>2. CASE Queued(f)
  <2>1. PICK i \in 1..Len(channel) : channel[i] = handle[f]
    BY <1>2, Indexed DEF Queued
  <2>2. i \in DOMAIN channel'
    BY <1>1, Indexed
  <2> QED
    BY <1>1, <2>1, <2>2 DEF Queued
<1>3. CASE handle[f] = x
  <2>1. Len(channel) + 1 \in DOMAIN channel'
    BY <1>1, Indexed
  <2> QED
    BY <1>1, <1>3, <2>1 DEF Queued
<1> QED
  BY <1>2, <1>3

LEMMA QueuedTail ==
    ASSUME TypeOK, channel # <<>>, channel' = Tail(channel), UNCHANGED handle,
           NEW f \in Futures, Queued(f), handle[f] # Head(channel)
    PROVE  Queued(f)'
<1>1. /\ Len(channel) >= 1 /\ Len(channel') = Len(channel) - 1 /\ Head(channel) = channel[1]
      /\ \A i \in 1..Len(channel') : channel'[i] = channel[i + 1]
      /\ DOMAIN channel' = 1..Len(channel')
  BY Indexed
<1>2. PICK i \in 1..Len(channel) : channel[i] = handle[f]
  BY Indexed DEF Queued
<1>3. i # 1
  BY <1>1, <1>2
<1>4. i - 1 \in 1..Len(channel') /\ (i - 1) + 1 = i
  BY <1>1, <1>2, <1>3, Indexed
<1> QED
  BY <1>1, <1>2, <1>4 DEF Queued

(* What stands when no task is spawned or completes. *)
LEMMA TasksKept ==
    ASSUME TypeOK, CountExact, Slots, UNCHANGED <<tasks, num_active, handle, done>>
    PROVE  /\ CountExact' /\ Slots' /\ Live' = Live /\ Spawned' = Spawned
BY DEF CountExact, Slots, Live, Spawned

(* Nothing has been spawned. *)
LEMMA InitIInv == Init => IInv
<1> SUFFICES ASSUME Init PROVE IInv
  OBVIOUS
<1>0. tasks = <<>> /\ Len(tasks) = 0 /\ channel = <<>> /\ Len(channel) = 0 /\ done = {}
  BY DEF Init
<1>1. TypeOK
  <2>1. 0 \in 0..(HandleSize - 1)
    BY SyncAssumption
  <2>2. tasks \in Seq(Futures \cup {Gone}) /\ channel \in Seq(0..(HandleSize - 1))
    BY <1>0
  <2>3. cur \in 0..Len(tasks)
    BY <1>0 DEF Init
  <2>4. /\ join \in [Futures -> [Sides -> {"future", "ready"}]]
        /\ leaf \in [Futures -> [Sides -> {"pending", "ok", "err"}]]
        /\ armed \in [Futures -> SUBSET Sides]
    BY DEF Init
  <2> QED
    BY <2>1, <2>2, <2>3, <2>4 DEF Init, TypeOK
<1>2. Live = {} /\ Spawned = {}
  BY <1>0, <1>1, Indexed DEF Live, Spawned
<1>3. CountExact
  <2>1. Active = {}
    BY <1>0 DEF Active
  <2> QED
    BY <1>1, <2>1, ActiveCounted, FS_EmptySet DEF Init
<1>4. Slots
  <2>1. Len(tasks) = Cardinality(Spawned)
    BY <1>0, <1>2, FS_EmptySet
  <2> QED
    BY <1>0, <2>1 DEF Slots
<1>5. Queueing /\ AllWatched /\ Modes /\ DrainComplete
  BY <1>0, <1>2 DEF Init, Queueing, AllWatched, Modes, DrainComplete
<1> QED
  BY <1>1, <1>3, <1>4, <1>5 DEF IInv, ExecutorInv

-----------------------------------------------------------------------------
(* How many positions there are before the next one. *)
LEMMA FirstPositions ==
    ASSUME NEW k \in Nat PROVE IsFiniteSet(1..k) /\ Cardinality(1..k) = k
<1>1. IsFiniteSet(1..k) /\ Cardinality(1..k) = IF 1 > k THEN 0 ELSE k - 1 + 1
  BY FS_Interval
<1> QED
  BY <1>1

(* A task gets the next slot, a handle nobody else has, and its first wake. *)
LEMMA SpawnIInv ==
    ASSUME HandlesSuffice, IInv, NEW f \in Futures, Spawn(f)
    PROVE  /\ IInv' /\ handle'[f] = Len(tasks) /\ Live' = Live \cup {f}
           /\ channel' = Append(channel, Len(tasks)) /\ Len(tasks) \in Handles
           /\ \A g \in Futures : g # f => handle'[g] = handle[g]
<1> USE DEF IInv, ExecutorInv
<1>0. /\ mode = "open" /\ f \notin Live /\ f \notin done
      /\ tasks' = Append(tasks, f) /\ num_active' = (num_active + 1) % HandleSize
      /\ handle' = [handle EXCEPT ![f] = Len(tasks) % HandleSize]
      /\ channel' = Append(channel, handle'[f])
      /\ UNCHANGED <<mode, pc, cur, join, leaf, armed, done, broken>>
  BY DEF Spawn, leafVars
<1> DEFINE n == Len(tasks)
<1>a. /\ IsFiniteSet(Spawned) /\ f \notin Spawned /\ Spawned \cup {f} \subseteq Futures
  <2>1. Spawned \subseteq Futures
    BY Indexed DEF Spawned, Live
  <2> QED
    BY <1>0, <2>1, FS_Subset DEF HandlesSuffice, Spawned
<1>b. n \in Nat /\ n + 1 < HandleSize /\ Cardinality(Spawned \cup {f}) = n + 1
  <2>1. Cardinality(Spawned \cup {f}) = Cardinality(Spawned) + 1
    BY <1>a, FS_AddElement
  <2>2. Cardinality(Spawned \cup {f}) <= Cardinality(Futures)
    BY <1>a, FS_Subset DEF HandlesSuffice
  <2>3. Cardinality(Spawned) = n
    BY DEF Slots
  <2>4. Cardinality(Futures) \in Nat
    BY FS_CardinalityType DEF HandlesSuffice
  <2> QED
    BY <2>1, <2>2, <2>3, <2>4, HandlesNat, Indexed DEF HandlesSuffice
<1>c. n % HandleSize = n /\ n \in Handles
  BY <1>b, HandlesNat DEF Handles
<1>d. /\ handle'[f] = n /\ handle' \in [Futures -> Handles]
      /\ \A g \in Futures : g # f => handle'[g] = handle[g]
  BY <1>0, <1>c, Indexed
<1>e. /\ tasks' \in Seq(Futures \cup {Gone}) /\ Len(tasks') = n + 1 /\ tasks'[n + 1] = f
      /\ \A i \in 1..n : tasks'[i] = tasks[i]
      /\ DOMAIN tasks' = 1..(n + 1)
  BY <1>0, Indexed
<1>f. \A i \in 1..(n + 1) : i \in 1..n \/ i = n + 1
  BY <1>b
<1>g. /\ channel' = Append(channel, n) /\ channel' \in Seq(Handles)
      /\ Len(channel') = Len(channel) + 1 /\ channel'[Len(channel) + 1] = n
      /\ \A i \in 1..Len(channel) : channel'[i] = channel[i]
  BY <1>0, <1>c, <1>d, Indexed
<1>h. Live' = Live \cup {f} /\ Spawned' = Spawned \cup {f}
  <2>1. Live' = {g \in Futures : \E i \in 1..(n + 1) : tasks'[i] = g}
    BY <1>e DEF Live
  <2>2. Live = {g \in Futures : \E i \in 1..n : tasks[i] = g}
    BY Indexed DEF Live
  <2>3. 1..n \subseteq 1..(n + 1) /\ n + 1 \in 1..(n + 1)
    BY <1>b
  <2>4. Live' = Live \cup {f}
    BY <1>e, <1>f, <2>1, <2>2, <2>3
  <2> QED
    BY <1>0, <2>4 DEF Spawned
<1>i. num_active \in Nat /\ num_active <= n /\ num_active = Cardinality(Active)
  <2>1. Active \subseteq 1..n /\ IsFiniteSet(1..n) /\ Cardinality(1..n) = n
    <3>1. Active \subseteq 1..n
      BY DEF Active
    <3> QED
      BY <1>b, <3>1, FirstPositions
  <2>2. Cardinality(Active) <= n
    BY <2>1, FS_Subset
  <2> QED
    BY <2>2, ActiveCounted
<1>j. num_active' = num_active + 1
  <2>1. \A x \in Nat : x < HandleSize => x % HandleSize = x
    BY HandlesNat
  <2>2. num_active + 1 \in Nat /\ num_active + 1 < HandleSize
    BY <1>b, <1>i, HandlesNat
  <2> QED
    BY <1>0, <2>1, <2>2
<1> HIDE DEF n
<1>1. TypeOK'
  <2>1. num_active' \in 0..(HandleSize - 1)
    BY <1>b, <1>i, <1>j, HandlesNat
  <2>2. cur' \in 0..Len(tasks')
    BY <1>0, <1>b, <1>e DEF TypeOK, n
  <2>3. pc' # "recv" => cur' > 0 /\ tasks'[cur'] \in Futures
    <3>1. pc = "recv"
      BY <1>0 DEF Modes
    <3> QED
      BY <1>0, <3>1
  <2> QED
    BY <1>0, <1>d, <1>e, <1>g, <2>1, <2>2, <2>3 DEF TypeOK, Handles
<1>2. CountExact'
  <2>1. Active' = Active \cup {n + 1} /\ n + 1 \notin Active
    <3>1. f # Gone
      BY Indexed
    <3>2. Active' = {i \in 1..(n + 1) : tasks'[i] # Gone}
      BY <1>e DEF Active
    <3>3. Active = {i \in 1..n : tasks[i] # Gone}
      BY DEF Active, n
    <3>4. 1..n \subseteq 1..(n + 1) /\ n + 1 \in 1..(n + 1) /\ n + 1 \notin 1..n
      BY <1>b
    <3> QED
      BY <1>e, <1>f, <3>1, <3>2, <3>3, <3>4
  <2>2. Cardinality(Active') = Cardinality(Active) + 1
    BY <2>1, ActiveCounted, FS_AddElement
  <2>3. Active' = {i \in DOMAIN tasks' : tasks'[i] # Gone}
    BY <1>e DEF Active
  <2>4. num_active' = Cardinality(Active')
    BY <1>i, <1>j, <2>2
  <2> QED
    BY <2>3, <2>4 DEF CountExact
<1>3. Slots'
  <2>1. Len(tasks') = Cardinality(Spawned')
    BY <1>b, <1>e, <1>h
  <2>2. \A g \in done : g # f /\ g \in Futures /\ handle'[g] = handle[g]
    BY <1>0, <1>d, Indexed
  <2>3. ASSUME NEW i \in 1..Len(tasks')
        PROVE  /\ tasks'[i] # Gone => handle'[tasks'[i]] = i - 1 /\ tasks'[i] \notin done'
               /\ tasks'[i] = Gone => \E g \in done' : handle'[g] = i - 1
    <3>1. CASE i = n + 1
      BY <1>0, <1>b, <1>d, <1>e, <3>1, Indexed
    <3>2. CASE i \in 1..n
      <4>1. tasks'[i] = tasks[i] /\ tasks[i] \in Futures \cup {Gone}
        BY <1>e, <3>2, Indexed DEF n
      <4>2. tasks[i] # f
        BY <1>0, <3>2, Indexed DEF Live, n
      <4>3. tasks[i] # Gone => handle'[tasks[i]] = handle[tasks[i]]
        BY <1>d, <4>1, <4>2
      <4>4. /\ tasks[i] # Gone => handle[tasks[i]] = i - 1 /\ tasks[i] \notin done
            /\ tasks[i] = Gone => \E g \in done : handle[g] = i - 1
        BY <3>2 DEF Slots, n
      <4> QED
        BY <1>0, <2>2, <4>1, <4>3, <4>4
    <3> QED
      BY <1>e, <1>f, <3>1, <3>2
  <2>4. \A g \in done : handle'[g] < Len(tasks') /\ tasks'[handle'[g] + 1] = Gone
    <3> SUFFICES ASSUME NEW g \in done
                 PROVE  handle'[g] < Len(tasks') /\ tasks'[handle'[g] + 1] = Gone
      OBVIOUS
    <3>1. handle[g] \in Nat /\ handle[g] < n /\ tasks[handle[g] + 1] = Gone
      BY Indexed DEF Slots, n
    <3>2. handle[g] + 1 \in 1..n
      BY <1>b, <3>1
    <3> QED
      BY <1>b, <1>e, <2>2, <3>1, <3>2
  <2>5. \A g, h \in done : handle'[g] = handle'[h] => g = h
    BY <2>2 DEF Slots
  <2> QED
    BY <1>0, <2>1, <2>3, <2>4, <2>5 DEF Slots
<1>4. Queueing'
  <2>1. \A i \in 1..Len(channel') : i \in 1..Len(channel) \/ i = Len(channel) + 1
    BY <1>g, Indexed
  <2>2. \A i \in 1..Len(channel) : channel[i] < n /\ channel[i] \in Nat
    BY Indexed DEF Queueing, n
  <2>3. \A i \in 1..Len(channel') : channel'[i] < Len(tasks')
    BY <1>b, <1>e, <1>g, <2>1, <2>2
  <2> QED
    BY <1>0, <1>h, <2>3 DEF Queueing
<1>5. AllWatched'
  <2>1. pc = "recv" /\ ~Over
    BY <1>0 DEF Modes, Over
  <2> SUFFICES ASSUME NEW g \in Live', NEW s \in Sides PROVE Watched(g, s)'
    BY DEF AllWatched
  <2>2. CASE g = f
    <3>1. Queued(f)'
      BY <1>d, <1>g, Indexed DEF Queued
    <3> QED
      BY <2>2, <3>1 DEF Watched
  <2>3. CASE g # f
    <3>1. g \in Live /\ g \in Futures /\ handle'[g] = handle[g]
      BY <1>d, <1>h, <2>3 DEF Live
    <3>2. Queued(g) => Queued(g)'
      <4> SUFFICES ASSUME Queued(g) PROVE Queued(g)'
        OBVIOUS
      <4>1. PICK i \in 1..Len(channel) : channel[i] = handle[g]
        BY Indexed DEF Queued
      <4>2. i \in DOMAIN channel' /\ channel'[i] = channel[i]
        BY <1>g, <4>1, Indexed
      <4> QED
        BY <3>1, <4>1, <4>2 DEF Queued
    <3>3. Watched(g, s)
      BY <2>1, <3>1 DEF AllWatched
    <3> QED
      BY <1>0, <2>1, <3>2, <3>3 DEF Watched, AboutToLook
  <2> QED
    BY <2>2, <2>3
<1>6. Modes' /\ DrainComplete'
  BY <1>0 DEF Modes, DrainComplete
<1> QED
  BY <1>1, <1>2, <1>3, <1>4, <1>5, <1>6, <1>c, <1>d, <1>g, <1>h DEF n

(* do_some and drain begin and end, or the executor is dropped. *)
LEMMA OwnerIInv ==
    ASSUME IInv, DoSome \/ DoSomeEnds \/ Drain \/ Drop PROVE IInv'
<1> USE DEF IInv, ExecutorInv
<1>0. /\ ~Over /\ pc = "recv" /\ mode' \in {"open", "some", "drain", "drained", "dropped"}
      /\ mode' = "drained" => num_active = 0
      /\ UNCHANGED <<channel, tasks, num_active, handle, done, pc, cur, join, leaf, armed, broken>>
  BY DEF DoSome, DoSomeEnds, Drain, Drop, Over, Modes, taskVars, leafVars
<1>1. TypeOK'
  BY <1>0 DEF TypeOK
<1>2. CountExact' /\ Slots' /\ Live' = Live /\ Spawned' = Spawned
  BY <1>0, TasksKept
<1>3. Queueing'
  BY <1>0, <1>2 DEF Queueing
<1>4. AllWatched'
  BY <1>0, <1>2 DEF AllWatched, Watched, Queued, AboutToLook
<1>5. Modes' /\ DrainComplete'
  BY <1>0, <1>2, NoneLeft DEF Modes, DrainComplete
<1> QED
  BY <1>1, <1>2, <1>3, <1>4, <1>5

(* A wake is taken from the channel: its task is polled, if it is still there. *)
LEMMA RecvIInv ==
    ASSUME IInv, Recv
    PROVE  /\ IInv' /\ cur' \in 1..Len(tasks) /\ cur' = Head(channel) + 1
           /\ channel # <<>> /\ channel' = Tail(channel)
<1> USE DEF IInv, ExecutorInv
<1>0. /\ mode \in {"some", "drain"} /\ pc = "recv" /\ channel # <<>>
      /\ channel' = Tail(channel) /\ cur' = Head(channel) + 1
      /\ UNCHANGED <<tasks, num_active, handle, done, join, leaf, armed, broken>>
  BY DEF Recv, taskVars, leafVars
<1>a. /\ tasks[cur'] = Gone => /\ pc' = pc
                               /\ mode' = IF mode = "drain" /\ num_active = 0 THEN "drained" ELSE mode
      /\ tasks[cur'] # Gone => pc' = "a" /\ mode' = mode
  BY DEF Recv, AfterWakeup
<1>b. /\ Len(channel) >= 1 /\ Len(channel') = Len(channel) - 1 /\ Head(channel) = channel[1]
      /\ \A i \in 1..Len(channel') : channel'[i] = channel[i + 1]
      /\ channel' \in Seq(Handles)
  BY <1>0, Indexed
<1>c. Head(channel) \in Nat /\ Head(channel) < Len(tasks)
  BY <1>b, Indexed DEF Queueing
<1>d. cur' \in 1..Len(tasks)
  BY <1>0, <1>c, Indexed
<1>e. CountExact' /\ Slots' /\ Live' = Live /\ Spawned' = Spawned
  BY <1>0, TasksKept
<1>1. TypeOK'
  <2>1. cur' \in 0..Len(tasks') /\ cur' > 0 /\ tasks'[cur'] = tasks[cur']
        /\ tasks[cur'] \in Futures \cup {Gone}
    BY <1>0, <1>d, Indexed
  <2>2. pc' # "recv" => cur' > 0 /\ tasks'[cur'] \in Futures
    BY <1>0, <1>a, <2>1
  <2>3. mode' \in {"some", "drain", "drained"} /\ pc' \in {"recv", "a"}
    BY <1>0, <1>a
  <2> QED
    BY <1>0, <1>b, <2>1, <2>2, <2>3 DEF TypeOK, Handles, Sides
<1>2. Queueing'
  <2>1. \A i \in 1..Len(channel') : i + 1 \in 1..Len(channel)
    BY <1>b, Indexed
  <2> QED
    BY <1>0, <1>b, <1>e, <2>1 DEF Queueing
<1>3. AllWatched'
  <2>1. ~Over
    BY <1>0 DEF Over
  <2> SUFFICES ASSUME NEW g \in Live, NEW s \in Sides, Watched(g, s) PROVE Watched(g, s)'
    BY <1>e, <2>1 DEF AllWatched
  <2>2. CASE handle[g] = Head(channel)
    <3>1. tasks[cur'] = g /\ g # Gone
      BY <1>0, <2>2, LiveSlot, Indexed
    <3> QED
      BY <1>0, <1>a, <3>1 DEF Watched, AboutToLook
  <2>3. CASE handle[g] # Head(channel)
    <3>1. g \in Futures
      BY LiveSlot
    <3>2. Queued(g) => Queued(g)'
      BY <1>0, <2>3, <3>1, QueuedTail
    <3> QED
      BY <1>0, <3>2 DEF Watched, AboutToLook
  <2> QED
    BY <2>2, <2>3
<1>4. Modes'
  BY <1>0, <1>a DEF Modes
<1>5. DrainComplete'
  BY <1>0, <1>a, <1>e, NoneLeft DEF DrainComplete
<1> QED
  BY <1>0, <1>1, <1>2, <1>3, <1>4, <1>5, <1>d, <1>e

(* A side of the join is polled: a leaf that is pending keeps the waker. *)
LEMMA PollSideIInv ==
    ASSUME IInv, NEW s \in Sides, PollSide(s) PROVE IInv'
<1> USE DEF IInv, ExecutorInv
<1> DEFINE f == tasks[cur]
<1>0. /\ pc = s /\ UNCHANGED <<channel, mode, tasks, num_active, handle, done, cur, leaf, broken>>
      /\ armed' = IF join[f][s] = "future" /\ leaf[f][s] = "pending"
                    THEN [armed EXCEPT ![f] = @ \cup {s}] ELSE armed
      /\ join' = IF leaf[f][s] # "pending" /\ ~Fails(f, s)
                   THEN [join EXCEPT ![f][s] = "ready"] ELSE join
      /\ pc' = IF Fails(f, s) THEN "ready" ELSE After(s, join'[f])
  BY DEF PollSide, taskVars
<1>a. pc # "recv" /\ pc # "ready" /\ s \in {"a", "b"} /\ pc' \in {"recv", "ready", "b"}
  BY <1>0 DEF Sides, After
<1>b. cur \in 1..Len(tasks) /\ f \in Live /\ f \in Futures
  BY <1>a, CurLive, LiveSlot
<1>c. CountExact' /\ Slots' /\ Live' = Live /\ Spawned' = Spawned
  BY <1>0, TasksKept
<1>d. /\ armed \in [Futures -> SUBSET Sides] /\ armed' \in [Futures -> SUBSET Sides]
      /\ \A g \in Futures : armed[g] \subseteq armed'[g] /\ (g # f => armed'[g] = armed[g])
      /\ (join[f][s] = "future" /\ leaf[f][s] = "pending" => s \in armed'[f])
  BY <1>0, <1>b DEF TypeOK
<1>e. /\ join' \in [Futures -> [Sides -> {"future", "ready"}]]
      /\ \A g \in Futures : g # f => join'[g] = join[g]
      /\ \A t \in Sides : join'[f][t] = "future" => join[f][t] = "future"
      /\ leaf[f][s] # "pending" /\ ~Fails(f, s) => join'[f][s] = "ready"
  BY <1>0, <1>b DEF TypeOK
<1> HIDE DEF f
<1>1. TypeOK'
  <2>1. pc' \in {"recv", "ready"} \cup Sides
    BY <1>a DEF Sides
  <2>2. pc' # "recv" => cur' > 0 /\ tasks'[cur'] \in Futures
    BY <1>0, <1>b DEF f
  <2> QED
    BY <1>0, <1>d, <1>e, <2>1, <2>2 DEF TypeOK
<1>2. Queueing'
  <2>1. \A g \in Futures : armed'[g] # {} => g \in Spawned
    BY <1>b, <1>d DEF Queueing, Spawned
  <2> QED
    BY <1>0, <1>c, <2>1 DEF Queueing
<1>3. AllWatched'
  <2>1. ~Over
    BY <1>a DEF Over, Modes
  <2> SUFFICES ASSUME NEW g \in Live, NEW t \in Sides, Watched(g, t) PROVE Watched(g, t)'
    BY <1>c, <2>1 DEF AllWatched
  <2>2. g \in Futures /\ (Queued(g)' <=> Queued(g))
    BY <1>0, LiveSlot DEF Queued
  <2>3. CASE g # f
    BY <1>0, <1>d, <1>e, <2>2, <2>3 DEF Watched, AboutToLook, f
  <2>4. CASE g = f /\ pc' = "ready"
    BY <1>0, <2>4 DEF Watched, f
  <2>5. CASE g = f /\ t = s /\ ~Fails(f, s)
    BY <1>0, <1>d, <1>e, <2>5 DEF Watched
  <2>6. CASE g = f /\ t # s /\ s = "a" /\ ~Fails(f, s)
    <3>1. pc' = "b" /\ t = "b"
      BY <1>0, <2>6 DEF After, Sides
    <3> QED
      BY <1>0, <2>6, <3>1 DEF Watched, AboutToLook, f
  <2>7. CASE g = f /\ t # s /\ s = "b"
    <3>1. ~AboutToLook(f, t) /\ t = "a"
      BY <1>0, <2>7 DEF AboutToLook, Sides
    <3>2. join[f][t] = "future" => (t \in armed[f] /\ leaf[f][t] = "pending") \/ Queued(f)
      BY <1>a, <2>7, <3>1 DEF Watched
    <3> QED
      BY <1>0, <1>b, <1>d, <1>e, <2>2, <2>7, <3>2 DEF Watched
  <2>8. Fails(f, s) => pc' = "ready"
    BY <1>0
  <2> QED
    BY <1>a, <2>3, <2>4, <2>5, <2>6, <2>7, <2>8
<1>4. Modes' /\ DrainComplete'
  BY <1>0, <1>a, <1>c DEF Modes, DrainComplete
<1> QED
  BY <1>1, <1>2, <1>3, <1>4, <1>c

(* A task whose poll has returned Ready vacates its slot and is counted off. *)
LEMMA CompleteIInv ==
    ASSUME IInv, Complete
    PROVE  /\ IInv' /\ Live' = Live \ {tasks[cur]} /\ done' = done \cup {tasks[cur]}
           /\ Spawned' = Spawned /\ tasks[cur] \in Live /\ pc # "recv" /\ pc' = "recv"
           /\ UNCHANGED <<channel, handle>>
<1> USE DEF IInv, ExecutorInv
<1>0. /\ pc = "ready" /\ num_active' = (num_active - 1) % HandleSize
      /\ done' = done \cup {tasks[cur]} /\ tasks' = [tasks EXCEPT ![cur] = Gone]
      /\ pc' = "recv" /\ mode' = IF mode = "drain" /\ num_active' = 0 THEN "drained" ELSE mode
      /\ UNCHANGED <<channel, handle, cur, join, leaf, armed, broken>>
  BY DEF Complete, AfterWakeup, leafVars
<1>a. PICK f \in Futures : f = tasks[cur] /\ f \in Live /\ f # Gone /\ f \notin done
                           /\ handle[f] = cur - 1 /\ cur \in 1..Len(tasks)
  BY <1>0, CurLive, LiveSlot, Indexed
<1>b. /\ tasks' \in Seq(Futures \cup {Gone}) /\ Len(tasks') = Len(tasks) /\ tasks'[cur] = Gone
      /\ \A i \in 1..Len(tasks) : i # cur => tasks'[i] = tasks[i]
      /\ DOMAIN tasks' = 1..Len(tasks)
  BY <1>0, <1>a, Indexed
<1>c. \A i \in 1..Len(tasks) : tasks[i] = f => i = cur
  <2> SUFFICES ASSUME NEW i \in 1..Len(tasks), tasks[i] = f PROVE i = cur
    OBVIOUS
  <2>1. handle[f] = i - 1
    BY <1>a DEF Slots
  <2> QED
    BY <1>a, <2>1, Indexed
<1>d. Live' = Live \ {f}
  <2>1. Live = {g \in Futures : \E i \in 1..Len(tasks) : tasks[i] = g}
    BY Indexed DEF Live
  <2>2. Live' = {g \in Futures : \E i \in 1..Len(tasks) : tasks'[i] = g}
    BY <1>b DEF Live
  <2> QED
    BY <1>a, <1>b, <1>c, <2>1, <2>2, Indexed
<1>e. Spawned' = Spawned
  BY <1>0, <1>a, <1>d DEF Spawned
<1>f. Active' = Active \ {cur} /\ cur \in Active
  <2>1. Active' = {i \in 1..Len(tasks) : tasks'[i] # Gone}
    BY <1>b DEF Active
  <2> QED
    BY <1>a, <1>b, <2>1 DEF Active
<1>g. Cardinality(Active') = Cardinality(Active) - 1 /\ Cardinality(Active) = num_active
  BY <1>f, ActiveCounted, FS_RemoveElement
<1>h. num_active' = num_active - 1 /\ num_active' \in 0..(HandleSize - 1)
  <2>1. Cardinality(Active) # 0
    BY <1>f, ActiveCounted, FS_EmptySet
  <2>2. num_active \in 0..(HandleSize - 1) /\ num_active # 0
    BY <1>g, <2>1 DEF TypeOK
  <2>3. num_active - 1 \in 0..(HandleSize - 1)
    BY <2>2, HandlesNat
  <2>4. \A x \in 0..(HandleSize - 1) : x % HandleSize = x
    BY HandlesNat
  <2> QED
    BY <1>0, <2>3, <2>4
<1>1. TypeOK'
  <2>1. mode' \in {"open", "some", "drain", "drained", "dropped"} /\ cur' \in 0..Len(tasks')
    BY <1>0, <1>b DEF TypeOK
  <2>2. done' \subseteq Futures
    BY <1>0, <1>a, Indexed
  <2> QED
    BY <1>0, <1>b, <1>h, <2>1, <2>2 DEF TypeOK
<1>2. CountExact'
  <2>1. Active' = {i \in DOMAIN tasks' : tasks'[i] # Gone}
    BY <1>b DEF Active
  <2>2. num_active' = Cardinality(Active')
    BY <1>g, <1>h
  <2> QED
    BY <2>1, <2>2 DEF CountExact
<1>3. Slots'
  <2>1. Len(tasks') = Cardinality(Spawned')
    BY <1>b, <1>e DEF Slots
  <2>2. ASSUME NEW i \in 1..Len(tasks)
        PROVE  /\ tasks'[i] # Gone => handle[tasks'[i]] = i - 1 /\ tasks'[i] \notin done'
               /\ tasks'[i] = Gone => \E g \in done' : handle[g] = i - 1
    <3>1. CASE i = cur
      BY <1>0, <1>a, <1>b, <3>1
    <3>2. CASE i # cur
      <4>1. tasks'[i] = tasks[i] /\ tasks[i] # f
        BY <1>b, <1>c, <3>2
      <4> QED
        BY <1>0, <1>a, <4>1 DEF Slots
    <3> QED
      BY <3>1, <3>2
  <2>3. \A g \in done' : handle[g] < Len(tasks) /\ tasks'[handle[g] + 1] = Gone
    <3> SUFFICES ASSUME NEW g \in done' PROVE handle[g] < Len(tasks) /\ tasks'[handle[g] + 1] = Gone
      OBVIOUS
    <3>1. CASE g = f
      <4>1. handle[f] < Len(tasks) /\ handle[f] + 1 = cur
        BY <1>a, Indexed
      <4> QED
        BY <1>b, <3>1, <4>1
    <3>2. CASE g \in done
      <4>1. handle[g] \in Nat /\ handle[g] < Len(tasks) /\ tasks[handle[g] + 1] = Gone
        BY <3>2, Indexed DEF Slots
      <4>2. handle[g] + 1 \in 1..Len(tasks)
        BY <4>1, Indexed
      <4> QED
        BY <1>a, <1>b, <4>1, <4>2
    <3> QED
      BY <1>0, <1>a, <3>1, <3>2
  <2>4. \A g, h \in done' : handle[g] = handle[h] => g = h
    <3>1. \A g \in done' : g \in Spawned
      BY <1>0, <1>a DEF Spawned
    <3> QED
      BY <3>1, HandlesDiffer
  <2>5. handle' = handle /\ Len(tasks') = Len(tasks)
    BY <1>0, <1>b
  <2> QED
    BY <2>1, <2>2, <2>3, <2>4, <2>5 DEF Slots
<1>4. Queueing'
  BY <1>0, <1>b, <1>e DEF Queueing
<1>5. AllWatched'
  <2>1. ~Over
    BY <1>0 DEF Over, Modes
  <2> SUFFICES ASSUME NEW g \in Live, g # f, NEW s \in Sides, Watched(g, s) PROVE Watched(g, s)'
    BY <1>d, <2>1 DEF AllWatched
  <2>2. ~AboutToLook(g, s) /\ tasks[cur] # g
    BY <1>a DEF AboutToLook
  <2> QED
    BY <1>0, <2>2 DEF Watched, Queued
<1>6. Modes'
  BY <1>0 DEF Modes
<1>7. DrainComplete'
  <2>1. TypeOK' /\ CountExact' /\ num_active' = 0 => Live' = {}
    <3> SUFFICES ASSUME TypeOK', CountExact', num_active' = 0 PROVE Live' = {}
      OBVIOUS
    <3>1. Cardinality(Active') = 0
      BY <1>g, <1>h
    <3>2. IsFiniteSet(Active')
      BY <1>f, ActiveCounted, FS_RemoveElement
    <3>3. Active' = {}
      BY <3>1, <3>2, FS_EmptySet
    <3> QED
      BY <1>b, <3>3, Indexed DEF Active, Live
  <2>2. mode # "drained"
    BY <1>0 DEF Modes
  <2> QED
    BY <1>0, <1>1, <1>2, <2>1, <2>2 DEF DrainComplete
<1> QED
  BY <1>0, <1>1, <1>2, <1>3, <1>4, <1>5, <1>6, <1>7, <1>a, <1>d, <1>e

(* A leaf fires, or wakes its task without reason, from another thread. *)
LEMMA WakeIInv ==
    ASSUME IInv, NEW f \in Futures,
           WakeForNothing(f) \/ \E s \in Sides, r \in {"ok", "err"} : Fire(f, s, r)
    PROVE  IInv'
<1> USE DEF IInv, ExecutorInv
<1>0. UNCHANGED <<mode, tasks, num_active, handle, done, pc, cur, join>>
  BY DEF WakeForNothing, Fire, execVars, taskVars
<1>1. CountExact' /\ Slots' /\ Live' = Live /\ Spawned' = Spawned
  BY <1>0, TasksKept
<1>2. \/ UNCHANGED <<channel, broken>>
      \/ Wake(f) /\ f \in Spawned
  BY DEF WakeForNothing, Fire, Queueing
<1>3. \/ UNCHANGED channel /\ broken' \subseteq Futures
      \/ ~Over /\ channel' = Append(channel, handle[f]) /\ UNCHANGED broken /\ f \in Spawned
  BY <1>2 DEF Wake, TypeOK
<1>4. handle[f] \in Handles
  BY Indexed
<1>5. channel' \in Seq(Handles)
  <2>1. CASE UNCHANGED channel
    BY <2>1, Indexed
  <2>2. CASE channel' = Append(channel, handle[f])
    BY <1>4, <2>2, Indexed
  <2> QED
    BY <1>3, <2>1, <2>2
<1>6. leaf' \in [Futures -> [Sides -> {"pending", "ok", "err"}]] /\ armed' \in [Futures -> SUBSET Sides]
      /\ \A g \in Futures : armed'[g] \subseteq armed[g]
  <2>1. CASE WakeForNothing(f)
    BY <2>1 DEF WakeForNothing, leafVars, TypeOK
  <2>2. ASSUME NEW s \in Sides, NEW r \in {"ok", "err"}, Fire(f, s, r)
        PROVE  /\ leaf' \in [Futures -> [Sides -> {"pending", "ok", "err"}]]
               /\ armed' \in [Futures -> SUBSET Sides]
               /\ \A g \in Futures : armed'[g] \subseteq armed[g]
    <3>1. leaf' = [leaf EXCEPT ![f][s] = r] /\ armed' = [armed EXCEPT ![f] = @ \ {s}]
      BY <2>2 DEF Fire
    <3> QED
      BY <3>1 DEF TypeOK
  <2> QED
    BY <2>1, <2>2
<1>7. TypeOK'
  BY <1>0, <1>3, <1>5, <1>6 DEF TypeOK, Handles
<1>8. Queueing'
  <2>1. \A g \in Futures : armed'[g] # {} => g \in Spawned
    BY <1>6 DEF Queueing
  <2>2. \A i \in 1..Len(channel') : channel'[i] < Len(tasks)
    <3>1. CASE UNCHANGED channel
      BY <3>1 DEF Queueing
    <3>2. CASE channel' = Append(channel, handle[f]) /\ f \in Spawned
      <4>1. handle[f] < Len(tasks)
        BY <3>2, SpawnedHandle
      <4>2. /\ Len(channel') = Len(channel) + 1 /\ channel'[Len(channel) + 1] = handle[f]
            /\ \A i \in 1..Len(channel) : channel'[i] = channel[i]
        BY <1>4, <3>2, Indexed
      <4>3. \A i \in 1..Len(channel') : i \in 1..Len(channel) \/ i = Len(channel) + 1
        BY <4>2, Indexed
      <4> QED
        BY <4>1, <4>2, <4>3 DEF Queueing
    <3> QED
      BY <1>3, <3>1, <3>2
  <2> QED
    BY <1>0, <1>1, <2>1, <2>2 DEF Queueing
<1>9. AllWatched'
  <2> SUFFICES ASSUME ~Over, NEW g \in Live, NEW t \in Sides, Watched(g, t) PROVE Watched(g, t)'
    BY <1>0, <1>1 DEF AllWatched, Over
  <2>1. g \in Futures
    BY LiveSlot
  <2>2. Queued(g) => Queued(g)'
    <3>1. CASE UNCHANGED channel
      BY <1>0, <3>1 DEF Queued
    <3>2. CASE channel' = Append(channel, handle[f])
      BY <1>0, <1>4, <2>1, <3>2, QueuedAppend
    <3> QED
      BY <1>3, <3>1, <3>2
  <2>3. AboutToLook(g, t)' <=> AboutToLook(g, t)
    BY <1>0 DEF AboutToLook
  <2>4. (t \in armed[g] /\ leaf[g][t] = "pending")
            => (t \in armed'[g] /\ leaf'[g][t] = "pending") \/ Queued(g)'
    <3>1. CASE WakeForNothing(f)
      BY <3>1 DEF WakeForNothing, leafVars
    <3>2. ASSUME NEW s \in Sides, NEW r \in {"ok", "err"}, Fire(f, s, r),
                 t \in armed[g], leaf[g][t] = "pending"
          PROVE  (t \in armed'[g] /\ leaf'[g][t] = "pending") \/ Queued(g)'
      <4>1. leaf' = [leaf EXCEPT ![f][s] = r] /\ armed' = [armed EXCEPT ![f] = @ \ {s}]
        BY <3>2 DEF Fire
      <4>2. CASE g = f /\ t = s
        <5>1. channel' = Append(channel, handle[f])
          BY <3>2, <4>2 DEF Fire, Wake
        <5> QED
          BY <1>0, <1>4, <2>1, <4>2, <5>1, QueuedAppend
      <4>3. CASE ~(g = f /\ t = s)
        BY <2>1, <3>2, <4>1, <4>3 DEF TypeOK
      <4> QED
        BY <4>2, <4>3
    <3> QED
      BY <3>1, <3>2
  <2> QED
    BY <1>0, <2>2, <2>3, <2>4 DEF Watched
<1>10. Modes' /\ DrainComplete'
  BY <1>0, <1>1 DEF Modes, DrainComplete
<1> QED
  BY <1>1, <1>7, <1>8, <1>9, <1>10

(* Every step preserves the invariant. *)
LEMMA StepIInv ==
    ASSUME HandlesSuffice PROVE IInv /\ [Next]_vars => IInv'
<1> SUFFICES ASSUME IInv, [Next]_vars PROVE IInv'
  OBVIOUS
<1>1. ASSUME NEW f \in Futures, Spawn(f) PROVE IInv'
  BY <1>1, SpawnIInv
<1>2. CASE DoSome \/ DoSomeEnds \/ Drain \/ Drop
  BY <1>2, OwnerIInv
<1>3. CASE Recv
  BY <1>3, RecvIInv
<1>4. ASSUME NEW s \in Sides, PollSide(s) PROVE IInv'
  BY <1>4, PollSideIInv
<1>5. CASE Complete
  BY <1>5, CompleteIInv
<1>6. CASE Other
  BY <1>6, WakeIInv DEF Other
<1>7. CASE UNCHANGED vars
  <2>1. UNCHANGED <<mode, channel, tasks, num_active, handle, pc, cur, join, leaf, armed, done, broken>>
    BY <1>7 DEF vars, execVars, taskVars, leafVars
  <2>2. Live' = Live /\ Spawned' = Spawned
    BY <2>1 DEF Live, Spawned
  <2>3. ExecutorInv' /\ Slots'
    BY <2>1, <2>2 DEF IInv, ExecutorInv, TypeOK, CountExact, Slots
  <2>4. Queueing' /\ Modes' /\ DrainComplete'
    BY <2>1, <2>2 DEF IInv, Queueing, Modes, DrainComplete
  <2>5. AllWatched'
    BY <2>1, <2>2 DEF IInv, AllWatched, Watched, Queued, AboutToLook, Over
  <2> QED
    BY <2>3, <2>4, <2>5 DEF IInv
<1> QED
  BY <1>1, <1>2, <1>3, <1>4, <1>5, <1>6, <1>7 DEF Next, Owner, Run

(* The inductive invariant holds throughout. *)
THEOREM Invariance ==
    ASSUME HandlesSuffice PROVE Spec => []IInv
BY InitIInv, StepIInv, PTL DEF Spec

(* num_active (executor.rs), from which drain decides, is the number of    *)
(* tasks in the vector, whatever was spawned, woken and completed.          *)
THEOREM CountAlwaysExact ==
    ASSUME HandlesSuffice PROVE Spec => []ExecutorInv
<1>1. IInv => ExecutorInv
  BY DEF IInv
<1> QED
  BY <1>1, Invariance, PTL

(* A leaf that has fired, at whatever point of a poll, is seen by the poll  *)
(* under way or by one that is queued.                                      *)
THEOREM NothingEverMissed ==
    ASSUME HandlesSuffice PROVE Spec => []NothingMissed
<1>1. IInv => NothingMissed
  <2> SUFFICES ASSUME IInv, ~Over, NEW f \in Live, NEW s \in Sides,
                      join[f][s] = "future", leaf[f][s] # "pending"
               PROVE  Queued(f) \/ AboutToLook(f, s) \/ (pc = "ready" /\ tasks[cur] = f)
    BY DEF NothingMissed
  <2>1. Watched(f, s)
    BY DEF IInv, AllWatched
  <2> QED
    BY <2>1 DEF Watched
<1> QED
  BY <1>1, Invariance, PTL

(* A drain that has returned has left no task behind (executor.rs:71).      *)
THEOREM DrainsComplete ==
    ASSUME HandlesSuffice PROVE Spec => []DrainComplete
<1>1. IInv => DrainComplete
  BY DEF IInv
<1> QED
  BY <1>1, Invariance, PTL

-----------------------------------------------------------------------------
(* The positions at which a value occurs in a sequence, when one is added   *)
(* or the first is taken.                                                   *)
Positions(q, h) == {i \in DOMAIN q : q[i] = h}

LEMMA PositionsFinite ==
    ASSUME NEW S, NEW q \in Seq(S), NEW h
    PROVE  IsFiniteSet(Positions(q, h)) /\ Cardinality(Positions(q, h)) \in Nat
<1>1. Positions(q, h) \subseteq 1..Len(q) /\ IsFiniteSet(1..Len(q))
  BY FS_Interval DEF Positions
<1> QED
  BY <1>1, FS_Subset, FS_CardinalityType

LEMMA PositionsAppend ==
    ASSUME NEW S, NEW q \in Seq(S), NEW x \in S, NEW h
    PROVE  Cardinality(Positions(Append(q, x), h)) =
              IF h = x THEN Cardinality(Positions(q, h)) + 1 ELSE Cardinality(Positions(q, h))
<1> DEFINE n == Len(q) + 1
<1>1. /\ DOMAIN Append(q, x) = 1..n /\ Append(q, x)[n] = x /\ DOMAIN q = 1..Len(q)
      /\ \A i \in 1..Len(q) : Append(q, x)[i] = q[i]
      /\ \A i \in 1..n : i \in 1..Len(q) \/ i = n
      /\ 1..Len(q) \subseteq 1..n /\ n \in 1..n /\ n \notin 1..Len(q)
  OBVIOUS
<1> HIDE DEF n
<1>2. CASE h = x
  <2>1. Positions(Append(q, x), h) = Positions(q, h) \cup {n} /\ n \notin Positions(q, h)
    BY <1>1, <1>2 DEF Positions
  <2> QED
    BY <1>2, <2>1, PositionsFinite, FS_AddElement
<1>3. CASE h # x
  <2>1. Positions(Append(q, x), h) = Positions(q, h)
    BY <1>1, <1>3 DEF Positions
  <2> QED
    BY <1>3, <2>1
<1> QED
  BY <1>2, <1>3

LEMMA PositionsTail ==
    ASSUME NEW S, NEW q \in Seq(S), q # <<>>, NEW h
    PROVE  Cardinality(Positions(Tail(q), h)) =
              IF h = Head(q) THEN Cardinality(Positions(q, h)) - 1 ELSE Cardinality(Positions(q, h))
<1> DEFINE P == Positions(Tail(q), h)
           Q == Positions(q, h) \ {1}
           shift == [i \in P |-> i + 1]
<1>1. /\ DOMAIN Tail(q) = 1..(Len(q) - 1) /\ Head(q) = q[1] /\ DOMAIN q = 1..Len(q)
      /\ \A i \in 1..(Len(q) - 1) : Tail(q)[i] = q[i + 1]
      /\ Len(q) \in Nat /\ Len(q) >= 1 /\ Tail(q) \in Seq(S)
  OBVIOUS
<1>2. ASSUME NEW i \in P PROVE i \in Int /\ i + 1 \in Q
  <2>1. i \in 1..(Len(q) - 1) /\ Tail(q)[i] = h
    BY <1>1 DEF Positions
  <2>2. i + 1 \in 1..Len(q) /\ i + 1 # 1 /\ q[i + 1] = h
    BY <1>1, <2>1
  <2> QED
    BY <1>1, <2>1, <2>2 DEF Positions
<1>3. ASSUME NEW j \in Q PROVE j \in Int /\ j - 1 \in P
  <2>1. j \in 1..Len(q) /\ j # 1 /\ q[j] = h
    BY <1>1 DEF Positions
  <2>2. j - 1 \in 1..(Len(q) - 1) /\ (j - 1) + 1 = j
    BY <1>1, <2>1
  <2>3. Tail(q)[j - 1] = h
    BY <1>1, <2>1, <2>2
  <2> QED
    BY <1>1, <2>1, <2>2, <2>3 DEF Positions
<1> HIDE DEF P, Q
<1>4. ExistsBijection(P, Q)
  <2>1. shift \in [P -> Q]
    BY <1>2
  <2>2. \A i, j \in P : shift[i] = shift[j] => i = j
    BY <1>2
  <2>3. ASSUME NEW j \in Q PROVE \E i \in P : shift[i] = j
    <3>1. j - 1 \in P /\ shift[j - 1] = j
      BY <1>3
    <3> QED
      BY <3>1
  <2>4. shift \in Bijection(P, Q)
    BY <2>1, <2>2, <2>3, Fun_IsBij
  <2> QED
    BY <2>4 DEF ExistsBijection
<1>5. Cardinality(P) = Cardinality(Q)
  <2>1. IsFiniteSet(P)
    BY <1>1, PositionsFinite DEF P
  <2> QED
    BY <1>4, <2>1, FS_Bijection
<1>6. Cardinality(Q) = IF 1 \in Positions(q, h) THEN Cardinality(Positions(q, h)) - 1
                                                ELSE Cardinality(Positions(q, h))
  BY PositionsFinite, FS_RemoveElement DEF Q
<1>7. 1 \in Positions(q, h) <=> h = Head(q)
  BY <1>1 DEF Positions
<1> QED
  BY <1>5, <1>6, <1>7 DEF P

-----------------------------------------------------------------------------
(* What the contract sees of one task. *)
Phase(f) ==
    CASE Polled(f) -> "running"
      [] ~Polled(f) /\ f \in done -> "done"
      [] ~Polled(f) /\ f \in Live \ done -> "waiting"
      [] OTHER -> "absent"

Wakes(f) ==
    IF f \in Live \cup done
      THEN Cardinality({i \in DOMAIN channel : channel[i] = handle[f]}) ELSE 0

Phases == [f \in Futures |-> Phase(f)]
AllWakes == [f \in Futures |-> Wakes(f)]

LEMMA PhaseIs ==
    ASSUME NEW f
    PROVE  /\ Polled(f) => Phase(f) = "running"
           /\ ~Polled(f) /\ f \in done => Phase(f) = "done"
           /\ ~Polled(f) /\ f \in Live \ done => Phase(f) = "waiting"
           /\ ~Polled(f) /\ f \notin Live \cup done => Phase(f) = "absent"
BY DEF Phase

LEMMA NextPhaseIs ==
    ASSUME NEW f
    PROVE  /\ Polled(f)' => Phase(f)' = "running"
           /\ ~Polled(f)' /\ f \in done' => Phase(f)' = "done"
           /\ ~Polled(f)' /\ f \in Live' \ done' => Phase(f)' = "waiting"
           /\ ~Polled(f)' /\ f \notin Live' \cup done' => Phase(f)' = "absent"
BY DEF Phase

(* A step that changes what the contract sees of one task only. *)
LEMMA ContractStep ==
    ASSUME NEW f \in Futures,
           \A g \in Futures : g # f => Phase(g)' = Phase(g) /\ Wakes(g)' = Wakes(g),
           \/ Phase(f) = "absent"  /\ Phase(f)' = "waiting" /\ Wakes(f)' = Wakes(f) + 1
           \/ Phase(f) # "absent"  /\ Phase(f)' = Phase(f)  /\ Wakes(f)' = Wakes(f) + 1
           \/ Phase(f) = "waiting" /\ Phase(f)' = "running" /\ Wakes(f)' \in 0..(Wakes(f) - 1)
           \/ Phase(f) = "running" /\ Phase(f)' = "waiting" /\ Wakes(f)' = Wakes(f)
           \/ Phase(f) = "running" /\ Phase(f)' = "done"    /\ Wakes(f)' = Wakes(f)
           \/ Phase(f) = "done"    /\ Phase(f)' = Phase(f)  /\ Wakes(f)' \in 0..(Wakes(f) - 1)
    PROVE  Contract!Next
<1>1. Phases' = [Phases EXCEPT ![f] = Phase(f)'] /\ Phases[f] = Phase(f)
  BY DEF Phases
<1>2. AllWakes' = [AllWakes EXCEPT ![f] = Wakes(f)'] /\ AllWakes[f] = Wakes(f)
  BY DEF AllWakes
<1>3. Phase(f)' = Phase(f) => Phases' = Phases
  BY DEF Phases
<1>4. Wakes(f)' = Wakes(f) => AllWakes' = AllWakes
  BY DEF AllWakes
<1> DEFINE Moved(from, to) == Phases[f] = from /\ Phases' = [Phases EXCEPT ![f] = to]
           Told == AllWakes' = [AllWakes EXCEPT ![f] = AllWakes[f] + 1]
           Spent == \E n \in 0..(AllWakes[f] - 1) : AllWakes' = [AllWakes EXCEPT ![f] = n]
<1>5. \/ Moved("absent", "waiting") /\ Told
      \/ Phases[f] # "absent" /\ Phases' = Phases /\ Told
      \/ Moved("waiting", "running") /\ Spent
      \/ Moved("running", "waiting") /\ AllWakes' = AllWakes
      \/ Moved("running", "done") /\ AllWakes' = AllWakes
      \/ Phases[f] = "done" /\ Phases' = Phases /\ Spent
  BY <1>1, <1>2, <1>3, <1>4
<1>6. /\ Contract!Spawn(f) <=> Moved("absent", "waiting") /\ Told
      /\ Contract!Wake(f) <=> Phases[f] # "absent" /\ Phases' = Phases /\ Told
  BY DEF Contract!Spawn, Contract!Wake, Contract!Move, Contract!Woken, Phases, AllWakes, Phase, Wakes
<1>7. /\ Contract!Start(f) <=> Moved("waiting", "running") /\ Spent
      /\ Contract!Ignore(f) <=> Phases[f] = "done" /\ Phases' = Phases /\ Spent
  BY DEF Contract!Start, Contract!Ignore, Contract!Move, Contract!Spend, Phases, AllWakes, Phase, Wakes
<1>8. /\ Contract!Pend(f) <=> Moved("running", "waiting") /\ AllWakes' = AllWakes
      /\ Contract!Complete(f) <=> Moved("running", "done") /\ AllWakes' = AllWakes
  BY DEF Contract!Pend, Contract!Complete, Contract!Move, Phases, AllWakes, Phase, Wakes
<1> HIDE DEF Moved, Told, Spent
<1> QED
  BY <1>5, <1>6, <1>7, <1>8 DEF Contract!Next

(* A step that changes nothing the contract sees. *)
LEMMA ContractStutters ==
    ASSUME \A g \in Futures : Phase(g)' = Phase(g) /\ Wakes(g)' = Wakes(g)
    PROVE  UNCHANGED Contract!vars
<1>1. Phases' = Phases /\ AllWakes' = AllWakes
  BY DEF Phases, AllWakes
<1> QED
  BY <1>1 DEF Contract!vars, Phases, AllWakes, Phase, Wakes

(* The wakes a task has pending, by the steps of the channel. *)
LEMMA WakesKept ==
    ASSUME Live' \cup done' = Live \cup done, UNCHANGED <<channel, handle>>, NEW g
    PROVE  Wakes(g)' = Wakes(g)
BY DEF Wakes

LEMMA WakesAppend ==
    ASSUME IInv, Live' = Live, UNCHANGED <<handle, done>>,
           NEW f \in Spawned, channel' = Append(channel, handle[f]), NEW g \in Futures
    PROVE  Wakes(g)' = IF g = f THEN Wakes(g) + 1 ELSE Wakes(g)
<1>1. channel \in Seq(Handles) /\ handle[f] \in Handles /\ TypeOK /\ Slots
  BY Indexed, SpawnedHandle DEF IInv, ExecutorInv
<1>2. ASSUME g \in Spawned
      PROVE  Cardinality(Positions(channel', handle[g])) =
                IF g = f THEN Cardinality(Positions(channel, handle[g])) + 1
                         ELSE Cardinality(Positions(channel, handle[g]))
  <2>1. handle[g] = handle[f] <=> g = f
    BY <1>1, <1>2, HandlesDiffer
  <2> QED
    BY <1>1, <2>1, PositionsAppend
<1> QED
  BY <1>2 DEF Wakes, Positions, Spawned

(* The head of the channel is the handle of one task that was spawned; its  *)
(* wake is spent.                                                           *)
LEMMA WakesTail ==
    ASSUME IInv, Live' = Live, UNCHANGED <<handle, done>>, channel # <<>>,
           channel' = Tail(channel), NEW f \in Spawned, handle[f] = Head(channel)
    PROVE  /\ Wakes(f)' \in 0..(Wakes(f) - 1)
           /\ \A g \in Futures : g # f => Wakes(g)' = Wakes(g)
<1>1. channel \in Seq(Handles) /\ channel' \in Seq(Handles) /\ TypeOK /\ Slots
  BY Indexed DEF IInv, ExecutorInv
<1>2. ASSUME NEW g \in Spawned
      PROVE  Cardinality(Positions(channel', handle[g])) =
                IF g = f THEN Cardinality(Positions(channel, handle[g])) - 1
                         ELSE Cardinality(Positions(channel, handle[g]))
  <2>1. handle[g] = Head(channel) <=> g = f
    BY <1>1, <1>2, HandlesDiffer
  <2> QED
    BY <1>1, <2>1, PositionsTail
<1>3. /\ Cardinality(Positions(channel', handle[f])) \in Nat
      /\ Cardinality(Positions(channel, handle[f])) \in Nat
  BY <1>1, PositionsFinite
<1>4. /\ Wakes(f) = Cardinality(Positions(channel, handle[f]))
      /\ Wakes(f)' = Cardinality(Positions(channel', handle[f]))
  BY DEF Wakes, Positions, Spawned
<1>5. Wakes(f)' \in Nat /\ Wakes(f) \in Nat /\ Wakes(f)' = Wakes(f) - 1
  BY <1>2, <1>3, <1>4
<1>6. Wakes(f)' \in 0..(Wakes(f) - 1)
  BY <1>5
<1>7. \A g \in Futures : g # f => Wakes(g)' = Wakes(g)
  BY <1>2 DEF Wakes, Positions, Spawned
<1> QED
  BY <1>6, <1>7

LEMMA SpawnContract ==
    ASSUME HandlesSuffice, IInv, NEW f \in Futures, Spawn(f) PROVE Contract!Next
<1>1. /\ handle'[f] = Len(tasks) /\ Live' = Live \cup {f} /\ done' = done
      /\ channel' = Append(channel, Len(tasks)) /\ Len(tasks) \in Handles
      /\ \A g \in Futures : g # f => handle'[g] = handle[g]
  BY SpawnIInv DEF Spawn
<1>2. f \notin Live /\ f \notin done /\ pc = "recv" /\ pc' = "recv"
  BY DEF Spawn, IInv, Modes
<1>3. channel \in Seq(Handles) /\ TypeOK /\ Slots /\ Queueing /\ Len(tasks) \in Nat
  BY Indexed DEF IInv, ExecutorInv
<1>4. Phase(f) = "absent" /\ Phase(f)' = "waiting"
  BY <1>1, <1>2, PhaseIs, NextPhaseIs DEF Polled
<1>5. Wakes(f) = 0 /\ Wakes(f)' = 1
  <2>1. Positions(channel, Len(tasks)) = {}
    <3>1. \A i \in 1..Len(channel) : channel[i] # Len(tasks)
      BY <1>3, Indexed DEF Queueing
    <3> QED
      BY <1>3, <3>1, Indexed DEF Positions
  <2>2. Cardinality(Positions(channel', Len(tasks))) = 1
    <3>1. Cardinality(Positions(channel, Len(tasks))) = 0
      BY <2>1, FS_EmptySet
    <3>2. Cardinality(Positions(Append(channel, Len(tasks)), Len(tasks)))
             = Cardinality(Positions(channel, Len(tasks))) + 1
      BY <1>1, <1>3, PositionsAppend
    <3> QED
      BY <1>1, <3>1, <3>2
  <2> QED
    BY <1>1, <1>2, <2>2 DEF Wakes, Positions
<1>6. ASSUME NEW g \in Futures, g # f PROVE Phase(g)' = Phase(g) /\ Wakes(g)' = Wakes(g)
  <2>1. Phase(g)' = Phase(g)
    <3>1. ~Polled(g) /\ ~Polled(g)' /\ (g \in Live' <=> g \in Live) /\ (g \in done' <=> g \in done)
      BY <1>1, <1>2, <1>6 DEF Polled
    <3> QED
      BY <3>1, PhaseIs, NextPhaseIs
  <2>2. CASE g \in Spawned
    <3>1. handle[g] # Len(tasks) /\ handle'[g] = handle[g]
      BY <1>1, <1>3, <1>6, <2>2, SpawnedHandle
    <3>2. Cardinality(Positions(channel', handle[g])) = Cardinality(Positions(channel, handle[g]))
      BY <1>1, <1>3, <3>1, PositionsAppend
    <3> QED
      BY <1>1, <2>1, <2>2, <3>1, <3>2 DEF Wakes, Positions, Spawned
  <2>3. CASE g \notin Spawned
    BY <1>1, <1>6, <2>1, <2>3 DEF Wakes, Spawned
  <2> QED
    BY <2>2, <2>3
<1> QED
  BY <1>4, <1>5, <1>6, ContractStep

LEMMA RecvContract ==
    ASSUME IInv, Recv PROVE Contract!Next
<1>1. /\ cur' \in 1..Len(tasks) /\ cur' = Head(channel) + 1 /\ channel # <<>>
      /\ channel' = Tail(channel)
  BY RecvIInv
<1>2. /\ pc = "recv" /\ UNCHANGED <<tasks, handle, done>> /\ Live' = Live
      /\ pc' = IF tasks[cur'] = Gone THEN "recv" ELSE "a"
  BY DEF Recv, taskVars, Live
<1>3. TypeOK /\ Slots
  BY DEF IInv, ExecutorInv
<1>4. Head(channel) \in Nat /\ cur' - 1 = Head(channel)
  BY <1>1, <1>3, Indexed
<1>5. PICK f \in Spawned : /\ handle[f] = Head(channel)
                           /\ tasks[cur'] # Gone => f = tasks[cur'] /\ f \in Live /\ f \notin done
                           /\ tasks[cur'] = Gone => f \in done
  <2>1. CASE tasks[cur'] = Gone
    <3>1. \E f \in done : handle[f] = cur' - 1
      BY <1>1, <1>3, <2>1 DEF Slots
    <3> QED
      BY <1>4, <2>1, <3>1 DEF Spawned
  <2>2. CASE tasks[cur'] # Gone
    <3>1. tasks[cur'] \in Live
      BY <1>1, <1>3, <2>2, Indexed DEF Live
    <3>2. handle[tasks[cur']] = cur' - 1 /\ tasks[cur'] \notin done
      BY <1>1, <1>3, <2>2 DEF Slots
    <3> QED
      BY <1>4, <2>2, <3>1, <3>2 DEF Spawned
  <2> QED
    BY <2>1, <2>2
<1>6. f \in Futures
  BY <1>3, SpawnedHandle
<1>7. /\ Wakes(f)' \in 0..(Wakes(f) - 1)
      /\ \A g \in Futures : g # f => Wakes(g)' = Wakes(g)
  BY <1>1, <1>2, <1>5, WakesTail
<1>8. ASSUME NEW g \in Futures, g # f PROVE Phase(g)' = Phase(g)
  <2>1. ~Polled(g) /\ ~Polled(g)'
    BY <1>2, <1>5, <1>8 DEF Polled
  <2> QED
    BY <1>2, <2>1, PhaseIs, NextPhaseIs
<1>9. CASE tasks[cur'] = Gone
  <2>1. ~Polled(f) /\ ~Polled(f)' /\ f \in done /\ f \in done'
    BY <1>2, <1>5, <1>9 DEF Polled
  <2>2. Phase(f) = "done" /\ Phase(f)' = Phase(f)
    BY <2>1, PhaseIs, NextPhaseIs
  <2> QED
    BY <1>6, <1>7, <1>8, <2>2, ContractStep
<1>10. CASE tasks[cur'] # Gone
  <2>1. ~Polled(f) /\ Polled(f)' /\ f \in Live \ done
    BY <1>2, <1>5, <1>10 DEF Polled
  <2>2. Phase(f) = "waiting" /\ Phase(f)' = "running"
    BY <2>1, PhaseIs, NextPhaseIs
  <2> QED
    BY <1>6, <1>7, <1>8, <2>2, ContractStep
<1> QED
  BY <1>9, <1>10

LEMMA PollSideContract ==
    ASSUME IInv, NEW s \in Sides, PollSide(s) PROVE [Contract!Next]_(Contract!vars)
<1>1. /\ pc = s /\ pc # "recv" /\ UNCHANGED <<channel, tasks, handle, done, cur>>
      /\ Live' = Live
  BY DEF PollSide, taskVars, Live, Sides
<1>2. \A g \in Futures : Wakes(g)' = Wakes(g)
  BY <1>1, WakesKept
<1>3. TypeOK /\ Slots
  BY DEF IInv, ExecutorInv
<1>4. PICK f \in Futures : f = tasks[cur] /\ f \in Live /\ f \notin done
  BY <1>1, <1>3, CurLive, LiveSlot
<1>5. ASSUME NEW g \in Futures, g # f PROVE Phase(g)' = Phase(g)
  <2>1. ~Polled(g) /\ ~Polled(g)'
    BY <1>1, <1>4, <1>5 DEF Polled
  <2> QED
    BY <1>1, <2>1, PhaseIs, NextPhaseIs
<1>6. Phase(f) = "running"
  BY <1>1, <1>4, PhaseIs DEF Polled
<1>7. CASE pc' = "recv"
  <2>1. Phase(f)' = "waiting"
    BY <1>1, <1>4, <1>7, NextPhaseIs DEF Polled
  <2> QED
    BY <1>2, <1>5, <1>6, <2>1, ContractStep
<1>8. CASE pc' # "recv"
  <2>1. Phase(f)' = "running"
    BY <1>1, <1>4, <1>8, NextPhaseIs DEF Polled
  <2> QED
    BY <1>2, <1>5, <1>6, <2>1, ContractStutters
<1> QED
  BY <1>7, <1>8

LEMMA CompleteContract ==
    ASSUME IInv, Complete PROVE Contract!Next
<1>1. PICK f \in Futures : /\ f = tasks[cur] /\ f \in Live /\ f \notin done
                           /\ Live' = Live \ {f} /\ done' = done \cup {f}
                           /\ pc # "recv" /\ pc' = "recv" /\ UNCHANGED <<channel, handle>>
  <2>1. TypeOK /\ Slots
    BY DEF IInv, ExecutorInv
  <2> QED
    BY <2>1, CompleteIInv, LiveSlot
<1>2. Live' \cup done' = Live \cup done
  BY <1>1
<1>3. \A g \in Futures : Wakes(g)' = Wakes(g)
  BY <1>1, <1>2, WakesKept
<1>4. ASSUME NEW g \in Futures, g # f PROVE Phase(g)' = Phase(g)
  <2>1. ~Polled(g) /\ ~Polled(g)'
    BY <1>1, <1>4 DEF Polled
  <2>2. (g \in Live' <=> g \in Live) /\ (g \in done' <=> g \in done)
    BY <1>1, <1>4
  <2> QED
    BY <2>1, <2>2, PhaseIs, NextPhaseIs
<1>5. Phase(f) = "running" /\ Phase(f)' = "done"
  BY <1>1, PhaseIs, NextPhaseIs DEF Polled
<1> QED
  BY <1>3, <1>4, <1>5, ContractStep

LEMMA WakeContract ==
    ASSUME IInv, NEW f \in Futures,
           WakeForNothing(f) \/ \E s \in Sides, r \in {"ok", "err"} : Fire(f, s, r)
    PROVE  [Contract!Next]_(Contract!vars)
<1>1. /\ UNCHANGED <<tasks, handle, done, pc, cur>> /\ Live' = Live
  BY DEF WakeForNothing, Fire, execVars, taskVars, Live
<1>2. \/ UNCHANGED channel
      \/ channel' = Append(channel, handle[f]) /\ f \in Spawned
  BY DEF WakeForNothing, Fire, Wake, IInv, Queueing
<1>3. \A g \in Futures : Phase(g)' = Phase(g)
  BY <1>1 DEF Phase, Polled
<1>4. CASE UNCHANGED channel
  BY <1>1, <1>3, <1>4, WakesKept, ContractStutters
<1>5. CASE channel' = Append(channel, handle[f]) /\ f \in Spawned
  <2>1. \A g \in Futures : Wakes(g)' = IF g = f THEN Wakes(g) + 1 ELSE Wakes(g)
    BY <1>1, <1>5, WakesAppend
  <2>2. Phase(f) # "absent"
    BY <1>5, PhaseIs DEF Spawned
  <2> QED
    BY <1>3, <2>1, <2>2, ContractStep
<1> QED
  BY <1>2, <1>4, <1>5

(* Every step is one of the contract's, or none. *)
LEMMA StepContract ==
    ASSUME HandlesSuffice PROVE IInv /\ [Next]_vars => [Contract!Next]_(Contract!vars)
<1> SUFFICES ASSUME IInv, [Next]_vars PROVE [Contract!Next]_(Contract!vars)
  OBVIOUS
<1>1. ASSUME NEW f \in Futures, Spawn(f) PROVE Contract!Next
  BY <1>1, SpawnContract
<1>2. CASE DoSome \/ DoSomeEnds \/ Drain \/ Drop \/ UNCHANGED vars
  <2>1. UNCHANGED <<channel, tasks, handle, done, pc, cur>>
    BY <1>2 DEF DoSome, DoSomeEnds, Drain, Drop, vars, execVars, taskVars
  <2>2. Live' = Live
    BY <2>1 DEF Live
  <2>3. \A g \in Futures : Phase(g)' = Phase(g) /\ Wakes(g)' = Wakes(g)
    BY <2>1, <2>2 DEF Phase, Polled, Wakes
  <2> QED
    BY <2>3, ContractStutters
<1>3. CASE Recv
  BY <1>3, RecvContract
<1>4. ASSUME NEW s \in Sides, PollSide(s) PROVE [Contract!Next]_(Contract!vars)
  BY <1>4, PollSideContract
<1>5. CASE Complete
  BY <1>5, CompleteContract
<1>6. CASE Other
  BY <1>6, WakeContract DEF Other
<1> QED
  BY <1>1, <1>2, <1>3, <1>4, <1>5, <1>6 DEF Next, Owner, Run

LEMMA InitContract == Init => Contract!Init
<1> SUFFICES ASSUME Init PROVE Contract!Init
  OBVIOUS
<1>1. pc = "recv" /\ Live = {} /\ done = {}
  BY DEF Init, Live
<1>2. \A f \in Futures : Phase(f) = "absent" /\ Wakes(f) = 0
  BY <1>1, PhaseIs DEF Wakes, Polled
<1>3. Phases = [f \in Futures |-> "absent"] /\ AllWakes = [f \in Futures |-> 0]
  BY <1>2 DEF Phases, AllWakes
<1> QED
  BY <1>3 DEF Contract!Init, Phases, AllWakes, Phase, Wakes

(* The executor keeps its promise to the futures: polls of a task do not    *)
(* overlap, every poll is on account of a wake that came before it, and     *)
(* the wakes of a task that has completed are ignored.                      *)
THEOREM ContractKept ==
    ASSUME HandlesSuffice PROVE Spec => KeepsContract
<1>1. Init => Contract!Init
  BY InitContract
<1>2. IInv /\ [Next]_vars => [Contract!Next]_(Contract!vars)
  BY StepContract
<1> QED
  BY <1>1, <1>2, Invariance, PTL DEF Spec, KeepsContract, Contract!Spec
-----------------------------------------------------------------------------
(* The safety core of DrainReturns and FailsFast: what a drain that blocks   *)
(* is waiting for.                                                           *)

\* A side that a join keeps as ready has fired, and not with an error that
\* ends the join; a future that was not spawned has no such side.
Seen ==
    /\ \A f \in Futures, s \in Sides :
          join[f][s] = "ready" => leaf[f][s] # "pending" /\ ~Fails(f, s)
    /\ \A f \in Futures : join[f] # [t \in Sides |-> "future"] => f \in Spawned

\* A live task has a side its join has not seen, unless the poll that sees the
\* last one is under way.
HasOpenSide ==
    \A f \in Live : \/ \E s \in Sides : join[f][s] = "future"
                    \/ Polled(f) /\ pc \in {"b", "ready"}

\* drain goes on only while a task is active.
DrainHasTasks == mode = "drain" => num_active # 0

OpenInv == Seen /\ HasOpenSide /\ DrainHasTasks

\* A drain that blocks in recv has tasks left, and each of them has a leaf that
\* has not fired and holds its waker; none is a try_join2 with an error.
BlockedForLeaves ==
    mode = "drain" /\ pc = "recv" /\ channel = <<>> =>
        /\ Live # {}
        /\ \A f \in Live : /\ \E s \in Sides : s \in armed[f] /\ leaf[f][s] = "pending"
                           /\ \A s \in Sides : ~Fails(f, s)

(* Nothing is joined before the first spawn. *)
LEMMA InitOpen == Init => OpenInv
<1>1. DOMAIN <<>> = {}
  OBVIOUS
<1> QED
  BY <1>1 DEF Init, OpenInv, Seen, HasOpenSide, DrainHasTasks, Live

(* A step that leaves the joins and the polls alone. *)
LEMMA StayOpen ==
    ASSUME IInv, OpenInv, UNCHANGED <<tasks, pc, cur, join, done, num_active>>,
           mode' = "drain" => num_active # 0,
           \A f \in Futures, s \in Sides :
              leaf[f][s] # "pending" => leaf'[f][s] = leaf[f][s]
    PROVE  OpenInv'
<1>1. Live' = Live /\ Spawned' = Spawned
  BY DEF Live, Spawned
<1>2. Seen'
  BY <1>1 DEF OpenInv, Seen, Fails
<1>3. HasOpenSide' /\ DrainHasTasks'
  BY <1>1 DEF OpenInv, HasOpenSide, DrainHasTasks, Polled
<1> QED
  BY <1>2, <1>3 DEF OpenInv

(* A new task has both sides to look at. *)
LEMMA SpawnOpen ==
    ASSUME HandlesSuffice, IInv, OpenInv, NEW f \in Futures, Spawn(f) PROVE OpenInv'
<1>0. /\ mode = "open" /\ f \notin Live /\ f \notin done
      /\ UNCHANGED <<mode, pc, cur, join, leaf, done>>
  BY DEF Spawn, leafVars
<1>1. Live' = Live \cup {f} /\ Spawned' = Spawned \cup {f}
  BY <1>0, SpawnIInv DEF Spawned
<1>2. join[f] = [t \in Sides |-> "future"]
  BY <1>0 DEF OpenInv, Seen, Spawned
<1>3. pc = "recv"
  BY <1>0 DEF IInv, Modes
<1>4. Seen' /\ DrainHasTasks'
  BY <1>0, <1>1 DEF OpenInv, Seen, Fails, DrainHasTasks
<1>5. HasOpenSide'
  <2>1. "a" \in Sides /\ join[f]["a"] = "future"
    BY <1>2 DEF Sides
  <2> QED
    BY <1>0, <1>1, <1>3, <2>1 DEF OpenInv, HasOpenSide, Polled
<1> QED
  BY <1>4, <1>5 DEF OpenInv

(* A wakeup begins a poll, or ends at a vacated slot. *)
LEMMA RecvOpen == ASSUME IInv, OpenInv, Recv PROVE OpenInv'
<1>0. /\ pc = "recv" /\ UNCHANGED <<tasks, num_active, done, join, leaf>>
      /\ mode' = "drain" => mode = "drain"
  BY DEF Recv, AfterWakeup, taskVars, leafVars
<1>1. Live' = Live /\ Spawned' = Spawned
  BY <1>0 DEF Live, Spawned
<1>2. Seen' /\ DrainHasTasks'
  BY <1>0, <1>1 DEF OpenInv, Seen, Fails, DrainHasTasks
<1>3. HasOpenSide'
  BY <1>0, <1>1 DEF OpenInv, HasOpenSide, Polled
<1> QED
  BY <1>2, <1>3 DEF OpenInv

(* A side becomes ready when it has fired; a poll that ends Pending has left *)
(* a side open.                                                              *)
LEMMA PollSideOpen == ASSUME IInv, OpenInv, NEW s \in Sides, PollSide(s) PROVE OpenInv'
<1> DEFINE f == tasks[cur]
<1>0. /\ pc = s /\ UNCHANGED <<mode, tasks, num_active, done, cur, leaf>>
      /\ join' = IF leaf[f][s] # "pending" /\ ~Fails(f, s)
                   THEN [join EXCEPT ![f][s] = "ready"] ELSE join
      /\ pc' = IF Fails(f, s) THEN "ready" ELSE After(s, join'[f])
  BY DEF PollSide, taskVars
<1>a. pc # "recv"
  BY <1>0 DEF Sides
<1>b. f \in Live /\ f \in Futures
  BY <1>a, CurLive, LiveSlot DEF IInv, ExecutorInv
<1>c. Live' = Live /\ Spawned' = Spawned
  BY <1>0 DEF Live, Spawned
<1>d. /\ join \in [Futures -> [Sides -> {"future", "ready"}]]
      /\ join' \in [Futures -> [Sides -> {"future", "ready"}]]
      /\ \A g \in Futures : g # f => join'[g] = join[g]
      /\ \A t \in Sides : t # s => join'[f][t] = join[f][t]
      /\ join'[f][s] = "ready" => join[f][s] = "ready" \/ (leaf[f][s] # "pending" /\ ~Fails(f, s))
  BY <1>0, <1>b DEF IInv, ExecutorInv, TypeOK
<1> HIDE DEF f
<1>1. Seen'
  <2>1. ASSUME NEW g \in Futures, NEW t \in Sides, join'[g][t] = "ready"
        PROVE  leaf'[g][t] # "pending" /\ ~Fails(g, t)'
    <3>1. leaf[g][t] # "pending" /\ ~Fails(g, t)
      BY <1>d, <2>1 DEF OpenInv, Seen
    <3> QED
      BY <1>0, <3>1 DEF Fails
  <2>2. \A g \in Futures : join'[g] # [t \in Sides |-> "future"] => g \in Spawned
    BY <1>b, <1>d DEF OpenInv, Seen, Spawned
  <2> QED
    BY <1>c, <2>1, <2>2 DEF Seen
<1>2. HasOpenSide'
  <2> SUFFICES ASSUME NEW g \in Live
               PROVE  \/ \E t \in Sides : join'[g][t] = "future"
                      \/ Polled(g)' /\ pc' \in {"b", "ready"}
    BY <1>c DEF HasOpenSide
  <2>0. g \in Futures
    BY DEF Live
  <2>1. CASE g # f
    BY <1>d, <2>0, <2>1 DEF OpenInv, HasOpenSide, Polled, f
  <2>2. CASE g = f /\ pc' \in {"b", "ready"}
    BY <1>0, <2>2 DEF Polled, f
  <2>3. CASE g = f /\ pc' \notin {"b", "ready"}
    <3>1. join'[f] # [t \in Sides |-> "ready"]
      BY <1>0, <2>3 DEF After
    <3>2. join'[f] \in [Sides -> {"future", "ready"}]
      BY <1>b, <1>d
    <3>3. PICK t \in Sides : join'[f][t] # "ready"
      BY <3>1, <3>2
    <3>4. join'[f][t] = "future"
      BY <3>2, <3>3
    <3> QED
      BY <2>3, <3>4
  <2> QED
    BY <2>1, <2>2, <2>3
<1>3. DrainHasTasks'
  BY <1>0 DEF OpenInv, DrainHasTasks
<1> QED
  BY <1>1, <1>2, <1>3 DEF OpenInv

(* A task that completes is not live any more. *)
LEMMA CompleteOpen == ASSUME IInv, OpenInv, Complete PROVE OpenInv'
<1>0. /\ pc = "ready" /\ UNCHANGED <<join, leaf>>
      /\ mode' = IF mode = "drain" /\ num_active' = 0 THEN "drained" ELSE mode
  BY DEF Complete, AfterWakeup, leafVars
<1>1. Live' = Live \ {tasks[cur]} /\ Spawned' = Spawned
  BY CompleteIInv
<1>2. Seen' /\ DrainHasTasks'
  BY <1>0, <1>1 DEF OpenInv, Seen, Fails, DrainHasTasks
<1>3. HasOpenSide'
  BY <1>0, <1>1 DEF OpenInv, HasOpenSide, Polled
<1> QED
  BY <1>2, <1>3 DEF OpenInv

(* Every step keeps it. *)
LEMMA StepOpen ==
    ASSUME HandlesSuffice PROVE IInv /\ OpenInv /\ [Next]_vars => OpenInv'
<1> SUFFICES ASSUME IInv, OpenInv, [Next]_vars PROVE OpenInv'
  OBVIOUS
<1> USE DEF execVars, taskVars, leafVars
<1>1. CASE DoSome \/ DoSomeEnds \/ Drain \/ Drop \/ UNCHANGED vars
  <2>1. UNCHANGED <<tasks, pc, cur, join, done, num_active, leaf>>
    BY <1>1 DEF DoSome, DoSomeEnds, Drain, Drop, vars
  <2>2. mode' = "drain" => num_active # 0
    BY <1>1 DEF DoSome, DoSomeEnds, Drain, Drop, vars, OpenInv, DrainHasTasks
  <2> QED
    BY <2>1, <2>2, StayOpen
<1>2. CASE Other
  <2>1. PICK f \in Futures : WakeForNothing(f) \/ \E s \in Sides, r \in {"ok", "err"} : Fire(f, s, r)
    BY <1>2 DEF Other
  <2>2. UNCHANGED <<tasks, pc, cur, join, done, num_active, mode>>
    BY <2>1 DEF WakeForNothing, Fire
  <2>3. mode' = "drain" => num_active # 0
    BY <2>2 DEF OpenInv, DrainHasTasks
  <2>4. CASE WakeForNothing(f)
    BY <2>2, <2>3, <2>4, StayOpen DEF WakeForNothing
  <2>5. ASSUME NEW s \in Sides, NEW r \in {"ok", "err"}, Fire(f, s, r) PROVE OpenInv'
    <3>1. leaf[f][s] = "pending" /\ leaf' = [leaf EXCEPT ![f][s] = r]
      BY <2>5 DEF Fire
    <3>2. \A g \in Futures, t \in Sides : leaf[g][t] # "pending" => leaf'[g][t] = leaf[g][t]
      BY <3>1 DEF IInv, ExecutorInv, TypeOK
    <3> QED
      BY <2>2, <2>3, <3>2, StayOpen
  <2> QED
    BY <2>1, <2>4, <2>5
<1> QED
  BY <1>1, <1>2, SpawnOpen, RecvOpen, PollSideOpen, CompleteOpen DEF Next, Owner, Run

(* A drain blocks (executor.rs:75) only for leaves that have not fired and   *)
(* will wake it: it does not sleep on a task that could go on, on one that   *)
(* has failed, or with no task left.                                         *)
THEOREM DrainBlocksForLeaves ==
    ASSUME HandlesSuffice PROVE Spec => []BlockedForLeaves
<1>1. IInv /\ OpenInv => BlockedForLeaves
  <2> SUFFICES ASSUME IInv, OpenInv, mode = "drain", pc = "recv", channel = <<>>
               PROVE  /\ Live # {}
                      /\ \A f \in Live : /\ \E s \in Sides : s \in armed[f] /\ leaf[f][s] = "pending"
                                         /\ \A s \in Sides : ~Fails(f, s)
    BY DEF BlockedForLeaves
  <2>1. Live # {}
    <3>1. num_active # 0
      BY DEF OpenInv, DrainHasTasks
    <3>2. Active # {}
      BY <3>1, ActiveCounted, FS_EmptySet DEF IInv, ExecutorInv
    <3> QED
      BY <3>2, Indexed DEF Active, Live, IInv, ExecutorInv
  <2>2. ASSUME NEW f \in Live, NEW s \in Sides, join[f][s] = "future"
        PROVE  s \in armed[f] /\ leaf[f][s] = "pending"
    <3>1. Watched(f, s)
      BY DEF IInv, AllWatched, Over
    <3>2. ~Queued(f)
      BY DEF Queued
    <3> QED
      BY <2>2, <3>1, <3>2 DEF Watched, AboutToLook
  <2>3. ASSUME NEW f \in Live PROVE \E s \in Sides : join[f][s] = "future"
    BY DEF OpenInv, HasOpenSide
  <2>4. ASSUME NEW f \in Live, NEW s \in Sides PROVE ~Fails(f, s)
    <3>1. f \in Futures /\ join[f][s] \in {"future", "ready"}
      BY LiveSlot DEF IInv, ExecutorInv, TypeOK
    <3>2. CASE join[f][s] = "future"
      BY <2>2, <3>2 DEF Fails
    <3>3. CASE join[f][s] = "ready"
      BY <3>1, <3>3 DEF OpenInv, Seen
    <3> QED
      BY <3>1, <3>2, <3>3
  <2> QED
    BY <2>1, <2>2, <2>3, <2>4
<1>2. Spec => []OpenInv
  BY InitOpen, StepOpen, Invariance, PTL DEF Spec
<1> QED
  BY <1>1, <1>2, Invariance, PTL
=============================================================================
