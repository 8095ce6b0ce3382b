---------------------------- MODULE SyncExecutor ----------------------------
(***************************************************************************)
(* The single-threaded executor (src/sync/executor.rs, task.rs) running    *)
(* tasks that are join2 or try_join2 of two leaf futures (join/src/lib.rs).*)
(* The executor's own steps are sequential; leaves complete, and wake, on  *)
(* other threads, between any two of them and after the executor is gone.  *)
(*                                                                         *)
(* External: the leaves.  One that is polled before it has fired keeps the *)
(* waker, and uses it when it fires, or earlier without reason.            *)
(***************************************************************************)
EXTENDS Integers, Sequences, FiniteSets

CONSTANTS
    Futures,    \* the futures a program spawns
    FailFast,   \* those that are try_join2
    Gone,       \* the None a completed task leaves behind
    HandleSize, \* 2^16: handles and num_active are u16
    MaxChannel  \* bound: no wake without reason while so many are queued

ASSUME SyncAssumption ==
    /\ FailFast \subseteq Futures /\ Gone \notin Futures
    /\ HandleSize \in Nat \ {0} /\ MaxChannel \in Nat

Sides == {"a", "b"}

VARIABLES
    mode,       \* open, some (in do_some), drain, and over: drained, dropped
    channel,    \* handles to be polled
    tasks, num_active,
    handle,     \* the handle in the wakers of each task
    pc, cur,    \* recv, a and b (inside the join's poll), ready; task polled
    join,       \* each join's ReadyOrNot pair: future or ready
    leaf,       \* pending, ok or err
    armed,      \* leaves that hold the waker of their task
    done,       \* history: tasks whose poll has returned Ready
    broken      \* futures for whose sake a waking thread has panicked

taskVars == <<tasks, num_active, handle, done>>
execVars == <<mode, taskVars, pc, cur>>
leafVars == <<leaf, armed>>
vars == <<channel, execVars, join, leafVars, broken>>

Init ==
    /\ mode = "open" /\ channel = <<>> /\ tasks = <<>> /\ num_active = 0
    /\ handle = [f \in Futures |-> 0]
    /\ pc = "recv" /\ cur = 0
    /\ join = [f \in Futures |-> [s \in Sides |-> "future"]]
    /\ leaf = [f \in Futures |-> [s \in Sides |-> "pending"]]
    /\ armed = [f \in Futures |-> {}]
    /\ done = {} /\ broken = {}

Live == {f \in Futures : \E i \in DOMAIN tasks : tasks[i] = f}
Over == mode \in {"drained", "dropped"}

-----------------------------------------------------------------------------
\* The owner of the executor: spawn, do_some, drain, or just drop it.

Spawn(f) ==
    /\ mode = "open" /\ f \notin Live \cup done
    /\ tasks' = Append(tasks, f)
    /\ num_active' = (num_active + 1) % HandleSize
    /\ handle' = [handle EXCEPT ![f] = Len(tasks) % HandleSize]
    /\ channel' = Append(channel, handle'[f])
    /\ UNCHANGED <<mode, pc, cur, join, leafVars, done, broken>>

DoSome ==
    /\ mode = "open" /\ mode' = "some"
    /\ UNCHANGED <<channel, taskVars, pc, cur, join, leafVars, broken>>

DoSomeEnds ==
    /\ mode = "some" /\ pc = "recv" /\ channel = <<>>
    /\ mode' = "open"
    /\ UNCHANGED <<channel, taskVars, pc, cur, join, leafVars, broken>>

\* A drain that always waits for a wakeup first.
Drain_Waits ==
    /\ mode = "open"
    /\ mode' = "drain"
    /\ UNCHANGED <<channel, taskVars, pc, cur, join, leafVars, broken>>

Drain ==
    /\ mode = "open"
    /\ mode' = IF num_active = 0 THEN "drained" ELSE "drain"
    /\ UNCHANGED <<channel, taskVars, pc, cur, join, leafVars, broken>>

Drop ==
    /\ mode = "open" /\ mode' = "dropped"
    /\ UNCHANGED <<channel, taskVars, pc, cur, join, leafVars, broken>>

-----------------------------------------------------------------------------
\* do_a_wakeup.

\* What drain does after a wakeup that left n tasks active.
AfterWakeup(n) == mode' = IF mode = "drain" /\ n = 0 THEN "drained" ELSE mode

Recv ==
    /\ mode \in {"some", "drain"} /\ pc = "recv" /\ channel # <<>>
    /\ channel' = Tail(channel)
    /\ cur' = Head(channel) + 1
    /\ IF tasks[cur'] = Gone
         THEN AfterWakeup(num_active) /\ UNCHANGED pc
         ELSE pc' = "a" /\ UNCHANGED mode
    /\ UNCHANGED <<taskVars, join, leafVars, broken>>

Fails(f, s) == f \in FailFast /\ leaf[f][s] = "err"

\* Where a poll of the join goes after side s.
After(s, j) ==
    IF s = "a" THEN "b" ELSE IF j = [t \in Sides |-> "ready"] THEN "ready" ELSE "recv"

\* A join that looks at b only once a is ready.
PollSide_InOrder(s) ==
    LET f == tasks[cur]
    IN  /\ pc = s
        /\ IF join[f][s] = "future" /\ leaf[f][s] = "pending"
             THEN armed' = [armed EXCEPT ![f] = @ \cup {s}]
             ELSE UNCHANGED armed
        /\ join' = IF leaf[f][s] # "pending" THEN [join EXCEPT ![f][s] = "ready"] ELSE join
        /\ pc' = IF Fails(f, s) THEN "ready"
                 ELSE IF join'[f][s] = "future" THEN "recv" ELSE After(s, join'[f])
    /\ UNCHANGED <<channel, mode, taskVars, cur, leaf, broken>>

\* A try_join2 that keeps an error until the other side is ready too.
PollSide_Slow(s) ==
    LET f == tasks[cur]
    IN  /\ pc = s
        /\ IF join[f][s] = "future" /\ leaf[f][s] = "pending"
             THEN armed' = [armed EXCEPT ![f] = @ \cup {s}]
             ELSE UNCHANGED armed
        /\ join' = IF leaf[f][s] # "pending" THEN [join EXCEPT ![f][s] = "ready"] ELSE join
        /\ pc' = After(s, join'[f])
    /\ UNCHANGED <<channel, mode, taskVars, cur, leaf, broken>>

\* The poll of one side of a join: a leaf that is still pending keeps the
\* waker; an error of a try_join2 returns at once.
PollSide(s) ==
    LET f == tasks[cur]
    IN  /\ pc = s
        /\ IF join[f][s] = "future" /\ leaf[f][s] = "pending"
             THEN armed' = [armed EXCEPT ![f] = @ \cup {s}]
             ELSE UNCHANGED armed
        /\ join' = IF leaf[f][s] # "pending" /\ ~Fails(f, s)
                     THEN [join EXCEPT ![f][s] = "ready"] ELSE join
        /\ pc' = IF Fails(f, s) THEN "ready" ELSE After(s, join'[f])
    /\ UNCHANGED <<channel, mode, taskVars, cur, leaf, broken>>

\* A completion that leaves the task where it was.
Complete_Keeps ==
    /\ pc = "ready"
    /\ num_active' = (num_active - 1) % HandleSize
    /\ done' = done \cup {tasks[cur]}
    /\ pc' = "recv"
    /\ AfterWakeup(num_active')
    /\ UNCHANGED <<channel, tasks, handle, cur, join, leafVars, broken>>

\* A drain that returns with the first task that completes.
Complete_EndsDrain ==
    /\ pc = "ready"
    /\ num_active' = (num_active - 1) % HandleSize
    /\ done' = done \cup {tasks[cur]}
    /\ tasks' = [tasks EXCEPT ![cur] = Gone]
    /\ pc' = "recv"
    /\ AfterWakeup(0)
    /\ UNCHANGED <<channel, handle, cur, join, leafVars, broken>>

Complete ==
    /\ pc = "ready"
    /\ num_active' = (num_active - 1) % HandleSize
    /\ done' = done \cup {tasks[cur]}
    /\ tasks' = [tasks EXCEPT ![cur] = Gone]
    /\ pc' = "recv"
    /\ AfterWakeup(num_active')
    /\ UNCHANGED <<channel, handle, cur, join, leafVars, broken>>

-----------------------------------------------------------------------------
\* The other threads.

\* Wake::wake, with a waker of future f: the unwrap of send panics in the
\* waking thread once the receiver is gone.
Wake(f) ==
    IF Over THEN broken' = broken \cup {f} /\ UNCHANGED channel
            ELSE channel' = Append(channel, handle[f]) /\ UNCHANGED broken

Fire(f, s, result) ==
    /\ leaf[f][s] = "pending"
    /\ leaf' = [leaf EXCEPT ![f][s] = result]
    /\ armed' = [armed EXCEPT ![f] = @ \ {s}]
    /\ IF s \in armed[f] THEN Wake(f) ELSE UNCHANGED <<channel, broken>>
    /\ UNCHANGED <<execVars, join>>

WakeForNothing(f) ==
    /\ armed[f] # {} /\ Len(channel) < MaxChannel
    /\ Wake(f)
    /\ UNCHANGED <<execVars, join, leafVars>>

-----------------------------------------------------------------------------
Owner == (\E f \in Futures : Spawn(f)) \/ DoSome \/ Drain \/ Drop
Run   == DoSomeEnds \/ Recv \/ (\E s \in Sides : PollSide(s)) \/ Complete
Other == \E f \in Futures :
            WakeForNothing(f) \/ \E s \in Sides, r \in {"ok", "err"} : Fire(f, s, r)

Next == Owner \/ Run \/ Other

\* The thread that has called do_some or drain runs; nothing has to fire.
Spec == Init /\ [][Next]_vars /\ WF_vars(Run)

-----------------------------------------------------------------------------
TypeOK ==
    /\ mode \in {"open", "some", "drain", "drained", "dropped"}
    /\ channel \in Seq(0..(HandleSize - 1))
    /\ tasks \in Seq(Futures \cup {Gone}) /\ num_active \in 0..(HandleSize - 1)
    /\ pc \in {"recv", "ready"} \cup Sides /\ cur \in 0..Len(tasks)
    /\ pc # "recv" => cur > 0 /\ tasks[cur] \in Futures
    /\ handle \in [Futures -> 0..(HandleSize - 1)]
    /\ join \in [Futures -> [Sides -> {"future", "ready"}]]
    /\ leaf \in [Futures -> [Sides -> {"pending", "ok", "err"}]]
    /\ armed \in [Futures -> SUBSET Sides]
    /\ done \subseteq Futures /\ broken \subseteq Futures

\* num_active, from which drain decides, is the number of tasks in the vector,
\* whoever has completed and however often it was woken.
CountExact == num_active = Cardinality({i \in DOMAIN tasks : tasks[i] # Gone})

ExecutorInv == TypeOK /\ CountExact

Queued(f) == \E i \in DOMAIN channel : channel[i] = handle[f]

\* The poll under way has still to look at side s of future f.
AboutToLook(f, s) == pc # "recv" /\ tasks[cur] = f /\ pc \in {"a", s}

\* A leaf that has fired is never overlooked: as long as the join of a live
\* task has not seen it, the task is queued or the poll is on its way to it.
\* The wake that answers the firing may come at any point of a poll.
NothingMissed ==
    ~Over => \A f \in Live, s \in Sides :
        (join[f][s] = "future" /\ leaf[f][s] # "pending")
            => Queued(f) \/ AboutToLook(f, s) \/ (pc = "ready" /\ tasks[cur] = f)

\* "This function will return when all spawned tasks complete"
\* (executor.rs:71): a drain that has returned has left no task behind.
DrainComplete == mode = "drained" => Live = {}

AllFired == \A f \in Live, s \in Sides : leaf[f][s] # "pending"

\* And it does return, once every task is able to complete.
DrainReturns == (mode = "drain" /\ AllFired) ~> mode = "drained"

\* A try_join2 completes with the error of either side, whether or not the
\* other side ever fires ("fail-fast", join/src/lib.rs:100).
FailsFast ==
    \A f \in FailFast :
        (mode = "drain" /\ f \in Live /\ \E s \in Sides : Fails(f, s)) ~> f \in done

\* The executor keeps the contract in its strict form: wakes of a completed
\* task are ignored.
Polled(f) == pc # "recv" /\ tasks[cur] = f

Contract == INSTANCE TaskContract WITH
    Tasks <- Futures, Repolls <- FALSE,
    phase <- [f \in Futures |->
                CASE Polled(f) -> "running"
                  [] ~Polled(f) /\ f \in done -> "done"
                  [] ~Polled(f) /\ f \in Live \ done -> "waiting"
                  [] OTHER -> "absent"],
    wakes <- [f \in Futures |->
                IF f \in Live \cup done
                  THEN Cardinality({i \in DOMAIN channel : channel[i] = handle[f]}) ELSE 0]
KeepsContract == Contract!Spec
=============================================================================
