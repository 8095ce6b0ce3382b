# kiruna in TLA+

A verification project for kiruna, a small Rust async executor and IO library.
It models the concurrent parts of the library at the grain of their atomic
operations, checks them with TLC on small instances, and proves their safety
properties with TLAPS for every value of the constants.

## The system

| component | source | state | operations | model |
|---|---|---|---|---|
| tpc channel | `tpc/src/channel.rs`, `platform/*/semaphore.rs` | one bounded queue and semaphore per level, a global semaphore | `send`, `recv_immediate`, `recv_all` | `TpcChannel` |
| tpc worker pool | `tpc/src/bin.rs`, `global.rs` | the atomic thread count, the threads, `last_useful` of each | `spawn_mixed*`, `enforce_spare_thread_policy`, the worker loop, the idle timer | `TpcPool` |
| tpc tasks and wakers | `tpc/src/bin.rs:76-160, 215-236` | `OurFuture.locked`, the Arc counts, Work messages | poll under the try-lock, `clone`, `wake`, `wake_by_ref`, `drop` | `TpcTask` |
| tpc sets | `tpc/src/set.rs` | `children_remaining`, an AtomicWaker, the guard's state | guard and child polls, the count-down and wake, drop | `TpcSet` |
| tpc vec builder | `tpc/src/set/vec.rs` | the planner's cursor, the uninitialised vec | the plan of jobs, one job per closure, `set_len` | `VecPlan`, `VecBuild` |
| block_party | `block_party/src/pool.rs`, `future.rs` | a bounded(1) channel, `thread_launched`, the side channel, the worker's vectors, a mailbox per future | first and later polls, the worker loop, shutdown | `BlockParty` |
| sync executor | `src/sync/executor.rs`, `task.rs` | a channel of u16 handles, the vector of tasks, `num_active` | `spawn`, `do_some`, `drain`, `Wake::wake` | `SyncExecutor` |
| join | `join/src/lib.rs` | which side is ready | `Join2::poll`, `TryJoin2::poll` | the tasks of `SyncExecutor` |
| Windows streams | `stream/src/windows` | a two-permit semaphore, a sync_channel(5), per operation a result and a waker under a lock and a boxed child | `add_task`, Parent's poll, `begin_op`, the completion routine with `resume_op` | `Overlapped` |
| macOS streams, seek | `stream/src/macos`, `seek` | the buffer a future collects | `Read::all`, `write`, `seek::all`, `new`, `read` | the futures of `HostedIo` |
| test executors, `sync::block` | `src/test.rs`, `fake_waker.rs`, `sync.rs` | the wake channel of `sparse_await` | `test_poll`, `test_await`, `sparse_await`, `block` | the hosts of `HostedIo` |
| futures adapters | `futures/src/lib.rs` | none across polls | `PanicFuture`, `poll_inline`, `Map` | the first two in `HostedIo` |
| spawn, priority, platform | `spawn`, `priority`, `tpc/src/platform` | none | OS wrappers | not modelled |

**How they interact.** A spawn raises the pool's thread count and sends Work or
Simple messages on level 1 of the channel. Workers take a message from either
level, poll the future with a waker made from its Arc, and a wake sends a Work
message of that future on level 0. The timer thread sends Idle on level 1, and a
worker that takes one may exit. Futures of block_party and leaves of joins are
woken from foreign threads, and their wakers lead back into one of the two
executors. A set is a future on any executor whose children run on tpc; the vec
builder is a future that awaits one set and then exposes what its closures wrote. On Windows every stream
operation passes through one I/O thread: a poll sends it a closure, the closure starts the operation, and
the completion routine, on the same thread, leaves a result and wakes. On macOS and in seek the
system completes operations by itself and wakes whoever polled.

**What is hard.** Almost every mistake needs two threads: permits of three
semaphores that must add up to two queues; a count that is raised before the
threads exist and lowered while others rely on it; wakes that arrive before,
during and after a poll; a flag cleared by a worker that a sender has just read;
a waker registered while the event it waits for happens; handles that outlive
what they name; a signal that is dropped when a semaphore is full; memory that is handed to the system, or
to jobs, and read back on the strength of a counter. `PROJECT.json` lists these hazards with their lines.

## What makes each component correct

* *Channel*: a thread that owns a permit finds an element; no element waits while
  everyone sleeps; everything sent is received, once.
* *Pool*: the count is the number of threads; from the first spawn on there is a thread; no spawn and no wake is
  lost with a thread that exits or fails on a lock, and a closure is called once; whatever was spawned or woken
  begins to run; without work the pool goes back to one thread.
* *Tasks*: polls of a future exclude each other; no wake is lost; the reference
  count is the number of owners; a completed future is freed, and nobody touches it afterwards.
* *Sets*: a guard is Ready only when every child has completed; its host never sleeps
  beside a complete set; what the children wrote is visible; no child outlives the scope it borrows from.
* *block_party*: one worker at a time; each output reaches its own future; the worker
  does not sleep beside a task nor a future beside its mail.
* *Vec builder*: the plans are an even partition of the slots; each slot is written once, and all
  before the vector is handed out.
* *Sync executor*: no firing of a leaf is overlooked; `drain` returns exactly when all
  tasks are complete; handles of completed tasks are ignored; a `try_join2` fails fast.
* *Windows streams*: the I/O thread never blocks in `recv`; a child lives as long as the system may write into it;
  a result wakes the task that polled last; every closure is run.
* *Reads*, on both platforms: one answer, Ok only with all that the peer has sent.
* *Hosts*: polling only when woken is enough; a host that has polled comes to an end.

## Modules

`TpcChannel`. One action per atomic operation on a queue or a semaphore; `pc[t]`
says where a thread is inside `send` or a receive, `at[t]` on which level. The
worker is the loop of `bin.rs:180-189`: `TakeGlobal`, `TryPreferred`, `Restore`
are `recv_immediate(0)`; `WaitForever`, `Scan` and `Pop` are `recv_all`. Workers
send as well (from inside a task). A full level makes the sender panic
(`PushRefused`).

`TpcPool`. `Spawn` is `enforce_spare_thread_policy` up to its `fetch_update`,
`Launch` one iteration of its loop, `SendJob` one send. Between them other
spawns, exits and timer ticks interleave. `worker[w] = "promised"` is a thread that is
counted and not started. `TakeIdle` is the Idle arm with
`update_thread_counts`; `rested[w]` abstracts the comparison of `last_useful`
with `TARGET_IDLE_TIME`, and `Rest` lets the time pass. `TimerFires` reads the
count, `TimerSends` sends. The channel is one step per send or receive, as
`TpcChannel` allows. `TakeJob` receives a Work or Simple message, `Begin` calls the closure or wins the future's lock,
`Retry` fails on it and sends the message again, `Return` ends the call or the poll. `Wake` is a step of its own, by
the poll itself or by whoever holds a clone of the waker, so a future may be queued while it runs, be held by two
workers, be parked with no message anywhere, and have messages left after Ready. A poll after Ready (the finding
`tpc_task_repoll`) is taken to return, since a panic ends the process. That polls exclude each
other is `PollsExclusive` of `TpcTask`. `wanted` are the jobs spawned or woken since they last began to run; `polled` are the futures
whose waker may be outside, a superset of those whose waker is. Sets enforce the policy for all of their children and then
spawn them without a hint (`set.rs:123`, `146`, `267`, `285`), which is `Spawn` of several jobs followed by `SendJob`.

`TpcTask`. `TryLock`, `PollReturns`/`PollPanics`, `Unlock` and `Retry` are
`OurFuture::poll`; `Clone`, `Wake`, `WakeByRef`, `DropClone` are the vtable;
`Take` and `DropWaker` the rest of the Work arm. The poll itself is whatever a
future may do: keep a clone, wake itself, return Pending or Ready. The poll of
a future that has completed panics, and leaves the lock taken.

`TaskContract` is the abstract specification of what an executor owes a task: polls
do not overlap, each is on account of a wake, a wake is spent only by a poll that
starts after it. `TpcTask` implements it with `Repolls = TRUE`, `SyncExecutor` with
`Repolls = FALSE` (property `KeepsContract` of both); the difference between the
two is the finding `tpc_task_repoll`.

`BlockParty`. The actions follow `launch_if_needed_user_waiting` (`Send`, `Swap`,
`Launch`, `Wake`), the poll of `future.rs` (`FirstPoll`, `Poll`, `RegisterAgain`,
`Reread`) and the worker (`Receive`, `GreedyEnds`, `EnterWait`, `WaitTask`,
`WaitSide`, `SendMail`, `Notify`, `Refresh`, `TimeOut`, `Close`). A task, its mailbox and
its output share the name of their future, so that an output in a wrong mailbox is seen.
A future may be polled by another host than before, and without having been
woken. `oneWait`, chosen from `OneWaits`, is `one_wait_only()`. The worker may have emptied the channel and not yet
entered `wait_any` when a sender wakes the side channel, so the side channel is taken to
keep such a wake; `lib.rs:39` asks only that *active* calls return, and the mutant `EnterWait_Forgets`
shows that an implementation which does just that loses tasks.

`TpcSet`. The host's polls are cut at each atomic operation: `Poll`, `Look` (a load of the
counter, before and after `Register`), `FirstPoll`, `SpawnChild`, `SpawnsEnd`; the children go
`Start`, `CountDown`, `WakeHost`, `Finish`. `kind` says which of the two guards it is. The
memory orderings are views: `carried` are the children whose writes an Acquire load of
the counter brings, `wakerView` those that come through the AtomicWaker or the wake it makes, `seen` what
the host has. A Release adds to `carried`, a Relaxed one does not. A child future can be
polled once more after its completion, as `TpcTask` shows (`Repoll`); properties about
the counter are stated for sets where that has not happened. The counter wraps as
a u32 does.

`VecPlan` is `ChildPlanner` as operators: `Offset(len, t, i)` is the closed form of its iterator. `VecBuild`
extends it and `TpcSet`, and composes the two: `set_sync` plans (`DivideSlots`, `CollectPlan`), awaits the simple
guard of `TpcSet` (`AwaitSet`, `Begin`), whose child `i` writes the slots of plan `i` one by one
(`WriteSlot`) before it counts down (`BodyEnds`), and hands out the vector when the guard has been left
(`Return`). `stage = "plain"` are the sets of `TpcSet` on their own, so the module contains them. An empty
vector, no jobs, and a product of cores that wraps to zero all divide by zero (`"panicked"`).

`SyncExecutor`. `Spawn`, `DoSome`, `Drain`, `Drop` are the owner's calls; `Recv`,
`PollSide` and `Complete` are `do_a_wakeup`, with one step per side of the join
so that a leaf can fire between them. `HandleSize` stands for 2^16; handles and
`num_active` are taken modulo it, as a release build does.

`Overlapped`. `FirstPoll`, `Send` and `Signal` are the first poll with `add_task` cut where it may block and
where others can come between; `Poll` and `Resolve` are later polls, under the lock of `Shared`. The worker is
`WaitForSemaphore`, `RunClosure` and, while it waits, `Completion`, which is `resume_op`: `ResumePiece` for a
read that goes on, `ResumeLast` for the end of either. `Ready` stores the result and wakes under the mutex, and frees the
child. `waker` is `"current"` when it belongs to the task that polled last. The device completes operations in any
order or fails them, and a peer writes pieces and closes its end. A Windows pipe is modelled; a regular file
ends with another error code than `ERROR_BROKEN_PIPE` and comes back as an `Err`.

`HostedIo`. A future is a row of `Steps`, the operations it awaits in turn; those in `Eager` start the first one when
they are made, those in `Lazy` in their first poll. A macOS write is in both: `write_static` starts at once, `write_boxed` is
an async fn. `win_read` is lazy because seek's public `Read::new` is an async block (`seek/src/lib.rs:35-40`). `Unwraps` are the
panics where the code unwraps instead of awaiting. `host` is `busy` (`block`, `test_await`), `sparse` (`sparse_await`) or `once` (`test_poll`, `poll_inline`),
and `wrapped` says whether it is inside `PanicFuture`. `StartFirst`, `AwaitOp`, `TakeOutcome`, `StartRefused` and `Resolve`
are what one poll does, so that the system can complete an operation between any two of them.
`capacity` is the size of the Windows buffer, cut to u32 (`Width`).

`ReadContract` is the abstract specification of a read to the end: the peer sends and closes, and the read is
answered once, Ok with everything and only after the close, or with an error. `Overlapped` and
`HostedIo` both implement it (`KeepsReadContract`).

`MC*` modules only choose sizes; `*Proofs` hold theorems. Operators named
`Action_Something`, each right before the action, are mistakes the properties are shown to detect.

## Runs, bounds and what they show

| run | instance | shows |
|---|---|---|
| `tpc_channel` | 2 workers, 1 client, 3 messages, capacity 2 | permit accounting (with the types), no panic in a receive, delivery |
| `tpc_pool` | 3 workers, 2 spawners, 2 closures and 1 future woken up to twice, 2 cores, 2 Idles queued | exact count (with the types), no spawn or wake lost and closures called once, work has a worker, every spawned job and woken future begins, spin-down |
| `tpc_task` | 2 workers, 2 futures, 2 messages and 1 clone of each | exclusion, exact reference count, no lost wake, no use after free, wakes answered, futures freed, refinement of `TaskContract` |
| `tpc_set` | sets of both kinds with 0 to 3 children, 1 late poll each; vectors of 0 to 5 slots in up to 3 jobs | Ready means complete, no sleeping host, visibility for scoped sets, exact counter, plans that partition, vectors built whole, both futures resolve |
| `block_party` | 2 futures, 2 hosts, 2 threads, both kinds of side channel | one worker, right mail, tasks and mail noticed, every fired task answered |
| `sync_executor` | a join2 and a try_join2, 2 wakes queued before a spare one is refused | exact count, nothing missed, drain complete and returning, fail-fast, refinement of `TaskContract` |
| `overlapped` | 1 read of up to 2 pieces, 2 writes, channel of 2, semaphore of 2 | signals accounted for, children outlive their I/O, results noticed, refinement of `ReadContract`, operations answered |
| `hosted_io` | 6 futures on 3 hosts, plain and wrapped, up to 3 pieces, capacities below 4 | sparse polling suffices, refinement of `ReadContract`, hosts come to an end |

Four more runs find disagreements between the code and what it says of itself:

* `tpc_task_repoll`: a future woken twice is polled after it has returned Ready.
* `tpc_set_scope`: dropping an active guard panics, and the scope that the children borrow from
  ends while they are queued or running.
* `block_party_shutdown`: a task sent just before the store of `thread_launched` is stranded
  and later senders block for ever in their polls.
* `overlapped_signals`: three closures sent while the worker is busy leave two permits; the last
  closure is never run unless somebody sends another.

More have no run of their own:

* `lib.rs:80` of tpc promises a hot spare, but the policy counts busy threads.
* A simple guard counts with Relaxed orderings: it is Ready although nothing makes the closures' writes visible, and `set_sync`
  hands out the vec they wrote. In `TpcSet`, `ResultsVisible` fails for the kind `"simple"`.
* A wake after the sync executor has gone panics in the waking thread, and so does one of `sparse_await`'s waker after it has
  returned. `SyncExecutor` collects such threads in `broken`.
* The side channel of block_party has to keep a wake, as described above.
* The sync executor's handles are u16 positions in a vector that never shrinks (with `HandleSize = 2` and three futures `DrainReturns` fails).
* Windows reads of 4 GiB and more are cut to u32 (with `Width = 3` and files of three pieces `KeepsReadContract` of `HostedIo` fails).
* The vec builder's `*write_ptr = val` drops the uninitialised slot before it writes.

*Why the bounds suffice.* The races are between two threads, or a thread and a
timer; a third worker in the pool shows a pool grown past its limit. Capacity 2
with 3 messages makes a level fill up. Two messages of one future let two
workers hold it while a third wake is on its way; in the pool, two wakes of a running future do the same. Three children let the last
one overtake a poll while another is being polled again. Five slots in three jobs have plans of two sizes. Three
operations are one more than the semaphore holds, two closures fill the channel of the run. The invariants of
`block_party` also hold with three futures on one host (1.6 million states), where a send is blocked
beside a worker that waits; with its liveness property that instance takes too long to keep. Bounds that cut behaviour are
guards of the environment only: `MaxWork`, `MaxWakes`, `MaxClones`, `MaxIdle`, `MaxChannel` and `MaxPieces` refuse a
wake, a clone, a tick or a piece, never a step of the code. `Retry`, in `TpcTask` and in `TpcPool`, sends without a bound.

*Deadlock* is not checked, since every system here may rightly stop: workers
block for ever without work, a pool spins down, an executor is dropped.

*Symmetry* is not used: almost every run has a liveness property.

## Fairness

Weak fairness, per thread, of the steps a thread takes without waiting for
anybody's decision: finishing a send, receiving, launching promised threads,
returning from a poll, the worker loop. The operating system's scheduler
justifies it. The timer is periodic, time passes and a job returns (tpc
asks for jobs that do not block), hence `WF(Timer)`, `WF(Rest)` and `Return` within `WorkerStep`. A host
that is woken polls (`AnswerWake`). Nobody has to spawn, wake, fire, time out or drop anything.
In `TpcSet` a
poll that has begun goes on and children run; the second poll of a child is never obligatory; `VecBuild` adds that planning
goes on. In `Overlapped` the I/O thread runs, its completion routines are delivered (it always comes back to an alertable
wait), the device completes what was started and a peer closes its end at last. In `HostedIo` the polling thread
and the system go on and the peer closes; the clock may stand still, so that `Returns` owes nothing to a timeout.
An operation may fail, and never has to.
`WakeAnswered` holds for wakes and not for spawns: level 1 can be starved by level 0.

## Proofs

Every safety property that a passing run checks is also a theorem: the invariants
as `Spec => []Inv`, the action property `NoUseAfterFree`, and the four refinements
(`KeepsContract` and `KeepsReadContract`, twice each). TLC shows them on one instance, the
theorems for every number of threads, futures, messages, pieces and slots. Each
`*Proofs` module defines an inductive invariant, shows that `Init` implies it
and that every action keeps it, one step per action, and derives the listed theorems.

Liveness is out of the prover's reach, but its safety core is not: that the system never
comes to a point where something is owed and nobody can take a step. Seven theorems
say so, one for each liveness property that rests on it:

| theorem | what is owed | nobody can step only when |
|---|---|---|
| `ReceiversNeverStuck` | an element in a queue (`Delivery`) | all workers have died of the full queue |
| `PoolNeverStuck` | a job spawned, or a future woken, and not begun since (`EveryJobRuns`) | never |
| `WorkersNeverStuck` | an unanswered wake (`WakeAnswered`) | all workers have died of a panicking poll |
| `HostSleepsOnAChild` | a set that is awaited (`VecResolves`) | a child was lost to a panic |
| `OnlyShutdownStrands` | a fired task's future (`Answered`) | a send has crossed the shutdown (the finding `block_party_shutdown`) |
| `OnlyLostSignalsStall` | a polled operation (`Resolves`) | a signal was lost (the finding `overlapped_signals`) |
| `DrainBlocksForLeaves` | a drain (`DrainReturns`, `FailsFast`) | every task left waits for a leaf that has not fired |

They say more than the findings do: that these two races are the only ones of their kind. "Can step" is written as the guards
of the actions that have fairness (`CanStep`, `WorkerCanStep`, ...), since the prover does not do `ENABLED`; on the
instances of the runs TLC agrees that the two are the same. What is left to TLC is the
argument that the steps taken lead to the end, and not in a circle.

An invariant of the runs is hardly ever inductive as it stands; what each one
needed, and why, is the interesting part:

* `TpcChannelProofs`. `PermitsAccounted` is the invariant: an element for each level
  permit or thread that owes or owns one, a level permit for each global one, and a
  level-1 permit for each thread whose scan has passed level 0. The last is what makes the
  panic unreachable: a level-0 permit that appears behind a scanner's back cannot be
  exchanged for the one it is about to take. The sums are over
  cardinalities of sets of threads, so most lemmas say how such a set changes when
  one thread moves. `PermitsNeverLost`, that at rest every element has a global permit, follows from the
  accounting and is no property of a run. `DeliveredOnce` is about the messages themselves: each is unsent, at one place of one
  queue, or received (an invariant), and no step takes it out of a queue but the one that returns it (an action property).
* `TpcPoolProofs`. `CountExact` with the types and the fact that promised threads are in exactly
  one spawner's list; `WorkHasWorker` needs that a count of at least one leaves
  a thread after an exit, which is where exactness is used. `WorkCarried` has two halves. `WantedCarried`, for calls: a job that
  is wanted is announced, queued or taken, and a worker that takes another message of it, or fails on its lock, leaves that true.
  `ClosuresConserved`, for closures, needs `SpawnedFirst`, that no unspawned closure is done; the positions of a closure in
  the two queues are followed through every send and receive. `PoolNeverStuck` combines them:
  what is wanted is somewhere, there is a thread since `NothingYet` says that nothing is wanted before the first spawn, and
  `WokenOnly` says that what is at the head of level 0 can be taken. It says nothing of a parked future, which nobody has woken.
* `TpcTaskProofs`. `PollsExclusive` and `NoLostWake` need `LockInv`, which ties `locked` to the
  unique worker inside, or to an aborted future. `RefInv` needs both and `Unspawned`: without it a future that was never
  spawned could be counted. The number of messages of a future in a queue is the cardinality of a set of
  positions, so that `CopiesAppend` and `CopiesTail` say what a send and a receive do
  to it. The refinement of `TaskContract` then goes action by action: only a worker that gets the
  lock moves the contract's clock, `Take` and `Retry` exchange a message for a worker and cancel out, and `RefInv` is what
  excludes a poll of a future that is not there. `NoUseAfterFree` is an action property and follows from `RefInv` on both sides
  of a step: a count of zero means that there is no message, no worker and no clone that could act on the future.
* `VecBuildProofs`. `PlansPartition`, for every length and number of jobs: `Planned` says that the plans
  collected so far are `Plan(len, target, i)` and that the target lies between one and the length once planning has begun;
  the lemmas `OffsetStep`, `OffsetEnds` and `ShareNotEmpty` are the arithmetic of a division with remainder.
  The set is proved over `TpcSet`'s own `Next`, and `VecIsSet` says that every step of the builder is one of those or
  a stutter. `HostIsWoken` needs `Asked`: from the registration on, the host has a waker in place or has been woken.
  `ScopedResultsVisible` needs `Carried`: a Release count-down leaves its child's writes with the counter. `BuiltWhole` needs
  `Filled`, how far each job has come, and `Written`, that a slot is written exactly when some job has come past it; that jobs do not
  write the same slot is `PlansPartition` again, and that all have been written at the end is `CountExact`.
  `BuilderUsesSet` states the composition: a behaviour of the builder is one of `TpcSet`. `HostSleepsOnAChild` needs `AllSpawned` and,
  for children that are polled again and wrap the counter, `RepollsFail`: such a child is under way until its assertion fails.
* `BlockPartyProofs`. `Control` says that `thread_launched` covers the worker and the one launch that is due, `Placed` that a task is
  in one place at most (channel, worker, letter, mailbox), `Told` that the sender of a task a waiting worker has not seen
  is about to signal, and `Noticed` that a mailbox holds the waker of the host that polled last until it is used.
  `RightMail` rests on `Placed`, `WaitIsTold` on `Told` and `MailNoticed` on `Noticed`. For `OnlyShutdownStrands`
  two more: `Located`, that the task of an unresolved future is in one of those places (at least one, where `Placed` says at most), and
  `Manned`, that `thread_launched` stands for a worker or a launch that is due.
* `SyncExecutorProofs`. `Slots` makes handles and positions the same, vacated once and never reused; `AllWatched` says that a side that the join
  has not seen ready holds the executor's waker or will be looked at, which is why a firing cannot fall between the poll of a side and
  the end of `poll`. All its theorems have the hypothesis `HandlesSuffice`: fewer tasks than u16 handles. It is satisfied
  by every program that spawns fewer than 65536 tasks on an executor; beyond it the properties are false, as described above.
  `DrainBlocksForLeaves` adds `OpenInv`: a task in the vector has a side its join has not seen ready, and a drain goes on only while there are tasks.
* `OverlappedProofs`. `QueueInv` (a closure is queued once, and before its child exists) makes the accounting of closures and
  permits go through, `WakerInv` is `ResultNoticed` with what keeps it, and `BufferInv` relates what was taken from the pipe to the buffer, which
  is what makes an Ok complete; the refinement of `ReadContract` follows from them.
  `OnlyLostSignalsStall` adds `Placed`: a closure that was sent and has not run is in the channel. With all signals there, the accounting
  turns it into a permit, a worker about to receive or a sender about to signal.
* `HostedIoProofs`. `SparseIsWoken` is inductive with the shape of a future's steps; `Collected` and `Sized` say how much a future has collected at
  each step of each kind of read. `ReadsKeepContract` has the hypothesis `MaxPieces < Width`: files
  below 2^32 bytes. Above it the capacity is cut and the theorem is false.

Assumptions are the named ones of the modules: finite sets of threads, workers, children and operations, positive capacities,
at least as many thread identities as cores and at least one core, at least one thread identity for a pool of block_party, fewer children than the counter can count, `Idle`, `None`, `Gone` and
`NoFuture` are no jobs, futures or hosts, lengths and bounds are natural numbers. The bounds of the environment (`MaxWork`,
`MaxClones`, ...) are constants like the others: the theorems hold whatever they are.

*Only model-checked*: the liveness properties, since liveness under fairness is out of the prover's reach: `Delivery`,
`EveryJobRuns`, `SpinsDown`, `WakeAnswered`, `Reclaimed`, `VecResolves`, `Answered`, `DrainReturns`, `FailsFast`, `Resolves` and `Returns`.
The four violations are TLC's as well.

## Not modelled

* Memory orderings outside `TpcSet`: all other modelled operations are on single atomic objects or guarded by a
  lock, and pass no data beside them.
* The values and destructors of a set's children and of a vector's slots.
* What follows a panic of a worker: threads start in `extern` functions (`spawn/src/platform/macos.rs:78`, `windows.rs:7`), where unwinding
  ends the process in current builds. `TpcTask` and `TpcSet` let the other threads go on; in `TpcPool` no job panics, not even
  a future that is polled after Ready.
* `Close().unwrap()` when a Windows seek `Read` is dropped (`seek/src/windows/mod.rs:108-112`): the future has its answer by then.
* Priorities other than UserWaiting (they reach `todo!()`), logging stories.
* `Map` and `todo_future` (no state that another actor could meet), the second poll of a completed join, `async_clone`
  and `fix_path` of seek.
* The platform layer and the `spawn` crate: single OS calls, whose effects are actions of the modules.

## What would come next

* The converse of the two hypotheses: with as many tasks as handles, or pieces as the width, exactly which invariants fail.
* Starvation of level 1 by level 0: `TpcPool` bounds the wakes of a future (`MaxWakes`) and leaves the choice of level open.
* The liveness properties as theorems, once a prover for fairness is at hand: the seven theorems above are the enabledness
  half, measures on the steps that remain are the other.
