------------------------------ MODULE TpcTask ------------------------------
(***************************************************************************)
(* How tpc's workers share a future (tpc/src/bin.rs:76-160, 215-236): the  *)
(* try-lock of OurFuture, the waker whose clones are Arc counts, and the   *)
(* Work messages wakes turn into.  Several messages of one future may be   *)
(* queued or taken at once: a wake never looks whether one is.             *)
(*                                                                         *)
(* The rest of the program appears as what it does with a waker: clone it  *)
(* during a poll, then wake, wake by reference or drop the clone, from any *)
(* thread and at any time, also after the future has completed.            *)
(***************************************************************************)
EXTENDS Integers, Sequences, FiniteSets

CONSTANTS
    Workers,    \* worker threads (TpcPool models how they come and go)
    Futures,    \* OurFuture objects
    NoFuture,   \* what a worker holds between two tasks
    MaxWork,    \* bound: no wake while MaxWork messages of the future are queued
    MaxClones   \* bound: waker clones of a future at any time

ASSUME TaskAssumption ==
    NoFuture \notin Futures /\ IsFiniteSet(Workers) /\ MaxClones \in Nat

VARIABLES
    locked,     \* OurFuture.locked
    strong,     \* the Arc's strong count, 0 before the spawn and after the free
    phase,      \* absent, pending, ready (poll has returned Ready), aborted
    clones,     \* waker clones the rest of the program holds
    queue,      \* Work messages on the channel's two levels
    pc, held,   \* each worker's place in the loop, and the Arc in its waker
    woken       \* history: futures woken since their last poll began

vars == <<locked, strong, phase, clones, queue, pc, held, woken>>

Init ==
    /\ locked = [f \in Futures |-> FALSE]
    /\ strong = [f \in Futures |-> 0]
    /\ phase = [f \in Futures |-> "absent"]
    /\ clones = [f \in Futures |-> 0]
    /\ queue = [l \in 0..1 |-> <<>>]
    /\ pc = [w \in Workers |-> "idle"]
    /\ held = [w \in Workers |-> NoFuture]
    /\ woken = {}

Carries(l, f) == \E i \in DOMAIN queue[l] : queue[l][i] = f
Copies(f, s)  == Cardinality({i \in DOMAIN s : s[i] = f})
Messages(f)   == Copies(f, queue[0]) + Copies(f, queue[1])
Send(f, l)    == queue' = [queue EXCEPT ![l] = Append(@, f)]
Go(w, to)     == pc' = [pc EXCEPT ![w] = to]
Count(f, n)   == strong' = [strong EXCEPT ![f] = @ + n]

\* Bin::spawn_mixed and spawn_without_hint: Arc::new, one message at level 1.
Spawn(f) ==
    /\ phase[f] = "absent"
    /\ phase' = [phase EXCEPT ![f] = "pending"]
    /\ Count(f, 1) /\ Send(f, 1)
    /\ woken' = woken \cup {f}
    /\ UNCHANGED <<locked, clones, pc, held>>

-----------------------------------------------------------------------------
\* The waker's vtable.

\* clone: from the context of a running poll.
Clone(w) ==
    /\ pc[w] = "polling" /\ phase[held[w]] = "pending"
    /\ clones[held[w]] < MaxClones
    /\ clones' = [clones EXCEPT ![held[w]] = @ + 1]
    /\ Count(held[w], 1)
    /\ UNCHANGED <<locked, phase, queue, pc, held, woken>>

\* wake: the clone's count becomes the message's.
Wake(f) ==
    /\ clones[f] > 0 /\ Messages(f) < MaxWork
    /\ clones' = [clones EXCEPT ![f] = @ - 1]
    /\ Send(f, 0)
    /\ woken' = woken \cup {f}
    /\ UNCHANGED <<locked, strong, phase, pc, held>>

\* A wake_by_ref that forgets to count the message it sends.
WakeByRef_Uncounted(f) ==
    /\ \/ clones[f] > 0
       \/ \E w \in Workers : pc[w] = "polling" /\ held[w] = f /\ phase[f] = "pending"
    /\ Messages(f) < MaxWork
    /\ Send(f, 0)
    /\ woken' = woken \cup {f}
    /\ UNCHANGED <<locked, strong, phase, clones, pc, held>>

\* wake_by_ref: on a clone, or by the future itself during its poll.
WakeByRef(f) ==
    /\ \/ clones[f] > 0
       \/ \E w \in Workers : pc[w] = "polling" /\ held[w] = f /\ phase[f] = "pending"
    /\ Messages(f) < MaxWork
    /\ Count(f, 1) /\ Send(f, 0)
    /\ woken' = woken \cup {f}
    /\ UNCHANGED <<locked, phase, clones, pc, held>>

DropClone(f) ==
    /\ clones[f] > 0
    /\ clones' = [clones EXCEPT ![f] = @ - 1]
    /\ Count(f, -1)
    /\ UNCHANGED <<locked, phase, queue, pc, held, woken>>

-----------------------------------------------------------------------------
\* The Work arm of the worker loop.

\* recv_immediate and recv_all prefer level 0; a scan that has passed it takes
\* level 1 whatever was sent since.
Take(w, l) ==
    /\ pc[w] = "idle" /\ queue[l] # <<>>
    /\ held' = [held EXCEPT ![w] = Head(queue[l])]
    /\ queue' = [queue EXCEPT ![l] = Tail(@)]
    /\ Go(w, "try")
    /\ UNCHANGED <<locked, strong, phase, clones, woken>>

\* A poll that does not look at the lock.
TryLock_Blind(w) ==
    /\ pc[w] = "try"
    /\ locked' = [locked EXCEPT ![held[w]] = TRUE]
    /\ woken' = woken \ {held[w]}
    /\ Go(w, "polling")
    /\ UNCHANGED <<strong, phase, clones, queue, held>>

\* OurFuture::poll: compare_exchange, then the critical section or a retry.
TryLock(w) ==
    /\ pc[w] = "try"
    /\ IF locked[held[w]]
         THEN Go(w, "retry") /\ UNCHANGED <<locked, woken>>
         ELSE /\ locked' = [locked EXCEPT ![held[w]] = TRUE]
              /\ woken' = woken \ {held[w]}
              /\ Go(w, "polling")
    /\ UNCHANGED <<strong, phase, clones, queue, held>>

\* The Err arm without its wake_by_ref.
Retry_Forgets(w) ==
    /\ pc[w] = "retry"
    /\ Go(w, "drop")
    /\ UNCHANGED <<locked, strong, phase, clones, queue, held, woken>>

\* The Err arm: wake_by_ref on the worker's own waker.
Retry(w) ==
    /\ pc[w] = "retry"
    /\ Count(held[w], 1) /\ Send(held[w], 0)
    /\ Go(w, "drop")
    /\ UNCHANGED <<locked, phase, clones, held, woken>>

\* underlying.poll returns.
PollReturns(w) ==
    /\ pc[w] = "polling" /\ phase[held[w]] = "pending"
    /\ \/ UNCHANGED phase
       \/ phase' = [phase EXCEPT ![held[w]] = "ready"]
    /\ Go(w, "unlock")
    /\ UNCHANGED <<locked, strong, clones, queue, held, woken>>

\* underlying.poll of a completed future panics: the thread unwinds, drops its
\* waker and dies, and nothing ever stores FALSE in the lock.  (The unwinding
\* ends at the extern entry of the thread, in most builds with the process; the
\* model lets the others go on.)
PollPanics(w) ==
    /\ pc[w] = "polling" /\ phase[held[w]] = "ready"
    /\ phase' = [phase EXCEPT ![held[w]] = "aborted"]
    /\ Count(held[w], -1)
    /\ held' = [held EXCEPT ![w] = NoFuture]
    /\ Go(w, "dead")
    /\ UNCHANGED <<locked, clones, queue, woken>>

\* A poll that returns with the lock taken, as after an early return.
Unlock_Forgets(w) ==
    /\ pc[w] = "unlock"
    /\ Go(w, "drop")
    /\ UNCHANGED <<locked, strong, phase, clones, queue, held, woken>>

Unlock(w) ==
    /\ pc[w] = "unlock"
    /\ locked' = [locked EXCEPT ![held[w]] = FALSE]
    /\ Go(w, "drop")
    /\ UNCHANGED <<strong, phase, clones, queue, held, woken>>

\* A loop that leaks the waker it made.
DropWaker_Leaks(w) ==
    /\ pc[w] = "drop"
    /\ held' = [held EXCEPT ![w] = NoFuture]
    /\ Go(w, "idle")
    /\ UNCHANGED <<locked, strong, phase, clones, queue, woken>>

DropWaker(w) ==
    /\ pc[w] = "drop"
    /\ Count(held[w], -1)
    /\ held' = [held EXCEPT ![w] = NoFuture]
    /\ Go(w, "idle")
    /\ UNCHANGED <<locked, phase, clones, queue, woken>>

-----------------------------------------------------------------------------
WorkerStep(w) ==
    \/ \E l \in 0..1 : Take(w, l)
    \/ TryLock(w) \/ Retry(w) \/ PollReturns(w) \/ PollPanics(w)
    \/ Unlock(w) \/ DropWaker(w)

Next ==
    \/ \E f \in Futures : Spawn(f) \/ Wake(f) \/ WakeByRef(f) \/ DropClone(f)
    \/ \E w \in Workers : Clone(w) \/ WorkerStep(w)

\* Workers keep running and a poll returns; nobody has to wake anything.
Spec == Init /\ [][Next]_vars /\ \A w \in Workers : WF_vars(WorkerStep(w))

-----------------------------------------------------------------------------
TypeOK ==
    /\ locked \in [Futures -> BOOLEAN]
    /\ strong \in [Futures -> Nat]
    /\ phase \in [Futures -> {"absent", "pending", "ready", "aborted"}]
    /\ clones \in [Futures -> 0..MaxClones]
    /\ queue \in [0..1 -> Seq(Futures)]
    /\ pc \in [Workers -> {"idle", "try", "retry", "polling", "unlock", "drop", "dead"}]
    /\ held \in [Workers -> Futures \cup {NoFuture}]
    /\ \A w \in Workers : held[w] = NoFuture <=> pc[w] \in {"idle", "dead"}
    /\ woken \subseteq Futures

\* "ALL access to these fields must be checked for races!!!" (bin.rs:94): two
\* workers are never inside one future's critical section, and the lock is
\* free when nobody is, unless a poll has panicked in it.
PollsExclusive ==
    \A f \in Futures :
        LET inside == {w \in Workers : held[w] = f /\ pc[w] \in {"polling", "unlock"}}
        IN  /\ \A v, w \in inside : v = w
            /\ locked[f] <=> (inside # {} \/ phase[f] = "aborted")

\* The strong count of a future is exactly its owners: messages, wakers made
\* by workers, and clones.  A count too low is a use after free, one too high
\* a future that is never freed.
RefExact ==
    \A f \in Futures :
        strong[f] = Messages(f) + clones[f] + Cardinality({w \in Workers : held[w] = f})

RefInv == TypeOK /\ RefExact

\* A wake that no poll has answered is still carried by a message or by a
\* worker that is about to try or to retry.
NoLostWake ==
    \A f \in woken :
        \/ \E l \in 0..1 : Carries(l, f)
        \/ \E w \in Workers : held[w] = f /\ pc[w] \in {"try", "retry"}

Freed(f) == phase[f] # "absent" /\ strong[f] = 0

\* A future that has been freed is never touched again: no lock is taken or
\* released in it, no count raised from zero, and no message or waker made
\* of it, whatever late wake or drop is still on its way.
NoUseAfterFree ==
    [][\A f \in Futures : Freed(f) =>
          /\ strong'[f] = 0 /\ locked'[f] = locked[f]
          /\ phase'[f] = phase[f] /\ clones'[f] = clones[f]
          /\ \A l \in 0..1 : ~Carries(l, f)'
          /\ \A w \in Workers : held'[w] # f]_vars

AllDead == \A w \in Workers : pc[w] = "dead"

\* Every wake is answered by a poll, whoever polls when it comes, unless the
\* lock was left taken by a panic or every worker has died of one.  A spawn is
\* not promised as much: level 1 waits while level 0 is busy.
WakeAnswered ==
    \A f \in Futures :
        Carries(0, f) ~> (f \notin woken \/ phase[f] = "aborted" \/ AllDead)

\* A completed future nobody holds a clone of is freed: the messages and the
\* retries still under way run dry.
Reclaimed ==
    \A f \in Futures :
        (phase[f] = "ready" /\ clones[f] = 0)
            ~> (strong[f] = 0 \/ phase[f] = "aborted" \/ AllDead)

\* A future is polled as TaskContract says: its wakes are the messages and the
\* workers that have not got the lock yet.  One woken too often or too late is
\* polled after its completion, and aborts.
Polled(f) == \E w \in Workers : held[w] = f /\ pc[w] = "polling"

PhaseOf(f) ==
    CASE phase[f] = "pending" -> IF Polled(f) THEN "running" ELSE "waiting"
      [] phase[f] = "ready"   -> IF Polled(f) THEN "aborted" ELSE "done"
      [] OTHER                -> phase[f]

Trying(f)  == {w \in Workers : held[w] = f /\ pc[w] \in {"try", "retry"}}
WakesOf(f) == Messages(f) + Cardinality(Trying(f))

AbstractPhase == [f \in Futures |-> PhaseOf(f)]
AbstractWakes == [f \in Futures |-> WakesOf(f)]

Contract == INSTANCE TaskContract
    WITH Tasks <- Futures, Repolls <- TRUE, phase <- AbstractPhase, wakes <- AbstractWakes
KeepsContract == Contract!Spec

\* "Polled after done" (set.rs:74): a future that has returned Ready is not
\* polled again.
NoPollAfterReady ==
    \A w \in Workers : pc[w] = "polling" => phase[held[w]] = "pending"
=============================================================================
