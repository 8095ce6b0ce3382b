----------------------------- MODULE Overlapped -----------------------------
(***************************************************************************)
(* Windows overlapped I/O (stream/src/windows): the futures a host polls   *)
(* (Parent), the one worker thread that starts every operation and runs    *)
(* its completion routine (threadpool.rs), and what they share: a bounded  *)
(* channel of closures with a semaphore beside it, and for each operation  *)
(* a result and a waker under a lock (overlapped.rs).                      *)
(*                                                                         *)
(* A critical section of that lock is one step.  The worker runs           *)
(* completion routines only while it waits for the semaphore.  A read is   *)
(* of a pipe whose peer writes pieces and closes its end; a piece is what  *)
(* one ReadFileEx transfers.                                               *)
(*                                                                         *)
(* External: the device, which completes what was started in any order,    *)
(* the peers, and the hosts, which poll when they like, may migrate, and   *)
(* do not poll a future that has returned Ready.                           *)
(***************************************************************************)
EXTENDS Naturals, Sequences, FiniteSets

CONSTANTS
    Readers, Writers,   \* the operations
    ChanCap,            \* sync_channel(5)
    SemMax,             \* CreateSemaphoreA(None, 0, 2, ..)
    MaxPieces           \* bound: what a peer writes

Ops == Readers \cup Writers

ASSUME OverlappedAssumption ==
    /\ IsFiniteSet(Ops) /\ Readers \cap Writers = {}
    /\ ChanCap \in Nat \ {0} /\ SemMax \in Nat \ {0} /\ MaxPieces \in Nat

VARIABLES
    parent,         \* unpolled, sending and signalling (the two steps of its
                    \* first poll), pending, resolved, dropped
    woken,          \* the task that polled last has been woken since
    queue,          \* closures in the channel
    permits,        \* of the semaphore
    unsignalled,    \* history: calls of ReleaseSemaphore that failed
    worker,         \* waiting, taking
    io,             \* none, outstanding, and what a completion routine is
                    \* queued with: piece, eof, written, failed
    child,          \* the Child on the heap: none, boxed, freed
    buffer,         \* pieces in a ReadChild's buffer
    result, waker,  \* Shared: pending, ok, eof or failed, gone; the waker, of
                    \* the task that polled last (current) or not (stale)
    sent, open,     \* the peer of each read
    taken,          \* pieces a read has taken from the pipe
    answer, got     \* what the awaited function returned

hostVars   == <<parent, woken>>
poolVars   == <<queue, permits, unsignalled, worker>>
ioVars     == <<io, child, buffer>>
sharedVars == <<result, waker>>
peerVars   == <<sent, open, taken>>
answerVars == <<answer, got>>
vars == <<hostVars, poolVars, ioVars, sharedVars, peerVars, answerVars>>

ByOp(x) == [o \in Ops |-> x]

Init ==
    /\ parent = ByOp("unpolled") /\ woken = ByOp(FALSE)
    /\ queue = <<>> /\ permits = 0 /\ unsignalled = 0 /\ worker = "waiting"
    /\ io = ByOp("none") /\ child = ByOp("none") /\ buffer = ByOp(0)
    /\ result = ByOp("pending") /\ waker = ByOp("stale")
    /\ sent = ByOp(0) /\ open = ByOp(TRUE) /\ taken = ByOp(0)
    /\ answer = ByOp("none") /\ got = ByOp(0)

Moves(o, from, to) == parent[o] = from /\ parent' = [parent EXCEPT ![o] = to]

-----------------------------------------------------------------------------
\* The host.

\* The first poll keeps the waker in Shared and moves the payload into a
\* closure; add_task sends it, which may block, and then signals.
FirstPoll(o) ==
    /\ Moves(o, "unpolled", "sending")
    /\ waker' = [waker EXCEPT ![o] = "current"]
    /\ UNCHANGED <<woken, poolVars, ioVars, result, peerVars, answerVars>>

Send(o) ==
    /\ Moves(o, "sending", "signalling")
    /\ Len(queue) < ChanCap
    /\ queue' = Append(queue, o)
    /\ UNCHANGED <<woken, permits, unsignalled, worker, ioVars, sharedVars,
                   peerVars, answerVars>>

\* Nothing looks at what ReleaseSemaphore returns.
Signal(o) ==
    /\ Moves(o, "signalling", "pending")
    /\ IF permits < SemMax
         THEN permits' = permits + 1 /\ UNCHANGED unsignalled
         ELSE unsignalled' = unsignalled + 1 /\ UNCHANGED permits
    /\ UNCHANGED <<woken, queue, worker, ioVars, sharedVars, peerVars, answerVars>>

\* A poll that finds no result and keeps the waker that is there, though the
\* future may have moved to another task.
Poll_KeepsWaker(o) ==
    /\ parent[o] = "pending" /\ result[o] = "pending"
    /\ \E w \in {"current", "stale"} : waker' = [waker EXCEPT ![o] = w]
    /\ woken' = [woken EXCEPT ![o] = FALSE]
    /\ UNCHANGED <<parent, poolVars, ioVars, result, peerVars, answerVars>>

Poll(o) ==
    /\ parent[o] = "pending" /\ result[o] = "pending"
    /\ waker' = [waker EXCEPT ![o] = "current"]
    /\ woken' = [woken EXCEPT ![o] = FALSE]
    /\ UNCHANGED <<parent, poolVars, ioVars, result, peerVars, answerVars>>

\* The poll that takes the result.  Read::all makes a broken pipe a success and
\* leaves the buffer of any other error behind.
Resolve(o) ==
    /\ Moves(o, "pending", "resolved") /\ result[o] # "pending"
    /\ result' = [result EXCEPT ![o] = "gone"]
    /\ answer' = [answer EXCEPT ![o] = IF result[o] = "failed" THEN "error" ELSE "ok"]
    /\ got' = [got EXCEPT ![o] = IF result[o] = "eof" THEN buffer[o] ELSE 0]
    /\ woken' = [woken EXCEPT ![o] = FALSE]
    /\ UNCHANGED <<poolVars, ioVars, waker, peerVars>>

\* An operation that has begun goes on without its future.  (To drop one that
\* was never polled is never to poll it.)
DropFuture(o) ==
    /\ Moves(o, "pending", "dropped")
    /\ UNCHANGED <<woken, poolVars, ioVars, sharedVars, peerVars, answerVars>>

-----------------------------------------------------------------------------
\* The worker.  What a step makes of the operation o: another call that is
\* outstanding, or a result, after which the child is freed.

Ended(o) == ~open[o] /\ taken[o] = sent[o]

Issue(o) ==
    /\ io' = [io EXCEPT ![o] = "outstanding"]
    /\ child' = [child EXCEPT ![o] = "boxed"]
    /\ UNCHANGED <<sharedVars, woken>>

\* A result that is stored without a wake.
Ready_Silent(o, r) ==
    /\ io' = [io EXCEPT ![o] = "none"] /\ child' = [child EXCEPT ![o] = "freed"]
    /\ result' = [result EXCEPT ![o] = r] /\ UNCHANGED <<waker, woken>>

\* Child::ready under the lock: the result, and a wake for who polled last.
Ready(o, r) ==
    /\ io' = [io EXCEPT ![o] = "none"] /\ child' = [child EXCEPT ![o] = "freed"]
    /\ result' = [result EXCEPT ![o] = r]
    /\ woken' = [woken EXCEPT ![o] = @ \/ waker[o] = "current"]
    /\ UNCHANGED waker

\* ReadFileEx and WriteFileEx may fail at once, ReadFileEx with the broken pipe.
Begin(o) ==
    \/ Issue(o)
    \/ Ready(o, "failed")
    \/ o \in Readers /\ Ended(o) /\ Ready(o, "eof")

\* A worker that is woken without a permit of its own.
WaitForSemaphore_Keeps ==
    /\ worker = "waiting" /\ permits > 0
    /\ worker' = "taking" /\ UNCHANGED permits
    /\ UNCHANGED <<hostVars, queue, unsignalled, ioVars, sharedVars, peerVars, answerVars>>

WaitForSemaphore ==
    /\ worker = "waiting" /\ permits > 0
    /\ worker' = "taking" /\ permits' = permits - 1
    /\ UNCHANGED <<hostVars, queue, unsignalled, ioVars, sharedVars, peerVars, answerVars>>

\* recv, and the closure it returns.
RunClosure ==
    /\ worker = "taking" /\ queue # <<>>
    /\ worker' = "waiting" /\ queue' = Tail(queue)
    /\ Begin(Head(queue))
    /\ UNCHANGED <<parent, permits, unsignalled, buffer, peerVars, answerVars>>

\* A resumed read that starts the next call where the last one wrote.
ResumePiece_SameLength(o) ==
    /\ io[o] = "piece" /\ Begin(o) /\ UNCHANGED buffer

\* resume_op of a read: the piece counts, and the next call is made.
ResumePiece(o) ==
    /\ io[o] = "piece"
    /\ buffer' = [buffer EXCEPT ![o] = @ + 1]
    /\ Begin(o)

\* resume_op of a read or a write that is over, with an error or without.
ResumeLast(o) ==
    /\ \/ io[o] \in {"eof", "failed"} /\ Ready(o, io[o])
       \/ io[o] = "written" /\ Ready(o, "ok")
    /\ UNCHANGED buffer

\* A completion routine: it owns the child while it runs.
Completion(o) ==
    /\ worker = "waiting" /\ (ResumePiece(o) \/ ResumeLast(o))
    /\ UNCHANGED <<parent, poolVars, peerVars, answerVars>>

-----------------------------------------------------------------------------
\* The device and the peers.

DeviceDoes(o, what) ==
    /\ io[o] = "outstanding" /\ io' = [io EXCEPT ![o] = what]
    /\ taken' = [taken EXCEPT ![o] = IF what = "piece" THEN @ + 1 ELSE @]
    /\ UNCHANGED <<hostVars, poolVars, child, buffer, sharedVars, sent, open, answerVars>>

Device(o) ==
    \/ o \in Readers /\ taken[o] < sent[o] /\ DeviceDoes(o, "piece")
    \/ o \in Readers /\ Ended(o) /\ DeviceDoes(o, "eof")
    \/ o \in Writers /\ DeviceDoes(o, "written")

DeviceFails(o) == DeviceDoes(o, "failed")

PeerSends(o) ==
    /\ o \in Readers /\ open[o] /\ sent[o] < MaxPieces
    /\ sent' = [sent EXCEPT ![o] = @ + 1]
    /\ UNCHANGED <<hostVars, poolVars, ioVars, sharedVars, open, taken, answerVars>>

PeerCloses(o) ==
    /\ o \in Readers /\ open[o] /\ open' = [open EXCEPT ![o] = FALSE]
    /\ UNCHANGED <<hostVars, poolVars, ioVars, sharedVars, sent, taken, answerVars>>

-----------------------------------------------------------------------------
WorkerStep == WaitForSemaphore \/ RunClosure \/ (\E o \in Ops : Completion(o))
Answer(o) == woken[o] /\ (Poll(o) \/ Resolve(o))

Next ==
    \/ WorkerStep
    \/ \E o \in Ops :
        \/ FirstPoll(o) \/ Send(o) \/ Signal(o) \/ Poll(o) \/ Resolve(o) \/ DropFuture(o)
        \/ Device(o) \/ DeviceFails(o) \/ PeerSends(o) \/ PeerCloses(o)

\* A first poll goes on, a host that was woken polls, the worker runs, what was
\* started completes and peers close; nobody has to poll, to drop or to fail.
Spec ==
    /\ Init /\ [][Next]_vars
    /\ WF_vars(WaitForSemaphore \/ RunClosure)
    /\ \A o \in Ops :
        /\ WF_vars(Send(o)) /\ WF_vars(Signal(o)) /\ WF_vars(Answer(o))
        /\ WF_vars(Completion(o)) /\ WF_vars(Device(o)) /\ WF_vars(PeerCloses(o))

-----------------------------------------------------------------------------
TypeOK ==
    /\ parent \in [Ops -> {"unpolled", "sending", "signalling", "pending", "resolved", "dropped"}]
    /\ woken \in [Ops -> BOOLEAN] /\ waker \in [Ops -> {"current", "stale"}]
    /\ queue \in Seq(Ops) /\ Len(queue) <= ChanCap
    /\ permits \in 0..SemMax /\ unsignalled \in Nat /\ worker \in {"waiting", "taking"}
    /\ io \in [Ops -> {"none", "outstanding", "piece", "eof", "written", "failed"}]
    /\ child \in [Ops -> {"none", "boxed", "freed"}] /\ buffer \in [Ops -> Nat]
    /\ result \in [Ops -> {"pending", "ok", "eof", "failed", "gone"}]
    /\ sent \in [Ops -> Nat] /\ open \in [Ops -> BOOLEAN] /\ taken \in [Ops -> Nat]
    /\ answer \in [Ops -> {"none", "ok", "error"}] /\ got \in [Ops -> Nat]

\* Every closure in the channel has a permit, a worker that took one, a sender
\* about to signal, or a signal that failed: recv (threadpool.rs:56) never
\* blocks, which would keep the worker from its completion routines.
SignalsAccounted ==
    Len(queue) = permits + unsignalled + (IF worker = "taking" THEN 1 ELSE 0)
                 + Cardinality({o \in Ops : parent[o] = "signalling"})

\* The child is there as long as the system may write into it, and is freed
\* with its result ("it must survive even if the future is dropped",
\* overlapped.rs:119).
ChildOutlivesIo ==
    \A o \in Ops : (child[o] = "boxed" <=> io[o] # "none")
                   /\ (child[o] = "freed" <=> result[o] # "pending")

OpInv == TypeOK /\ SignalsAccounted /\ ChildOutlivesIo

\* A host whose operation is over knows: a result beside a pending future has
\* woken the task that polled it last.
ResultNoticed ==
    \A o \in Ops : parent[o] = "pending" /\ result[o] \notin {"pending", "gone"} => woken[o]

OfReaders(f) == [o \in Readers |-> f[o]]
Contract == INSTANCE ReadContract WITH
    sent <- OfReaders(sent), open <- OfReaders(open),
    answer <- OfReaders(answer), got <- OfReaders(got)
KeepsReadContract == Contract!Spec

\* An operation that was polled is answered, unless its future is dropped or
\* the semaphore has lost a signal.
Resolves ==
    \A o \in Ops : parent[o] = "sending"
        ~> (parent[o] \in {"resolved", "dropped"} \/ unsignalled > 0)

\* "At some point, your function is executed" (threadpool.rs:100).
FunctionExecuted ==
    \A o \in Ops : parent[o] = "signalling" ~> child[o] # "none"
=============================================================================
