------------------------------ MODULE HostedIo ------------------------------
(***************************************************************************)
(* I/O the system completes, awaited by a thread that polls for itself.    *)
(* The hosts: sync::block and test_await poll without pause and give their *)
(* futures a waker that does nothing; sparse_await polls when its waker    *)
(* has been used; test_poll and poll_inline poll once.  The futures:       *)
(*   stream_read, stream_write   stream/src/macos                          *)
(*   seek_all, seek_read         seek/src/macos.rs                         *)
(*   win_all, win_read           seek/src/windows/mod.rs (win_read is new  *)
(*                               followed by read)                         *)
(* each a sequence of operations of the system that are awaited in turn,   *)
(* plain or inside PanicFuture (futures/src/lib.rs).                       *)
(*                                                                         *)
(* External: the system, which completes what was started, and the awaited *)
(* end of an operation (a continuation, a WinRT operation), whose poll     *)
(* takes the outcome or keeps the waker, in one step.  A file is complete  *)
(* before it is read; a stream is read while its peer writes.              *)
(***************************************************************************)
EXTENDS Naturals, Sequences

CONSTANTS
    Hosts,          \* among busy, sparse, once
    Futures,        \* among the six
    Width,          \* 2^32: capacities are cut to u32
    MaxPieces       \* bound: what the peer writes

ASSUME HostedAssumption ==
    /\ Hosts \subseteq {"busy", "sparse", "once"}
    /\ Futures \subseteq {"stream_read", "stream_write", "seek_all", "seek_read",
                          "win_all", "win_read"}
    /\ Width \in Nat \ {0} /\ MaxPieces \in Nat

VARIABLES
    host, fut, wrapped,     \* wrapped: in PanicFuture
    phase,          \* of the host: unborn (no future yet), fresh, polling,
                    \* waiting, and at the end returned, gave_up, timed_out, panicked
    wakes,          \* in the channel of sparse_await
    step,           \* position in Steps of the operation last started
    op,             \* that operation: started, piece or end (of a stream),
                    \* done, failed; none before the first
    registered,     \* the operation holds the host's waker
    capacity,       \* of the buffer a Windows read is given
    data,           \* pieces collected
    sent, open,     \* the peer, or the author of the file
    taken,          \* pieces the system has handed over
    answer, got     \* what the future returned

kindVars   == <<host, fut, wrapped>>
hostVars   == <<phase, wakes>>
opVars     == <<step, op, registered, capacity, data, taken>>
peerVars   == <<sent, open>>
answerVars == <<answer, got>>
vars == <<kindVars, hostVars, opVars, peerVars, answerVars>>

\* What each future awaits, in order.
Steps ==
    [stream_read |-> <<"read">>, stream_write |-> <<"write">>,
     seek_all |-> <<"read">>, seek_read |-> <<"read">>,
     win_all  |-> <<"file", "properties", "open", "read">>,
     win_read |-> <<"file", "open", "read">>]

\* Started by the call that makes the future, not by its first poll; write_boxed
\* leaves it to the poll, write_static does not.
Eager == {"stream_write", "seek_all", "seek_read", "win_all"}
Lazy  == {"stream_read", "stream_write", "win_read"}

Ended == {"returned", "gave_up", "timed_out", "panicked"}

Init ==
    /\ host \in Hosts /\ fut \in Futures /\ wrapped \in BOOLEAN
    /\ phase = "unborn" /\ wakes = 0
    /\ step = 0 /\ op = "none" /\ registered = FALSE
    /\ capacity = 0 /\ data = 0 /\ taken = 0
    /\ sent = 0 /\ open = TRUE
    /\ answer = "none" /\ got = 0

-----------------------------------------------------------------------------
\* The future.

\* The next operation, or the same once more for the next piece of a stream.
StartNext ==
    /\ step' = IF op = "piece" THEN step ELSE step + 1
    /\ op' = "started" /\ registered' = FALSE

MakeFuture ==
    /\ phase = "unborn" /\ phase' = "fresh"
    /\ fut \notin {"stream_read", "stream_write"} => ~open
    /\ \/ fut \in Eager /\ StartNext
       \/ fut \in Lazy /\ UNCHANGED <<step, op, registered>>
    /\ UNCHANGED <<kindVars, wakes, capacity, data, taken, peerVars, answerVars>>

\* What is unwrapped instead of awaited: opening the file, when the future is
\* made or in the first poll of win_read, and the Seek of its read.
Unwraps ==
    /\ \/ phase = "unborn" /\ fut \in {"seek_all", "win_all"} /\ ~open
       \/ phase = "polling" /\ fut = "win_read" /\ (op = "none" \/ (op = "done" /\ step = 2))
    /\ phase' = "panicked"
    /\ UNCHANGED <<kindVars, wakes, opVars, peerVars, answerVars>>

\* The host has its output, or an Err has become a panic.
Answers(a, n) ==
    /\ answer' = a /\ got' = n
    /\ phase' = IF a = "error" /\ wrapped THEN "panicked" ELSE "returned"

\* The first operation of a lazy future, in its first poll.
StartFirst ==
    /\ phase = "polling" /\ op = "none" /\ StartNext
    /\ UNCHANGED <<kindVars, hostVars, capacity, data, taken, peerVars, answerVars>>

\* Pending: the operation keeps the waker; the host waits, or has polled enough.
AwaitOp ==
    /\ phase = "polling" /\ op = "started"
    /\ registered' = TRUE
    /\ phase' = IF host = "once" THEN "gave_up" ELSE "waiting"
    /\ UNCHANGED <<kindVars, wakes, step, op, capacity, data, taken, peerVars, answerVars>>

\* A future that starts its next operation and leaves it to another poll.
TakeOutcome_Returns ==
    /\ phase = "polling" /\ phase' = "waiting"
    /\ op = "piece" \/ (op = "done" /\ step < Len(Steps[fut]))
    /\ data' = IF op = "piece" THEN data + 1 ELSE data
    /\ StartNext
    /\ UNCHANGED <<kindVars, wakes, capacity, taken, peerVars, answerVars>>

\* The outcome of an operation that is not the last: the next one is started
\* and polled at once.  A stream is read until a read comes back empty.
TakeOutcome ==
    /\ phase = "polling"
    /\ op = "piece" \/ (op = "done" /\ step < Len(Steps[fut]))
    /\ data' = IF op = "piece" THEN data + 1 ELSE data
    /\ StartNext
    /\ UNCHANGED <<kindVars, hostVars, capacity, taken, peerVars, answerVars>>

\* The next operation of a Windows future is refused when it is started, or its
\* stream fails to close.
StartRefused ==
    /\ phase = "polling" /\ fut \in {"win_all", "win_read"} /\ op = "done"
    /\ Answers("error", 0)
    /\ UNCHANGED <<kindVars, wakes, opVars, peerVars>>

Resolve ==
    /\ phase = "polling"
    /\ \/ op = "failed" /\ Answers("error", 0)
       \/ op = "end" /\ Answers("ok", data)
       \/ op = "done" /\ step >= Len(Steps[fut]) /\ Answers("ok", data)
    /\ UNCHANGED <<kindVars, wakes, opVars, peerVars>>

-----------------------------------------------------------------------------
\* The hosts.

\* A busy host polls again and again while there is time; the others poll once,
\* and sparse_await again for every wake it receives.
Poll ==
    /\ \/ phase = "fresh" /\ UNCHANGED wakes
       \/ phase = "waiting" /\ host = "busy" /\ UNCHANGED wakes
       \/ phase = "waiting" /\ host = "sparse" /\ wakes > 0 /\ wakes' = wakes - 1
    /\ phase' = "polling"
    /\ UNCHANGED <<kindVars, opVars, peerVars, answerVars>>

\* block returns an error, test_await and sparse_await panic; sparse_await
\* looks at the time after its first poll.
TimeOut ==
    /\ phase = "waiting" \/ (phase = "fresh" /\ host = "busy")
    /\ phase' = "timed_out"
    /\ UNCHANGED <<kindVars, wakes, opVars, peerVars, answerVars>>

-----------------------------------------------------------------------------
\* The system.  Its outcome comes with a wake for the waker it holds, which
\* only sparse_await's passes on; a future that is gone has taken its own back.

Completes(outcome) ==
    /\ op = "started" /\ op' = outcome
    /\ wakes' = IF registered /\ host = "sparse" /\ phase \notin Ended THEN wakes + 1 ELSE wakes
    /\ UNCHANGED <<kindVars, phase, step, registered, peerVars, answerVars>>

\* A file, its properties or a stream is there, or the bytes are written.  The
\* size, of the file or asked for, is cut to the capacity of the buffer.
Arrives ==
    LET at == Steps[fut][step] IN
    /\ op = "started" /\ at # "read" /\ Completes("done")
    /\ capacity' = IF at = "properties" \/ (at = "open" /\ fut = "win_read")
                     THEN sent % Width ELSE capacity
    /\ UNCHANGED <<data, taken>>

\* A read of a stream gives what is there, or nothing once the peer has closed.
StreamGives ==
    /\ fut = "stream_read" /\ UNCHANGED <<capacity, data>>
    /\ \/ taken < sent /\ taken' = taken + 1 /\ Completes("piece")
       \/ taken = sent /\ ~open /\ UNCHANGED taken /\ Completes("end")

\* A handler that forgets what it was given before.
HandlerGives_Replaces ==
    /\ fut = "seek_read" /\ op = "started" /\ taken < sent
    /\ taken' = taken + 1 /\ data' = 1
    /\ UNCHANGED <<kindVars, hostVars, step, op, registered, capacity, peerVars, answerVars>>

\* The handler of seek_read is called several times, and keeps its completer.
HandlerGives ==
    /\ fut = "seek_read" /\ op = "started" /\ taken < sent
    /\ taken' = taken + 1 /\ data' = data + 1
    /\ UNCHANGED <<kindVars, hostVars, step, op, registered, capacity, peerVars, answerVars>>

\* The last call of that handler, and the only one of the others.
FileGiven ==
    /\ fut \in {"seek_all", "seek_read", "win_all", "win_read"} /\ op = "started"
    /\ Steps[fut][step] = "read"
    /\ \/ fut = "seek_read" /\ taken = sent /\ UNCHANGED <<data, taken>>
       \/ fut = "seek_all" /\ taken' = sent /\ data' = sent
       \/ fut \in {"win_all", "win_read"} /\ taken' = capacity /\ data' = capacity
    /\ Completes("done") /\ UNCHANGED capacity

Fails == Completes("failed") /\ UNCHANGED <<capacity, data, taken>>

Peer ==
    /\ open
    /\ \/ sent < MaxPieces /\ sent' = sent + 1 /\ UNCHANGED open
       \/ open' = FALSE /\ UNCHANGED sent
    /\ UNCHANGED <<kindVars, hostVars, opVars, answerVars>>

-----------------------------------------------------------------------------
FutureStep == StartFirst \/ AwaitOp \/ TakeOutcome \/ StartRefused \/ Resolve
SystemStep == Arrives \/ StreamGives \/ HandlerGives \/ FileGiven

Next ==
    \/ MakeFuture \/ Unwraps \/ FutureStep \/ Poll \/ TimeOut
    \/ SystemStep \/ Fails \/ Peer

\* A thread that runs a host goes on, the system completes what was started and
\* the peer closes its end; the clock may stand still.
Spec ==
    /\ Init /\ [][Next]_vars
    /\ WF_vars(FutureStep) /\ WF_vars(Poll) /\ WF_vars(SystemStep) /\ WF_vars(Peer)

-----------------------------------------------------------------------------
TypeOK ==
    /\ phase \in {"unborn", "fresh", "polling", "waiting"} \cup Ended
    /\ wakes \in Nat /\ step \in Nat
    /\ op \in {"none", "started", "piece", "end", "done", "failed"}
    /\ registered \in BOOLEAN /\ capacity \in 0..(Width - 1) /\ data \in Nat
    /\ sent \in 0..MaxPieces /\ open \in BOOLEAN /\ taken \in 0..sent
    /\ answer \in {"none", "ok", "error"} /\ got \in Nat

\* Types, and sparse_await never waits in vain: "polls the future sparsely,
\* only when it is required by the API contract" (test.rs:82) is enough, as an
\* outcome beside a waiting host has sent a wake, and an operation that is
\* still going on has the waker.
SparseIsWoken ==
    /\ TypeOK
    /\ host = "sparse" /\ phase = "waiting" =>
        IF op = "started" THEN registered ELSE wakes > 0

\* A read is answered as ReadContract says, whatever the host: stream or file,
\* in one piece or several.
Contract == INSTANCE ReadContract WITH
    Readers <- {"it"},
    sent <- [r \in {"it"} |-> sent], open <- [r \in {"it"} |-> open],
    answer <- [r \in {"it"} |-> IF fut = "stream_write" THEN "none" ELSE answer],
    got <- [r \in {"it"} |-> got]
KeepsReadContract == Contract!Spec

\* A host that has polled comes to an end without the clock.
Returns == phase = "polling" ~> phase \in Ended
=============================================================================
