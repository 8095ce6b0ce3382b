--------------------------- MODULE HostedIoProofs ---------------------------
(***************************************************************************)
(* For every choice of hosts and futures and every length of stream or     *)
(* file: sparse_await is always woken, and a read below 2^32 pieces keeps  *)
(* the contract of ReadContract.                                           *)
(***************************************************************************)
EXTENDS HostedIo, TLAPS

Streams == {"stream_read", "stream_write"}
Wins    == {"win_all", "win_read"}

\* Where a future is in its sequence of operations.
Shape ==
    /\ host \in Hosts /\ fut \in Futures /\ wrapped \in BOOLEAN
    /\ op = "none" <=> step = 0
    /\ phase = "unborn" => step = 0
    /\ step <= Len(Steps[fut])
    /\ op \in {"piece", "end"} => fut = "stream_read"
    /\ op = "done" => fut # "stream_read"
    /\ phase # "unborn" /\ fut \notin Streams => ~open

\* The buffer of a Windows read, once its size is known.
Sized ==
    /\ capacity <= sent
    /\ fut \in Wins /\ (step > 2 \/ (step = 2 /\ op = "done")) => capacity = sent % Width

\* What has been collected of what was handed over.
Collected ==
    /\ fut = "stream_write" => data = 0
    /\ fut = "stream_read" => taken = IF op = "piece" THEN data + 1 ELSE data
    /\ op = "end" => ~open /\ taken = sent
    /\ fut = "seek_read" => data = taken /\ (op = "done" => taken = sent)
    /\ fut = "seek_all" /\ op = "done" => data = sent
    /\ fut \in Wins /\ op = "done" /\ step = Len(Steps[fut]) => data = sent % Width

\* One answer, and nothing in it before it is given.
AnswersOnce ==
    /\ answer # "none" => phase \in {"returned", "panicked"}
    /\ answer = "none" => got = 0

IInv == SparseIsWoken /\ Shape /\ Sized /\ Collected /\ AnswersOnce

-----------------------------------------------------------------------------
(* The remainder that a capacity is cut to. *)
LEMMA CutTo ==
    ASSUME NEW n \in Nat
    PROVE  /\ n % Width \in 0..(Width - 1) /\ n % Width <= n
           /\ n < Width => n % Width = n
BY HostedAssumption

(* The futures, and the operations they await. *)
LEMMA StepsFacts ==
    /\ \A f \in Futures : f \in {"stream_read", "stream_write", "seek_all", "seek_read",
                                 "win_all", "win_read"}
    /\ Len(Steps["stream_read"]) = 1 /\ Len(Steps["stream_write"]) = 1
    /\ Len(Steps["seek_all"]) = 1 /\ Len(Steps["seek_read"]) = 1
    /\ Len(Steps["win_all"]) = 4 /\ Len(Steps["win_read"]) = 3
    /\ Steps["stream_read"][1] = "read" /\ Steps["stream_write"][1] = "write"
    /\ Steps["seek_all"][1] = "read" /\ Steps["seek_read"][1] = "read"
    /\ Steps["win_all"][1] = "file" /\ Steps["win_all"][2] = "properties"
    /\ Steps["win_all"][3] = "open" /\ Steps["win_all"][4] = "read"
    /\ Steps["win_read"][1] = "file" /\ Steps["win_read"][2] = "open"
    /\ Steps["win_read"][3] = "read"
<1>1. \A f \in Futures : f \in {"stream_read", "stream_write", "seek_all", "seek_read",
                                 "win_all", "win_read"}
  BY HostedAssumption
<1>2. Steps["win_all"] = <<"file", "properties", "open", "read">>
      /\ Steps["win_read"] = <<"file", "open", "read">>
  BY DEF Steps
<1>3. /\ Steps["stream_read"] = <<"read">> /\ Steps["stream_write"] = <<"write">>
      /\ Steps["seek_all"] = <<"read">> /\ Steps["seek_read"] = <<"read">>
  BY DEF Steps
<1> HIDE DEF Steps
<1> QED
  BY <1>1, <1>2, <1>3

(* The last operation of each future. *)
LEMMA LastStep ==
    ASSUME fut \in Futures
    PROVE  /\ Len(Steps[fut]) \in Nat /\ Len(Steps[fut]) >= 1
           /\ fut \in Wins => Len(Steps[fut]) >= 3
           /\ fut \notin Wins => Len(Steps[fut]) = 1
BY StepsFacts DEF Wins

(* Nothing has been started, sent or answered. *)
LEMMA InitIInv == Init => IInv
<1> SUFFICES ASSUME Init PROVE IInv
  OBVIOUS
<1>1. TypeOK
  <2>1. registered \in BOOLEAN /\ open \in BOOLEAN
    BY DEF Init
  <2>2. 0 \in 0..(Width - 1) /\ 0 \in 0..MaxPieces
    BY HostedAssumption
  <2> QED
    BY <2>1, <2>2 DEF Init, TypeOK
<1>2. Shape /\ Sized /\ Collected
  BY LastStep DEF Init, Shape, Sized, Collected, Wins
<1> QED
  BY <1>1, <1>2 DEF Init, IInv, SparseIsWoken, AnswersOnce

-----------------------------------------------------------------------------
(* The future is made, and an eager one starts its first operation. *)
LEMMA MakeIInv == ASSUME IInv, MakeFuture PROVE IInv'
<1> USE DEF IInv
<1>0. /\ phase = "unborn" /\ phase' = "fresh" /\ step = 0 /\ op = "none"
      /\ UNCHANGED <<host, fut, wrapped, wakes, capacity, data, taken, sent, open, answer, got>>
      /\ fut \in Futures /\ (fut \notin Streams => ~open)
  BY DEF MakeFuture, Shape, Streams, kindVars, peerVars, answerVars
<1>1. \/ step' = 1 /\ op' = "started" /\ registered' = FALSE
      \/ UNCHANGED <<step, op, registered>>
  BY <1>0 DEF MakeFuture, StartNext
<1>2. step' \in Nat /\ op' \in {"none", "started"} /\ (op' = "none" <=> step' = 0)
      /\ step' <= 1
  BY <1>0, <1>1
<1>3. registered' \in BOOLEAN
  BY <1>1 DEF SparseIsWoken, TypeOK
<1>4. TypeOK'
  BY <1>0, <1>2, <1>3 DEF SparseIsWoken, TypeOK
<1>5. SparseIsWoken'
  BY <1>0, <1>4 DEF SparseIsWoken
<1>6. Shape'
  BY <1>0, <1>2, LastStep DEF Shape
<1>7. Sized' /\ Collected' /\ AnswersOnce'
  BY <1>0, <1>2, LastStep DEF Sized, Collected, AnswersOnce, Wins
<1> QED
  BY <1>5, <1>6, <1>7

(* A failure that is unwrapped ends the host without an answer. *)
LEMMA UnwrapsIInv == ASSUME IInv, Unwraps PROVE IInv'
<1> USE DEF IInv
<1>0. /\ phase \in {"unborn", "polling"} /\ phase' = "panicked"
      /\ phase = "unborn" => ~open
      /\ UNCHANGED <<host, fut, wrapped, wakes, step, op, registered, capacity, data, taken,
                     sent, open, answer, got>>
  BY DEF Unwraps, kindVars, opVars, peerVars, answerVars
<1>1. TypeOK'
  BY <1>0 DEF SparseIsWoken, TypeOK, Ended
<1>2. SparseIsWoken'
  BY <1>0, <1>1 DEF SparseIsWoken
<1>3. Shape'
  BY <1>0 DEF Shape
<1>4. Sized' /\ Collected' /\ AnswersOnce'
  BY <1>0 DEF Sized, Collected, AnswersOnce
<1> QED
  BY <1>2, <1>3, <1>4

(* A poll starts the first operation, or leaves the waker with the one that *)
(* goes on. *)
LEMMA PollingIInv == ASSUME IInv, StartFirst \/ AwaitOp PROVE IInv'
<1> USE DEF IInv
<1>1. CASE StartFirst
  <2>0. /\ phase = "polling" /\ op = "none" /\ step = 0
        /\ step' = 1 /\ op' = "started" /\ registered' = FALSE
        /\ UNCHANGED <<host, fut, wrapped, phase, wakes, capacity, data, taken, sent, open,
                       answer, got>>
        /\ fut \in Futures
    BY <1>1 DEF StartFirst, StartNext, Shape, kindVars, hostVars, peerVars, answerVars
  <2>1. registered' \in BOOLEAN
    BY <2>0
  <2>2. TypeOK'
    BY <2>0, <2>1 DEF SparseIsWoken, TypeOK
  <2>3. SparseIsWoken'
    BY <2>0, <2>2 DEF SparseIsWoken
  <2>4. Shape' /\ Sized' /\ Collected' /\ AnswersOnce'
    BY <2>0, LastStep DEF Shape, Sized, Collected, AnswersOnce, Wins
  <2> QED
    BY <2>3, <2>4
<1>2. CASE AwaitOp
  <2>0. /\ phase = "polling" /\ op = "started" /\ registered' = TRUE
        /\ phase' \in {"gave_up", "waiting"}
        /\ UNCHANGED <<host, fut, wrapped, wakes, step, op, capacity, data, taken, sent, open,
                       answer, got>>
    BY <1>2 DEF AwaitOp, kindVars, peerVars, answerVars
  <2>1. registered' \in BOOLEAN
    BY <2>0
  <2>2. TypeOK'
    BY <2>0, <2>1 DEF SparseIsWoken, TypeOK, Ended
  <2>3. SparseIsWoken'
    BY <2>0, <2>2 DEF SparseIsWoken
  <2>4. Shape' /\ Sized' /\ Collected' /\ AnswersOnce'
    BY <2>0 DEF Shape, Sized, Collected, AnswersOnce
  <2> QED
    BY <2>3, <2>4
<1> QED
  BY <1>1, <1>2

(* An outcome is taken and the next operation started. *)
LEMMA TakeIInv == ASSUME IInv, TakeOutcome PROVE IInv'
<1> USE DEF IInv
<1>0. /\ phase = "polling" /\ op \in {"piece", "done"}
      /\ UNCHANGED <<host, fut, wrapped, phase, wakes, capacity, taken, sent, open, answer, got>>
      /\ op' = "started" /\ registered' = FALSE /\ fut \in Futures
      /\ data' = IF op = "piece" THEN data + 1 ELSE data
      /\ step \in Nat /\ data \in Nat
  BY DEF TakeOutcome, StartNext, Shape, SparseIsWoken, TypeOK,
         kindVars, hostVars, peerVars, answerVars
<1>1. CASE op = "piece"
  <2>1. step' = step /\ data' = data + 1 /\ fut = "stream_read" /\ step # 0
    BY <1>0, <1>1 DEF TakeOutcome, StartNext, Shape
  <2>2. registered' \in BOOLEAN
    BY <1>0
  <2>3. TypeOK'
    BY <1>0, <2>1, <2>2 DEF SparseIsWoken, TypeOK
  <2>4. SparseIsWoken'
    BY <1>0, <2>3 DEF SparseIsWoken
  <2>5. Shape' /\ Sized' /\ AnswersOnce'
    BY <1>0, <1>1, <2>1 DEF Shape, Sized, AnswersOnce, Wins
  <2>6. Collected'
    BY <1>0, <1>1, <2>1 DEF Collected, Wins
  <2> QED
    BY <2>4, <2>5, <2>6
<1>2. CASE op = "done"
  <2>1. step' = step + 1 /\ data' = data /\ fut # "stream_read" /\ step # 0
        /\ step < Len(Steps[fut])
    BY <1>0, <1>2 DEF TakeOutcome, StartNext, Shape
  <2>2. registered' \in BOOLEAN
    BY <1>0
  <2>3. TypeOK'
    BY <1>0, <2>1, <2>2 DEF SparseIsWoken, TypeOK
  <2>4. SparseIsWoken'
    BY <1>0, <2>3 DEF SparseIsWoken
  <2>5. Shape' /\ AnswersOnce'
    BY <1>0, <1>2, <2>1, LastStep DEF Shape, AnswersOnce
  <2>6. Sized'
    BY <1>0, <1>2, <2>1 DEF Sized
  <2>7. Collected'
    BY <1>0, <1>2, <2>1 DEF Collected
  <2> QED
    BY <2>4, <2>5, <2>6, <2>7
<1> QED
  BY <1>0, <1>1, <1>2

(* The future answers, and takes part in nothing any more. *)
LEMMA AnswerIInv == ASSUME IInv, StartRefused \/ Resolve PROVE IInv'
<1> USE DEF IInv
<1>0. /\ phase = "polling" /\ phase' \in {"panicked", "returned"}
      /\ answer' \in {"error", "ok"} /\ got' \in {0, data}
      /\ UNCHANGED <<host, fut, wrapped, wakes, step, op, registered, capacity, data, taken,
                     sent, open>>
  BY DEF StartRefused, Resolve, Answers, kindVars, opVars, peerVars
<1>1. TypeOK'
  BY <1>0 DEF SparseIsWoken, TypeOK, Ended
<1>2. SparseIsWoken'
  BY <1>0, <1>1 DEF SparseIsWoken
<1>3. Shape' /\ Sized' /\ Collected' /\ AnswersOnce'
  BY <1>0 DEF Shape, Sized, Collected, AnswersOnce
<1> QED
  BY <1>2, <1>3

(* The host polls or gives up waiting: the operation does not see it. *)
LEMMA HostIInv == ASSUME IInv, Poll \/ TimeOut PROVE IInv'
<1> USE DEF IInv
<1>0. /\ phase \in {"fresh", "waiting"} /\ phase' \in {"polling", "timed_out"}
      /\ UNCHANGED <<host, fut, wrapped, step, op, registered, capacity, data, taken,
                     sent, open, answer, got>>
      /\ wakes' = wakes \/ (wakes > 0 /\ wakes' = wakes - 1)
  BY DEF Poll, TimeOut, kindVars, opVars, peerVars, answerVars
<1>1. wakes' \in Nat
  BY <1>0 DEF SparseIsWoken, TypeOK
<1>2. TypeOK'
  BY <1>0, <1>1 DEF SparseIsWoken, TypeOK, Ended
<1>3. SparseIsWoken'
  BY <1>0, <1>2 DEF SparseIsWoken
<1>4. Shape' /\ Sized' /\ Collected' /\ AnswersOnce'
  BY <1>0 DEF Shape, Sized, Collected, AnswersOnce
<1> QED
  BY <1>3, <1>4

-----------------------------------------------------------------------------
(* What every completion does: the outcome is there, and a sparse host that *)
(* waits for it has its wake. *)
LEMMA CompletesFacts ==
    ASSUME IInv, NEW outcome \in {"piece", "end", "done", "failed"}, Completes(outcome)
    PROVE  /\ op = "started" /\ op' = outcome /\ step # 0 /\ step \in Nat
           /\ phase # "unborn" /\ wakes' \in Nat
           /\ host = "sparse" /\ phase = "waiting" => wakes' > 0
           /\ UNCHANGED <<host, fut, wrapped, phase, step, registered, sent, open, answer, got>>
BY DEF IInv, SparseIsWoken, TypeOK, Shape, Completes, Ended, kindVars, peerVars, answerVars

(* What is left of the invariant when the pieces and the capacity are right. *)
LEMMA OutcomeIInv ==
    ASSUME IInv, NEW outcome \in {"piece", "end", "done", "failed"}, Completes(outcome),
           data' \in Nat, taken' \in 0..sent, capacity' \in 0..(Width - 1),
           outcome \in {"piece", "end"} => fut = "stream_read",
           outcome = "done" => fut # "stream_read",
           Sized', Collected'
    PROVE  IInv'
<1>0. /\ op = "started" /\ op' = outcome /\ step # 0 /\ step \in Nat
      /\ phase # "unborn" /\ wakes' \in Nat
      /\ host = "sparse" /\ phase = "waiting" => wakes' > 0
      /\ UNCHANGED <<host, fut, wrapped, phase, step, registered, sent, open, answer, got>>
  BY CompletesFacts
<1> USE DEF IInv
<1>1. TypeOK'
  BY <1>0 DEF SparseIsWoken, TypeOK
<1>2. SparseIsWoken'
  BY <1>0, <1>1 DEF SparseIsWoken
<1>3. Shape'
  BY <1>0 DEF Shape
<1>4. AnswersOnce'
  BY <1>0 DEF AnswersOnce
<1> QED
  BY <1>2, <1>3, <1>4

(* The size of a Windows file or buffer, and a stream that is there. *)
LEMMA ArrivesIInv == ASSUME IInv, Arrives PROVE IInv'
<1>0. Completes("done") /\ UNCHANGED <<data, taken>> /\ Steps[fut][step] # "read"
  BY DEF Arrives
<1>1. /\ op = "started" /\ op' = "done" /\ step # 0 /\ step \in Nat
      /\ UNCHANGED <<fut, step, sent, open>>
  BY <1>0, CompletesFacts
<1>2. /\ fut \in Futures /\ step <= Len(Steps[fut]) /\ sent \in Nat /\ taken \in 0..sent
      /\ data \in Nat /\ capacity \in 0..(Width - 1) /\ capacity <= sent
  BY HostedAssumption DEF IInv, Shape, Sized, SparseIsWoken, TypeOK
<1>3. fut \in {"stream_write", "win_all", "win_read"} /\ step < 4
      /\ (fut \in Wins => step < Len(Steps[fut]))
  BY <1>0, <1>1, <1>2, StepsFacts DEF Wins
<1>4. fut \in Wins /\ step = 2 => capacity' = sent % Width
  BY <1>1, <1>2, StepsFacts DEF Arrives, Wins
<1>5. capacity' = capacity \/ capacity' = sent % Width
  BY DEF Arrives
<1>6. capacity' \in 0..(Width - 1) /\ capacity' <= sent
  BY <1>2, <1>5, CutTo
<1>7. Sized'
  <2>1. ASSUME fut \in Wins, step > 2 PROVE capacity' = sent % Width
    <3>1. capacity = sent % Width
      BY <2>1 DEF IInv, Sized
    <3> QED
      BY <1>5, <3>1
  <2> QED
    BY <1>1, <1>4, <1>6, <2>1 DEF Sized
<1>8. Collected'
  BY <1>0, <1>1, <1>2, <1>3 DEF IInv, Collected, Wins
<1> QED
  BY <1>0, <1>2, <1>3, <1>6, <1>7, <1>8, OutcomeIInv

(* A piece of a stream, or its end. *)
LEMMA StreamIInv == ASSUME IInv, StreamGives PROVE IInv'
<1>0. fut = "stream_read" /\ UNCHANGED <<capacity, data>>
  BY DEF StreamGives
<1>1. /\ sent \in Nat /\ taken \in 0..sent
      /\ data \in Nat /\ capacity \in 0..(Width - 1) /\ capacity <= sent
  BY HostedAssumption DEF IInv, Sized, SparseIsWoken, TypeOK
<1>2. CASE taken < sent /\ taken' = taken + 1 /\ Completes("piece")
  <2>1. op = "started" /\ op' = "piece" /\ UNCHANGED <<fut, step, sent, open>>
    BY <1>2, CompletesFacts
  <2>2. Sized' /\ Collected'
    BY <1>0, <1>1, <1>2, <2>1 DEF IInv, Sized, Collected, Wins
  <2> QED
    BY <1>0, <1>1, <1>2, <2>2, OutcomeIInv
<1>3. CASE taken = sent /\ ~open /\ UNCHANGED taken /\ Completes("end")
  <2>1. op = "started" /\ op' = "end" /\ UNCHANGED <<fut, step, sent, open>>
    BY <1>3, CompletesFacts
  <2>2. Sized' /\ Collected'
    BY <1>0, <1>1, <1>3, <2>1 DEF IInv, Sized, Collected, Wins
  <2> QED
    BY <1>0, <1>1, <1>3, <2>2, OutcomeIInv
<1> QED
  BY <1>2, <1>3 DEF StreamGives

(* A piece of a file, kept. *)
LEMMA HandlerIInv == ASSUME IInv, HandlerGives PROVE IInv'
<1> USE DEF IInv
<1>0. /\ fut = "seek_read" /\ op = "started" /\ taken < sent
      /\ taken' = taken + 1 /\ data' = data + 1
      /\ UNCHANGED <<host, fut, wrapped, phase, wakes, step, op, registered, capacity,
                     sent, open, answer, got>>
  BY DEF HandlerGives, kindVars, hostVars, peerVars, answerVars
<1>1. sent \in Nat /\ taken' \in 0..sent /\ data' \in Nat
  BY <1>0, HostedAssumption DEF SparseIsWoken, TypeOK
<1>2. TypeOK'
  BY <1>0, <1>1 DEF SparseIsWoken, TypeOK
<1>3. SparseIsWoken'
  BY <1>0, <1>2 DEF SparseIsWoken
<1>4. Shape' /\ Sized' /\ AnswersOnce'
  BY <1>0 DEF Shape, Sized, AnswersOnce
<1>5. Collected'
  BY <1>0, <1>1 DEF Collected, Wins
<1> QED
  BY <1>3, <1>4, <1>5

(* The last call of a handler, or a file in one piece. *)
LEMMA FileIInv == ASSUME IInv, FileGiven PROVE IInv'
<1>0. /\ fut \in {"seek_all", "seek_read", "win_all", "win_read"}
      /\ Steps[fut][step] = "read" /\ Completes("done") /\ UNCHANGED capacity
  BY DEF FileGiven
<1>1. /\ op = "started" /\ op' = "done" /\ step # 0 /\ step \in Nat
      /\ UNCHANGED <<fut, step, sent, open>>
  BY <1>0, CompletesFacts
<1>2. /\ fut \in Futures /\ step <= Len(Steps[fut]) /\ sent \in Nat /\ taken \in 0..sent
      /\ data \in Nat /\ capacity \in Nat /\ capacity \in 0..(Width - 1) /\ capacity <= sent
  BY HostedAssumption DEF IInv, Shape, Sized, SparseIsWoken, TypeOK
<1>3. fut \in Wins => step = Len(Steps[fut]) /\ step > 2
  <2>1. CASE fut = "win_all"
    <3>1. step \in {1, 2, 3, 4}
      BY <1>1, <1>2, <2>1, StepsFacts
    <3> QED
      BY <1>0, <2>1, <3>1, StepsFacts
  <2>2. CASE fut = "win_read"
    <3>1. step \in {1, 2, 3}
      BY <1>1, <1>2, <2>2, StepsFacts
    <3> QED
      BY <1>0, <2>2, <3>1, StepsFacts
  <2> QED
    BY <2>1, <2>2 DEF Wins
<1>4. fut \in Wins => capacity = sent % Width /\ taken' = capacity /\ data' = capacity
  BY <1>3 DEF IInv, Sized, FileGiven, Wins
<1>5. data' \in Nat /\ taken' \in 0..sent
  BY <1>2 DEF FileGiven
<1>6. Sized'
  <2>1. capacity' <= sent' /\ capacity' = capacity
    BY <1>0, <1>1, <1>2
  <2>2. fut' \in Wins => capacity' = sent' % Width
    BY <1>1, <1>4, <2>1
  <2> QED
    BY <2>1, <2>2 DEF Sized
<1>7. Collected'
  <2>1. fut = "seek_read" => data' = taken' /\ taken' = sent'
    BY <1>1 DEF IInv, Collected, FileGiven
  <2>2. fut = "seek_all" => data' = sent'
    BY <1>1 DEF FileGiven
  <2>3. fut \in Wins => data' = sent' % Width
    BY <1>1, <1>4
  <2> QED
    BY <1>0, <1>1, <2>1, <2>2, <2>3 DEF Collected
<1> QED
  BY <1>0, <1>2, <1>5, <1>6, <1>7, OutcomeIInv

(* A failure leaves what was collected alone. *)
LEMMA FailsIInv == ASSUME IInv, Fails PROVE IInv'
<1>0. Completes("failed") /\ UNCHANGED <<capacity, data, taken>>
  BY DEF Fails
<1>1. op = "started" /\ op' = "failed" /\ UNCHANGED <<fut, step, sent, open>>
  BY <1>0, CompletesFacts
<1>2. /\ taken \in 0..sent /\ data \in Nat /\ capacity \in 0..(Width - 1)
  BY DEF IInv, SparseIsWoken, TypeOK
<1>3. Sized' /\ Collected'
  BY <1>0, <1>1 DEF IInv, Sized, Collected
<1> QED
  BY <1>0, <1>2, <1>3, OutcomeIInv

(* The peer writes before there is a file to read, or while a stream is read. *)
LEMMA PeerIInv == ASSUME IInv, Peer PROVE IInv'
<1> USE DEF IInv
<1>0. /\ open
      /\ UNCHANGED <<host, fut, wrapped, phase, wakes, step, op, registered, capacity,
                     data, taken, answer, got>>
      /\ \/ sent < MaxPieces /\ sent' = sent + 1 /\ open' = open
         \/ open' = FALSE /\ sent' = sent
  BY DEF Peer, kindVars, hostVars, opVars, answerVars
<1>1. /\ sent \in Nat /\ sent' \in 0..MaxPieces /\ taken' \in 0..sent' /\ sent' >= sent
      /\ capacity \in Nat /\ sent' \in Nat
  <2>1. sent \in Nat /\ sent <= MaxPieces /\ MaxPieces \in Nat /\ taken \in Nat /\ taken <= sent
        /\ capacity \in Nat
    <3>1. MaxPieces \in Nat /\ Width \in Nat
      BY HostedAssumption
    <3>2. sent \in 0..MaxPieces /\ taken \in 0..sent /\ capacity \in 0..(Width - 1)
      BY DEF SparseIsWoken, TypeOK
    <3>3. sent \in Nat
      BY <3>1, <3>2
    <3> QED
      BY <3>1, <3>2, <3>3
  <2>2. taken' = taken
    BY <1>0
  <2>3. (sent < MaxPieces /\ sent' = sent + 1) \/ sent' = sent
    BY <1>0
  <2>4. sent' \in Nat /\ sent' <= MaxPieces /\ sent' >= sent
    BY <2>1, <2>3
  <2> QED
    BY <2>1, <2>2, <2>4
<1>2. open' \in BOOLEAN
  BY <1>0 DEF SparseIsWoken, TypeOK
<1>3. TypeOK'
  BY <1>0, <1>1, <1>2 DEF SparseIsWoken, TypeOK
<1>4. SparseIsWoken'
  BY <1>0, <1>3 DEF SparseIsWoken
<1>5. Shape' /\ AnswersOnce'
  BY <1>0 DEF Shape, AnswersOnce
<1>6. phase = "unborn" \/ fut \in Streams
  BY <1>0 DEF Shape
<1>7. phase = "unborn" => op = "none" /\ step = 0
  BY DEF Shape
<1>8. Sized'
  BY <1>0, <1>1, <1>6, <1>7 DEF Sized, Wins, Streams
<1>9. Collected'
  <2>1. CASE phase = "unborn"
    BY <1>0, <1>7, <2>1 DEF Collected
  <2>2. CASE fut \in Streams
    BY <1>0, <2>2 DEF Collected, Streams, Wins
  <2> QED
    BY <1>6, <2>1, <2>2
<1> QED
  BY <1>4, <1>5, <1>8, <1>9

(* Every step keeps the invariant. *)
LEMMA StepIInv == ASSUME IInv, [Next]_vars PROVE IInv'
<1>1. CASE Next
  BY <1>1, MakeIInv, UnwrapsIInv, PollingIInv, TakeIInv, AnswerIInv, HostIInv, ArrivesIInv,
     StreamIInv, HandlerIInv, FileIInv, FailsIInv, PeerIInv DEF Next, FutureStep, SystemStep
<1>2. CASE UNCHANGED vars
  BY <1>2 DEF vars, kindVars, hostVars, opVars, peerVars, answerVars,
     IInv, SparseIsWoken, TypeOK, Shape, Sized, Collected, AnswersOnce
<1> QED
  BY <1>1, <1>2

(* The inductive invariant: where a future is in its operations, what it has *)
(* collected of what the system handed over, and that it answers once.       *)
THEOREM Invariance == Spec => []IInv
BY InitIInv, StepIInv, PTL DEF Spec

(* sparse_await (test.rs), which polls only when its waker was used, never   *)
(* waits beside an outcome it was not told of, whatever it awaits.           *)
THEOREM SparseAlwaysWoken == Spec => []SparseIsWoken
<1>1. IInv => SparseIsWoken
  BY DEF IInv
<1> QED
  BY <1>1, Invariance, PTL

-----------------------------------------------------------------------------
(* The reads begin unanswered. *)
LEMMA InitContract == Init => Contract!Init
BY DEF Init, Contract!Init

(* What is answered with Ok is everything, and the peer has closed. *)
LEMMA OkIsWhole ==
    ASSUME IInv, MaxPieces < Width, phase = "polling", fut # "stream_write",
           op = "end" \/ (op = "done" /\ step >= Len(Steps[fut]))
    PROVE  ~open /\ data = sent
<1>1. sent \in Nat /\ sent < Width /\ step \in Nat /\ fut \in Futures
      /\ Len(Steps[fut]) \in Nat
  BY HostedAssumption, LastStep DEF IInv, SparseIsWoken, TypeOK, Shape
<1>2. sent % Width = sent
  BY <1>1, CutTo
<1>3. CASE op = "end"
  BY <1>3 DEF IInv, Shape, Collected
<1>4. CASE op = "done" /\ step = Len(Steps[fut])
  <2>1. fut \in {"seek_all", "seek_read", "win_all", "win_read"}
    BY <1>1, <1>4, StepsFacts DEF IInv, Shape
  <2> QED
    BY <1>2, <1>4, <2>1 DEF IInv, Shape, Collected, Streams, Wins
<1> QED
  BY <1>1, <1>3, <1>4 DEF IInv, Shape

(* An answer is an answer of the contract; everything else but the peer's    *)
(* steps is invisible to it. *)
LEMMA StepContract ==
    ASSUME IInv, MaxPieces < Width, [Next]_vars
    PROVE  [Contract!Next]_(Contract!vars)
<1> USE DEF Contract!vars
<1>1. CASE Peer
  <2>0. open /\ UNCHANGED <<fut, answer, got>>
    BY <1>1 DEF Peer, kindVars, answerVars
  <2>1. CASE sent' = sent + 1 /\ UNCHANGED open
    <3>1. Contract!Send("it")
      BY <2>0, <2>1 DEF Contract!Send
    <3> QED
      BY <3>1 DEF Contract!Next
  <2>2. CASE open' = FALSE /\ UNCHANGED sent
    <3>1. Contract!Close("it")
      BY <2>0, <2>2 DEF Contract!Close
    <3> QED
      BY <3>1 DEF Contract!Next
  <2> QED
    BY <1>1, <2>1, <2>2 DEF Peer
<1>2. CASE StartRefused \/ Resolve
  <2>0. /\ phase = "polling" /\ UNCHANGED <<fut, sent, open>> /\ answer = "none" /\ got = 0
    BY <1>2 DEF StartRefused, Resolve, kindVars, peerVars, IInv, AnswersOnce
  <2>1. CASE fut = "stream_write"
    <3>1. got' = 0
      BY <1>2, <2>1 DEF StartRefused, Resolve, Answers, IInv, Collected
    <3> QED
      BY <2>0, <2>1, <3>1
  <2>2. CASE fut # "stream_write" /\ answer' = "error" /\ got' = 0
    <3>1. Contract!Fail("it")
      BY <2>0, <2>2 DEF Contract!Fail
    <3> QED
      BY <3>1 DEF Contract!Next
  <2>3. CASE fut # "stream_write" /\ answer' = "ok" /\ got' = data
                /\ (op = "end" \/ (op = "done" /\ step >= Len(Steps[fut])))
    <3>1. ~open /\ data = sent
      BY <2>0, <2>3, OkIsWhole
    <3>2. Contract!Succeed("it")
      BY <2>0, <2>3, <3>1 DEF Contract!Succeed
    <3> QED
      BY <3>2 DEF Contract!Next
  <2> QED
    BY <1>2, <2>1, <2>2, <2>3 DEF StartRefused, Resolve, Answers
<1>3. CASE ~Peer /\ ~StartRefused /\ ~Resolve
  <2>1. UNCHANGED <<fut, sent, open, answer, got>>
    BY <1>3 DEF Next, FutureStep, SystemStep, MakeFuture, Unwraps, StartFirst, AwaitOp, TakeOutcome,
       Poll, TimeOut, Arrives, StreamGives, HandlerGives, FileGiven, Fails, Completes,
       vars, kindVars, hostVars, opVars, peerVars, answerVars
  <2> QED
    BY <2>1
<1> QED
  BY <1>1, <1>2, <1>3

(* A read of a stream or of a file shorter than 2^32 is answered once, Ok    *)
(* only with all that its peer or author wrote and only once that is over.   *)
(* Beyond 2^32 the capacity that seek asks Windows for is cut (the run       *)
(* checks up to Width - 1 pieces for the same reason).                       *)
THEOREM ReadsKeepContract ==
    ASSUME MaxPieces < Width PROVE Spec => KeepsReadContract
<1>1. Init => Contract!Init
  BY InitContract
<1>2. IInv /\ [Next]_vars => [Contract!Next]_(Contract!vars)
  BY StepContract
<1> QED
  BY <1>1, <1>2, Invariance, PTL DEF Spec, KeepsReadContract, Contract!Spec
=============================================================================
