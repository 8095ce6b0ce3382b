-------------------------- MODULE OverlappedProofs --------------------------
(***************************************************************************)
(* For any readers and writers, channel and semaphore: no closure of the   *)
(* Windows worker is unaccounted for, no result goes unnoticed, and every  *)
(* read keeps the contract of ReadContract.                                *)
(***************************************************************************)
EXTENDS Overlapped, FiniteSetTheorems, TLAPS

\* An operation is in the channel at most once, and before it has a child.
QueueInv ==
    /\ \A i, j \in 1..Len(queue) : queue[i] = queue[j] => i = j
    /\ \A i \in 1..Len(queue) :
          child[queue[i]] = "none" /\ parent[queue[i]] \notin {"unpolled", "sending"}
    /\ \A o \in Ops : parent[o] \in {"unpolled", "sending"} => child[o] = "none"

\* Shared holds the waker of the task that polled last, which has been used if
\* there is a result that was not taken.
WakerInv ==
    \A o \in Ops :
        /\ parent[o] # "unpolled" => waker[o] = "current"
        /\ result[o] = "gone" => parent[o] = "resolved"
        /\ result[o] \notin {"pending", "gone"} => woken[o] \/ parent[o] = "dropped"

\* What a read has taken is in its buffer, but for a piece that is not counted
\* yet; and there is one answer.
BufferInv ==
    /\ \A r \in Readers :
        /\ taken[r] = buffer[r] + (IF io[r] = "piece" THEN 1 ELSE 0) /\ taken[r] <= sent[r]
        /\ io[r] = "eof" \/ result[r] = "eof" => Ended(r)
        /\ io[r] # "written" /\ result[r] # "ok"
    /\ \A o \in Ops : /\ answer[o] # "none" => parent[o] = "resolved"
                      /\ answer[o] = "none" => got[o] = 0

IInv == OpInv /\ QueueInv /\ WakerInv /\ BufferInv

-----------------------------------------------------------------------------
Signalling == {o \in Ops : parent[o] = "signalling"}

(* The operations are finite, those about to signal too. *)
LEMMA SignallingFinite == IsFiniteSet(Signalling) /\ Cardinality(Signalling) \in Nat
<1>1. Signalling \subseteq Ops
  BY DEF Signalling
<1> QED
  BY <1>1, OverlappedAssumption, FS_Subset, FS_CardinalityType

(* The account of the closures, with its terms named. *)
LEMMA Account ==
    SignalsAccounted <=>
        Len(queue) = permits + unsignalled + (IF worker = "taking" THEN 1 ELSE 0)
                     + Cardinality(Signalling)
BY DEF SignalsAccounted, Signalling

LEMMA AccountNext ==
    SignalsAccounted' <=>
        Len(queue') = permits' + unsignalled' + (IF worker' = "taking" THEN 1 ELSE 0)
                      + Cardinality(Signalling')
BY DEF SignalsAccounted, Signalling

(* The account stands when no term of it changes. *)
LEMMA AccountKept ==
    ASSUME SignalsAccounted, UNCHANGED poolVars, Signalling' = Signalling
    PROVE  SignalsAccounted'
<1>1. UNCHANGED <<queue, permits, unsignalled, worker>>
  BY DEF poolVars
<1> QED
  BY <1>1, Account, AccountNext

LEMMA ReadersAreOps == Readers \subseteq Ops /\ Writers \subseteq Ops
BY DEF Ops

(* The entries of the channel are operations. *)
LEMMA QueueEntries ==
    ASSUME TypeOK PROVE Len(queue) \in Nat /\ \A i \in 1..Len(queue) : queue[i] \in Ops
<1>1. queue \in Seq(Ops)
  BY DEF TypeOK
<1> QED
  BY <1>1

(* A parent that moves on within or beyond its first poll. *)
LEMMA ParentMoves ==
    ASSUME TypeOK, QueueInv, NEW o \in Ops, NEW to,
           to \in {"unpolled", "sending"} => parent[o] \in {"unpolled", "sending"},
           parent' = [parent EXCEPT ![o] = to], UNCHANGED <<queue, child>>
    PROVE  QueueInv'
<1>1. \A p \in Ops : parent'[p] \in {"unpolled", "sending"} => parent[p] \in {"unpolled", "sending"}
  BY DEF TypeOK
<1>2. \A i \in 1..Len(queue) :
         child[queue[i]] = "none" /\ parent'[queue[i]] \notin {"unpolled", "sending"}
  BY <1>1, QueueEntries DEF QueueInv
<1>3. \A i, j \in 1..Len(queue) : queue[i] = queue[j] => i = j
  BY DEF QueueInv
<1>4. \A p \in Ops : parent'[p] \in {"unpolled", "sending"} => child[p] = "none"
  BY <1>1 DEF QueueInv
<1> QED
  BY <1>2, <1>3, <1>4 DEF QueueInv

(* Nothing has begun. *)
LEMMA InitIInv == Init => IInv
<1> SUFFICES ASSUME Init PROVE IInv
  OBVIOUS
<1>1. TypeOK
  <2>1. woken \in [Ops -> BOOLEAN] /\ open \in [Ops -> BOOLEAN]
    BY DEF Init, ByOp
  <2>2. queue \in Seq(Ops) /\ Len(queue) = 0
    BY DEF Init
  <2>3. permits \in 0..SemMax /\ Len(queue) <= ChanCap
    BY <2>2, OverlappedAssumption DEF Init
  <2> QED
    BY <2>1, <2>2, <2>3 DEF Init, ByOp, TypeOK
<1>2. SignalsAccounted
  <2>1. Signalling = {}
    BY DEF Signalling, Init, ByOp
  <2>2. Cardinality(Signalling) = 0
    BY <2>1, FS_EmptySet
  <2> QED
    BY <2>2, Account DEF Init
<1>3. ChildOutlivesIo
  BY DEF Init, ByOp, ChildOutlivesIo
<1>4. QueueInv
  BY DEF Init, ByOp, QueueInv
<1>5. WakerInv
  BY DEF Init, ByOp, WakerInv
<1>6. BufferInv
  BY ReadersAreOps DEF Init, ByOp, BufferInv
<1> QED
  BY <1>1, <1>2, <1>3, <1>4, <1>5, <1>6 DEF IInv, OpInv

-----------------------------------------------------------------------------
(* The first poll: the waker is there before anything is sent. *)
LEMMA FirstPollIInv == ASSUME IInv, NEW o \in Ops, FirstPoll(o) PROVE IInv'
<1> USE DEF IInv, OpInv
<1>0. /\ parent[o] = "unpolled" /\ parent' = [parent EXCEPT ![o] = "sending"]
      /\ waker' = [waker EXCEPT ![o] = "current"]
      /\ UNCHANGED <<woken, queue, permits, unsignalled, worker, io, child, buffer, result,
                     sent, open, taken, answer, got>>
  BY DEF FirstPoll, Moves, poolVars, ioVars, peerVars, answerVars
<1>1. TypeOK'
  BY <1>0 DEF TypeOK
<1>2. SignalsAccounted'
  <2>1. Signalling' = Signalling
    BY <1>0 DEF Signalling, TypeOK
  <2> QED
    BY <1>0, <2>1, AccountKept DEF poolVars
<1>3. ChildOutlivesIo'
  BY <1>0 DEF ChildOutlivesIo
<1>4. QueueInv'
  BY <1>0, ParentMoves
<1>5. WakerInv'
  BY <1>0 DEF WakerInv, TypeOK
<1>6. BufferInv'
  BY <1>0, ReadersAreOps DEF BufferInv, TypeOK, Ended
<1> QED
  BY <1>1, <1>2, <1>3, <1>4, <1>5, <1>6

(* The closure enters the channel, and its signal is due. *)
LEMMA SendIInv == ASSUME IInv, NEW o \in Ops, Send(o) PROVE IInv'
<1> USE DEF IInv, OpInv
<1>0. /\ parent[o] = "sending" /\ parent' = [parent EXCEPT ![o] = "signalling"]
      /\ Len(queue) < ChanCap /\ queue' = Append(queue, o)
      /\ UNCHANGED <<woken, permits, unsignalled, worker, io, child, buffer, result, waker,
                     sent, open, taken, answer, got>>
  BY DEF Send, Moves, ioVars, sharedVars, peerVars, answerVars
<1>a. queue \in Seq(Ops) /\ parent \in [Ops -> {"unpolled", "sending", "signalling", "pending", "resolved", "dropped"}]
  BY DEF TypeOK
<1>b. /\ queue' \in Seq(Ops) /\ Len(queue') = Len(queue) + 1 /\ Len(queue) \in Nat
      /\ queue'[Len(queue) + 1] = o
      /\ \A i \in 1..Len(queue) : queue'[i] = queue[i]
  BY <1>0, <1>a
<1>1. TypeOK'
  <2>1. Len(queue') <= ChanCap
    BY <1>0, <1>b, OverlappedAssumption
  <2> QED
    BY <1>0, <1>b, <2>1 DEF TypeOK
<1>2. SignalsAccounted'
  <2>1. Signalling' = Signalling \cup {o} /\ o \notin Signalling
    BY <1>0, <1>a DEF Signalling
  <2> DEFINE c == Cardinality(Signalling)
             d == Cardinality(Signalling')
             b == IF worker = "taking" THEN 1 ELSE 0
  <2>2. d = c + 1 /\ c \in Nat
    BY <2>1, SignallingFinite, FS_AddElement
  <2>3. Len(queue) = permits + unsignalled + b + c
    BY Account
  <2>4. permits \in Nat /\ unsignalled \in Nat /\ b \in Nat
    BY OverlappedAssumption DEF TypeOK
  <2> HIDE DEF b, c, d
  <2>5. Len(queue') = permits + unsignalled + b + d
    BY <1>b, <2>2, <2>3, <2>4
  <2> QED
    BY <1>0, <2>5, AccountNext DEF b, d
<1>3. ChildOutlivesIo'
  BY <1>0 DEF ChildOutlivesIo
<1>4. QueueInv'
  <2>1. \A i \in 1..Len(queue) : queue[i] # o
    BY <1>0 DEF QueueInv
  <2>2. child[o] = "none"
    BY <1>0 DEF QueueInv
  <2>3. \A i \in 1..Len(queue') : i \in 1..Len(queue) \/ i = Len(queue) + 1
    BY <1>b
  <2>4. \A i, j \in 1..Len(queue') : queue'[i] = queue'[j] => i = j
    BY <1>b, <2>1, <2>3 DEF QueueInv
  <2>5. \A i \in 1..Len(queue') :
           child[queue'[i]] = "none" /\ parent'[queue'[i]] \notin {"unpolled", "sending"}
    <3> SUFFICES ASSUME NEW i \in 1..Len(queue')
                 PROVE  child[queue'[i]] = "none"
                        /\ parent'[queue'[i]] \notin {"unpolled", "sending"}
      OBVIOUS
    <3>1. CASE i \in 1..Len(queue)
      <4>1. queue'[i] = queue[i] /\ queue[i] # o /\ queue[i] \in Ops
        BY <1>a, <1>b, <2>1, <3>1
      <4>2. child[queue[i]] = "none" /\ parent[queue[i]] \notin {"unpolled", "sending"}
        BY <3>1 DEF QueueInv
      <4> QED
        BY <1>0, <1>a, <4>1, <4>2
    <3>2. CASE i = Len(queue) + 1
      BY <1>0, <1>a, <1>b, <2>2, <3>2
    <3> QED
      BY <2>3, <3>1, <3>2
  <2>6. \A p \in Ops : parent'[p] \in {"unpolled", "sending"} => child'[p] = "none"
    BY <1>0, <1>a DEF QueueInv
  <2> QED
    BY <1>0, <2>4, <2>5, <2>6 DEF QueueInv
<1>5. WakerInv'
  BY <1>0, <1>a DEF WakerInv
<1>6. BufferInv'
  BY <1>0, <1>a, ReadersAreOps DEF BufferInv, Ended
<1> QED
  BY <1>1, <1>2, <1>3, <1>4, <1>5, <1>6

(* The signal becomes a permit or is lost; either way it is accounted for. *)
LEMMA SignalIInv == ASSUME IInv, NEW o \in Ops, Signal(o) PROVE IInv'
<1> USE DEF IInv, OpInv
<1>0. /\ parent[o] = "signalling" /\ parent' = [parent EXCEPT ![o] = "pending"]
      /\ \/ permits < SemMax /\ permits' = permits + 1 /\ unsignalled' = unsignalled
         \/ unsignalled' = unsignalled + 1 /\ permits' = permits
      /\ UNCHANGED <<woken, queue, worker, io, child, buffer, result, waker,
                     sent, open, taken, answer, got>>
  BY DEF Signal, Moves, ioVars, sharedVars, peerVars, answerVars
<1>a. parent \in [Ops -> {"unpolled", "sending", "signalling", "pending", "resolved", "dropped"}]
      /\ permits \in Nat /\ permits <= SemMax /\ unsignalled \in Nat
  BY OverlappedAssumption DEF TypeOK
<1>b. /\ permits' \in Nat /\ permits' <= SemMax /\ unsignalled' \in Nat
      /\ permits' + unsignalled' = permits + unsignalled + 1
  BY <1>0, <1>a, OverlappedAssumption
<1>1. TypeOK'
  <2>1. permits' \in 0..SemMax
    BY <1>b, OverlappedAssumption
  <2>2. parent' \in [Ops -> {"unpolled", "sending", "signalling", "pending", "resolved", "dropped"}]
    BY <1>0, <1>a
  <2> QED
    BY <1>0, <1>b, <2>1, <2>2 DEF TypeOK
<1>2. SignalsAccounted'
  <2>1. Signalling' = Signalling \ {o} /\ o \in Signalling
    BY <1>0, <1>a DEF Signalling
  <2> DEFINE c == Cardinality(Signalling)
             d == Cardinality(Signalling')
             t == IF worker = "taking" THEN 1 ELSE 0
  <2>2. d = c - 1 /\ c \in Nat
    BY <2>1, SignallingFinite, FS_RemoveElement
  <2>3. Len(queue) = permits + unsignalled + t + c
    BY Account
  <2>4. t \in Nat
    OBVIOUS
  <2> HIDE DEF c, d, t
  <2>5. permits + unsignalled + t + c = permits' + unsignalled' + t + d
    <3>1. /\ permits \in Int /\ unsignalled \in Int /\ permits' \in Int /\ unsignalled' \in Int
          /\ t \in Int /\ c \in Int /\ d \in Int
      BY <1>a, <1>b, <2>2, <2>4
    <3>2. permits' + unsignalled' = permits + unsignalled + 1
      BY <1>b
    <3>3. d = c - 1
      BY <2>2
    <3> QED
      <4> DEFINE before == permits + unsignalled
                 after  == permits' + unsignalled'
      <4>1. before \in Int
        BY <3>1
      <4>2. after \in Int
        BY <3>1
      <4>a. after = before + 1
        BY <3>2
      <4> HIDE DEF before, after
      <4>3. before + t + c = after + t + d
        BY <3>1, <3>3, <4>1, <4>2, <4>a
      <4> QED
        BY <4>3 DEF before, after
  <2>6. Len(queue') = permits' + unsignalled' + t + d
    BY <1>0, <2>3, <2>5
  <2> QED
    BY <1>0, <2>6, AccountNext DEF d, t
<1>3. ChildOutlivesIo'
  BY <1>0 DEF ChildOutlivesIo
<1>4. QueueInv'
  BY <1>0, ParentMoves
<1>5. WakerInv'
  BY <1>0, <1>a DEF WakerInv
<1>6. BufferInv'
  BY <1>0, <1>a, ReadersAreOps DEF BufferInv, Ended
<1> QED
  BY <1>1, <1>2, <1>3, <1>4, <1>5, <1>6

(* A poll without a result; the one that takes it; a future dropped. *)
LEMMA PollIInv == ASSUME IInv, NEW o \in Ops, Poll(o) PROVE IInv'
<1> USE DEF IInv, OpInv
<1>0. /\ parent[o] = "pending" /\ result[o] = "pending"
      /\ waker' = [waker EXCEPT ![o] = "current"] /\ woken' = [woken EXCEPT ![o] = FALSE]
      /\ UNCHANGED <<parent, queue, permits, unsignalled, worker, io, child, buffer, result,
                     sent, open, taken, answer, got>>
  BY DEF Poll, poolVars, ioVars, peerVars, answerVars
<1>1. TypeOK'
  BY <1>0 DEF TypeOK
<1>2. SignalsAccounted'
  BY <1>0 DEF SignalsAccounted
<1>3. ChildOutlivesIo' /\ QueueInv' /\ BufferInv'
  BY <1>0 DEF ChildOutlivesIo, QueueInv, BufferInv, Ended
<1>4. WakerInv'
  BY <1>0 DEF WakerInv, TypeOK
<1> QED
  BY <1>1, <1>2, <1>3, <1>4

LEMMA ResolveIInv == ASSUME IInv, NEW o \in Ops, Resolve(o) PROVE IInv'
<1> USE DEF IInv, OpInv
<1>0. /\ parent[o] = "pending" /\ parent' = [parent EXCEPT ![o] = "resolved"]
      /\ result[o] # "pending" /\ result' = [result EXCEPT ![o] = "gone"]
      /\ answer' = [answer EXCEPT ![o] = IF result[o] = "failed" THEN "error" ELSE "ok"]
      /\ got' = [got EXCEPT ![o] = IF result[o] = "eof" THEN buffer[o] ELSE 0]
      /\ woken' = [woken EXCEPT ![o] = FALSE]
      /\ UNCHANGED <<queue, permits, unsignalled, worker, io, child, buffer, waker,
                     sent, open, taken>>
  BY DEF Resolve, Moves, poolVars, ioVars, peerVars
<1>1. TypeOK'
  BY <1>0 DEF TypeOK
<1>2. SignalsAccounted'
  <2>1. Signalling' = Signalling
    BY <1>0 DEF Signalling, TypeOK
  <2> QED
    BY <1>0, <2>1, AccountKept DEF poolVars
<1>3. ChildOutlivesIo'
  BY <1>0 DEF ChildOutlivesIo, TypeOK
<1>4. QueueInv'
  BY <1>0, ParentMoves
<1>5. WakerInv'
  BY <1>0 DEF WakerInv, TypeOK
<1>6. BufferInv'
  BY <1>0, ReadersAreOps DEF BufferInv, TypeOK, Ended
<1> QED
  BY <1>1, <1>2, <1>3, <1>4, <1>5, <1>6

LEMMA DropIInv == ASSUME IInv, NEW o \in Ops, DropFuture(o) PROVE IInv'
<1> USE DEF IInv, OpInv
<1>0. /\ parent[o] = "pending" /\ parent' = [parent EXCEPT ![o] = "dropped"]
      /\ UNCHANGED <<woken, queue, permits, unsignalled, worker, io, child, buffer, result, waker,
                     sent, open, taken, answer, got>>
  BY DEF DropFuture, Moves, poolVars, ioVars, sharedVars, peerVars, answerVars
<1>1. TypeOK'
  BY <1>0 DEF TypeOK
<1>2. SignalsAccounted'
  <2>1. Signalling' = Signalling
    BY <1>0 DEF Signalling, TypeOK
  <2> QED
    BY <1>0, <2>1, AccountKept DEF poolVars
<1>3. ChildOutlivesIo' /\ QueueInv'
  BY <1>0, ParentMoves DEF ChildOutlivesIo
<1>5. WakerInv'
  BY <1>0 DEF WakerInv, TypeOK
<1>6. BufferInv'
  BY <1>0, ReadersAreOps DEF BufferInv, TypeOK, Ended
<1> QED
  BY <1>1, <1>2, <1>3, <1>5, <1>6

-----------------------------------------------------------------------------
\* What a step of the worker makes of o: a call that is outstanding, or the
\* result r, with a wake.
Becomes(o, r) ==
    /\ io' = [io EXCEPT ![o] = IF r = "pending" THEN "outstanding" ELSE "none"]
    /\ child' = [child EXCEPT ![o] = IF r = "pending" THEN "boxed" ELSE "freed"]
    /\ result' = [result EXCEPT ![o] = r]
    /\ woken' = [woken EXCEPT ![o] = IF r # "pending" /\ waker[o] = "current" THEN TRUE ELSE @]
    /\ waker' = waker

(* Child::ready, seen as that. *)
LEMMA ReadyBecomes ==
    ASSUME TypeOK, NEW o \in Ops, NEW r \in {"ok", "eof", "failed"}, Ready(o, r)
    PROVE  Becomes(o, r)
<1>1. woken[o] \in BOOLEAN
  BY DEF TypeOK
<1>2. (woken[o] \/ waker[o] = "current") = IF waker[o] = "current" THEN TRUE ELSE woken[o]
  BY <1>1
<1>3. woken' = [woken EXCEPT ![o] = IF r # "pending" /\ waker[o] = "current" THEN TRUE ELSE @]
  BY <1>2 DEF Ready
<1> QED
  BY <1>3 DEF Ready, Becomes

(* Starting a call, seen as that. *)
LEMMA BeginBecomes ==
    ASSUME TypeOK, NEW o \in Ops, result[o] = "pending", Begin(o)
    PROVE  \E r \in {"pending", "eof", "failed"} :
              Becomes(o, r) /\ (r = "eof" => o \in Readers /\ Ended(o))
<1>1. CASE Issue(o)
  <2>1. Becomes(o, "pending")
    BY <1>1 DEF Issue, Becomes, TypeOK, sharedVars
  <2> QED
    BY <2>1
<1>2. CASE Ready(o, "failed")
  BY <1>2, ReadyBecomes
<1>3. CASE o \in Readers /\ Ended(o) /\ Ready(o, "eof")
  BY <1>3, ReadyBecomes
<1> QED
  BY <1>1, <1>2, <1>3 DEF Begin

(* Such a step, on an operation without a result, whose buffer then holds    *)
(* all it has taken. *)
LEMMA BecomesIInv ==
    ASSUME TypeOK, ChildOutlivesIo, WakerInv, BufferInv,
           NEW o \in Ops, NEW r \in {"pending", "ok", "eof", "failed"}, Becomes(o, r),
           result[o] = "pending", parent[o] # "unpolled",
           o \in Readers => r # "ok" /\ buffer'[o] = taken[o] /\ (r = "eof" => Ended(o)),
           UNCHANGED <<parent, sent, open, taken, answer, got>>,
           buffer' \in [Ops -> Nat], \A p \in Ops : p # o => buffer'[p] = buffer[p]
    PROVE  /\ ChildOutlivesIo' /\ WakerInv' /\ BufferInv'
           /\ woken' \in [Ops -> BOOLEAN] /\ waker' \in [Ops -> {"current", "stale"}]
           /\ io' \in [Ops -> {"none", "outstanding", "piece", "eof", "written", "failed"}]
           /\ child' \in [Ops -> {"none", "boxed", "freed"}]
           /\ result' \in [Ops -> {"pending", "ok", "eof", "failed", "gone"}]
<1>1. \A p \in Ops : p # o => UNCHANGED <<io[p], child[p], result[p], woken[p], buffer[p]>>
  BY DEF Becomes, TypeOK
<1>2. /\ io'[o] = IF r = "pending" THEN "outstanding" ELSE "none"
      /\ child'[o] = IF r = "pending" THEN "boxed" ELSE "freed"
      /\ result'[o] = r /\ waker' = waker
  BY DEF Becomes, TypeOK
<1>3. r # "pending" => woken'[o]
  BY DEF Becomes, TypeOK, WakerInv
<1>4. ChildOutlivesIo'
  BY <1>1, <1>2 DEF ChildOutlivesIo
<1>5. WakerInv'
  BY <1>1, <1>2, <1>3 DEF WakerInv
<1>6. BufferInv'
  <2> SUFFICES ASSUME NEW p \in Readers
               PROVE  /\ taken[p] = buffer'[p] + (IF io'[p] = "piece" THEN 1 ELSE 0)
                      /\ io'[p] = "eof" \/ result'[p] = "eof" => Ended(p)
                      /\ io'[p] # "written" /\ result'[p] # "ok"
    BY DEF BufferInv, Ended
  <2>1. p \in Ops
    BY ReadersAreOps
  <2>2. CASE p = o
    <3>1. io'[p] \in {"outstanding", "none"} /\ buffer'[p] = taken[p] /\ taken[p] \in Nat
      BY <1>2, <2>1, <2>2 DEF TypeOK
    <3> QED
      BY <1>2, <2>2, <3>1
  <2>3. CASE p # o
    BY <1>1, <2>1, <2>3 DEF BufferInv
  <2> QED
    BY <2>2, <2>3
<1>7. woken' \in [Ops -> BOOLEAN]
  BY DEF Becomes, TypeOK
<1> QED
  BY <1>4, <1>5, <1>6, <1>7 DEF Becomes, TypeOK

(* The channel, when the child of an operation that is not in it changes. *)
LEMMA ChildMoves ==
    ASSUME TypeOK, QueueInv, NEW o \in Ops, UNCHANGED <<parent, queue>>,
           \A i \in 1..Len(queue) : queue[i] # o,
           parent[o] \notin {"unpolled", "sending"},
           \A p \in Ops : p # o => child'[p] = child[p]
    PROVE  QueueInv'
<1>1. \A i \in 1..Len(queue) : child'[queue[i]] = child[queue[i]]
  BY QueueEntries
<1>2. \A p \in Ops : parent[p] \in {"unpolled", "sending"} => child'[p] = "none"
  BY DEF QueueInv
<1> QED
  BY <1>1, <1>2 DEF QueueInv

(* The worker takes a permit. *)
LEMMA WaitIInv == ASSUME IInv, WaitForSemaphore PROVE IInv'
<1> USE DEF IInv, OpInv
<1>0. /\ worker = "waiting" /\ permits > 0 /\ worker' = "taking" /\ permits' = permits - 1
      /\ UNCHANGED <<parent, woken, queue, unsignalled, io, child, buffer, result, waker,
                     sent, open, taken, answer, got>>
  BY DEF WaitForSemaphore, hostVars, ioVars, sharedVars, peerVars, answerVars
<1>a. permits \in Nat /\ permits <= SemMax /\ unsignalled \in Nat
  BY OverlappedAssumption DEF TypeOK
<1>b. permits' \in Nat /\ permits' <= SemMax
  BY <1>0, <1>a, OverlappedAssumption
<1>1. TypeOK'
  BY <1>0, <1>b DEF TypeOK
<1>2. SignalsAccounted'
  <2> DEFINE c == Cardinality(Signalling)
  <2>1. c \in Nat /\ c = Cardinality(Signalling')
    BY <1>0, SignallingFinite DEF Signalling
  <2>2. Len(queue) = permits + unsignalled + 0 + c
    BY <1>0, Account
  <2> HIDE DEF c
  <2>3. Len(queue) = permits' + unsignalled' + 1 + c
    BY <1>0, <1>a, <1>b, <2>1, <2>2
  <2> QED
    BY <1>0, <2>1, <2>3, AccountNext
<1>3. ChildOutlivesIo' /\ QueueInv' /\ WakerInv' /\ BufferInv'
  BY <1>0 DEF ChildOutlivesIo, QueueInv, WakerInv, BufferInv, Ended
<1> QED
  BY <1>1, <1>2, <1>3

(* The closure is taken from the channel and begins its operation. *)
LEMMA RunIInv == ASSUME IInv, RunClosure PROVE IInv'
<1> USE DEF IInv, OpInv
<1> DEFINE o == Head(queue)
<1>0. /\ worker = "taking" /\ queue # <<>> /\ worker' = "waiting" /\ queue' = Tail(queue)
      /\ Begin(o)
      /\ UNCHANGED <<parent, permits, unsignalled, buffer, sent, open, taken, answer, got>>
  BY DEF RunClosure, peerVars, answerVars
<1>a. queue \in Seq(Ops)
  BY DEF TypeOK
<1>b. /\ Len(queue) \in Nat /\ Len(queue) >= 1 /\ o = queue[1] /\ o \in Ops
      /\ Len(queue') = Len(queue) - 1 /\ queue' \in Seq(Ops)
      /\ \A i \in 1..Len(queue') : queue'[i] = queue[i + 1]
  BY <1>0, <1>a
<1>c. child[o] = "none" /\ parent[o] \notin {"unpolled", "sending"}
  BY <1>b DEF QueueInv
<1> HIDE DEF o
<1>d. result[o] = "pending" /\ io[o] = "none"
  BY <1>b, <1>c DEF ChildOutlivesIo, TypeOK
<1>e. PICK r \in {"pending", "eof", "failed"} :
              Becomes(o, r) /\ (r = "eof" => o \in Readers /\ Ended(o))
  BY <1>0, <1>b, <1>d, BeginBecomes
<1>f. o \in Readers => buffer'[o] = taken[o]
  <2>1. buffer[o] \in Nat /\ buffer'[o] = buffer[o]
    BY <1>0, <1>b DEF TypeOK
  <2>2. o \in Readers => taken[o] = buffer[o] + 0
    BY <1>d DEF BufferInv
  <2> QED
    BY <2>1, <2>2
<1>g. buffer' \in [Ops -> Nat] /\ \A p \in Ops : p # o => buffer'[p] = buffer[p]
  BY <1>0 DEF TypeOK
<1>1. /\ ChildOutlivesIo' /\ WakerInv' /\ BufferInv'
      /\ woken' \in [Ops -> BOOLEAN] /\ waker' \in [Ops -> {"current", "stale"}]
      /\ io' \in [Ops -> {"none", "outstanding", "piece", "eof", "written", "failed"}]
      /\ child' \in [Ops -> {"none", "boxed", "freed"}]
      /\ result' \in [Ops -> {"pending", "ok", "eof", "failed", "gone"}]
  BY <1>0, <1>b, <1>c, <1>d, <1>e, <1>f, <1>g, BecomesIInv
<1>2. TypeOK'
  <2>1. Len(queue') <= ChanCap
    BY <1>b, OverlappedAssumption DEF TypeOK
  <2> QED
    BY <1>0, <1>1, <1>b, <1>g, <2>1 DEF TypeOK
<1>3. SignalsAccounted'
  <2> DEFINE c == Cardinality(Signalling)
  <2>1. c \in Nat /\ c = Cardinality(Signalling')
    BY <1>0, SignallingFinite DEF Signalling
  <2>2. Len(queue) = permits + unsignalled + 1 + c
    BY <1>0, Account
  <2>3. permits \in Nat /\ unsignalled \in Nat
    BY OverlappedAssumption DEF TypeOK
  <2> HIDE DEF c
  <2>4. Len(queue') = permits' + unsignalled' + 0 + c
    BY <1>0, <1>b, <2>1, <2>2, <2>3
  <2> QED
    BY <1>0, <2>1, <2>4, AccountNext
<1>4. QueueInv'
  <2>1. \A i \in 1..Len(queue') : i \in 1..Len(queue) /\ i + 1 \in 1..Len(queue) /\ i + 1 # 1
    BY <1>b
  <2>2. \A i \in 1..Len(queue') : queue'[i] \in Ops /\ queue'[i] # o
    BY <1>a, <1>b, <2>1 DEF QueueInv
  <2>3. \A p \in Ops : p # o => child'[p] = child[p]
    BY <1>b, <1>e DEF Becomes, TypeOK
  <2>4. \A i, j \in 1..Len(queue') : queue'[i] = queue'[j] => i = j
    <3> SUFFICES ASSUME NEW i \in 1..Len(queue'), NEW j \in 1..Len(queue'),
                        queue'[i] = queue'[j]
                 PROVE  i = j
      OBVIOUS
    <3>1. i + 1 = j + 1
      BY <1>b, <2>1 DEF QueueInv
    <3> QED
      BY <3>1
  <2>5. \A i \in 1..Len(queue') :
           child'[queue'[i]] = "none" /\ parent'[queue'[i]] \notin {"unpolled", "sending"}
    BY <1>0, <1>b, <2>1, <2>2, <2>3 DEF QueueInv
  <2>6. \A p \in Ops : parent'[p] \in {"unpolled", "sending"} => child'[p] = "none"
    BY <1>0, <1>c, <2>3 DEF QueueInv
  <2> QED
    BY <2>4, <2>5, <2>6 DEF QueueInv
<1> QED
  BY <1>1, <1>2, <1>3, <1>4

(* A completion routine resumes its operation. *)
LEMMA CompletionIInv == ASSUME IInv, NEW o \in Ops, Completion(o) PROVE IInv'
<1> USE DEF IInv, OpInv
<1>0. /\ ResumePiece(o) \/ ResumeLast(o)
      /\ UNCHANGED <<parent, queue, permits, unsignalled, worker, sent, open, taken, answer, got>>
  BY DEF Completion, poolVars, peerVars, answerVars
<1>a. io[o] # "none"
  BY <1>0 DEF ResumePiece, ResumeLast
<1>b. child[o] = "boxed" /\ result[o] = "pending"
  BY <1>a DEF ChildOutlivesIo
<1>c. parent[o] \notin {"unpolled", "sending"} /\ \A i \in 1..Len(queue) : queue[i] # o
  BY <1>b DEF QueueInv
<1>d. /\ buffer' \in [Ops -> Nat] /\ \A p \in Ops : p # o => buffer'[p] = buffer[p]
      /\ o \in Readers => buffer'[o] = taken[o]
  <2>0. buffer \in [Ops -> Nat]
    BY DEF TypeOK
  <2>1. CASE ResumePiece(o)
    <3>1. buffer' = [buffer EXCEPT ![o] = buffer[o] + 1] /\ io[o] = "piece"
      BY <2>1 DEF ResumePiece
    <3>2. o \in Readers => taken[o] = buffer[o] + 1
      BY <3>1 DEF BufferInv
    <3> QED
      BY <2>0, <3>1, <3>2
  <2>2. CASE ResumeLast(o)
    <3>1. buffer' = buffer /\ io[o] # "piece"
      BY <2>2 DEF ResumeLast
    <3>2. o \in Readers => taken[o] = buffer[o] + 0
      BY <3>1 DEF BufferInv
    <3>3. buffer[o] \in Nat
      BY <2>0
    <3> QED
      BY <2>0, <3>1, <3>2, <3>3
  <2> QED
    BY <1>0, <2>1, <2>2
<1>e. \E r \in {"pending", "ok", "eof", "failed"} :
         Becomes(o, r) /\ (o \in Readers => r # "ok" /\ (r = "eof" => Ended(o)))
  <2>1. CASE ResumePiece(o)
    BY <1>b, <2>1, BeginBecomes DEF ResumePiece
  <2>2. CASE io[o] \in {"eof", "failed"} /\ Ready(o, io[o])
    <3>1. Becomes(o, io[o])
      BY <2>2, ReadyBecomes
    <3> QED
      BY <2>2, <3>1 DEF BufferInv
  <2>3. CASE io[o] = "written" /\ Ready(o, "ok")
    <3>1. Becomes(o, "ok")
      BY <2>3, ReadyBecomes
    <3> QED
      BY <2>3, <3>1 DEF BufferInv
  <2> QED
    BY <1>0, <2>1, <2>2, <2>3 DEF ResumeLast
<1>f. PICK r \in {"pending", "ok", "eof", "failed"} :
         Becomes(o, r) /\ (o \in Readers => r # "ok" /\ (r = "eof" => Ended(o)))
  BY <1>e
<1>1. /\ ChildOutlivesIo' /\ WakerInv' /\ BufferInv'
      /\ woken' \in [Ops -> BOOLEAN] /\ waker' \in [Ops -> {"current", "stale"}]
      /\ io' \in [Ops -> {"none", "outstanding", "piece", "eof", "written", "failed"}]
      /\ child' \in [Ops -> {"none", "boxed", "freed"}]
      /\ result' \in [Ops -> {"pending", "ok", "eof", "failed", "gone"}]
  BY <1>0, <1>b, <1>c, <1>d, <1>f, BecomesIInv
<1>2. TypeOK'
  BY <1>0, <1>1, <1>d DEF TypeOK
<1>3. SignalsAccounted'
  BY <1>0 DEF SignalsAccounted
<1>4. QueueInv'
  <2>1. \A p \in Ops : p # o => child'[p] = child[p]
    BY <1>f DEF Becomes, TypeOK
  <2> QED
    BY <1>0, <1>c, <2>1, ChildMoves
<1> QED
  BY <1>1, <1>2, <1>3, <1>4

-----------------------------------------------------------------------------
(* The device completes a call: what it does to a read is in keeping with    *)
(* the pipe. *)
LEMMA DeviceIInv ==
    ASSUME IInv, NEW o \in Ops, NEW what \in {"piece", "eof", "written", "failed"},
           DeviceDoes(o, what),
           what = "piece" => o \in Readers /\ taken[o] < sent[o],
           what = "eof" => o \in Readers /\ Ended(o),
           what = "written" => o \in Writers
    PROVE  IInv'
<1> USE DEF IInv, OpInv
<1>0. /\ io[o] = "outstanding" /\ io' = [io EXCEPT ![o] = what]
      /\ taken' = [taken EXCEPT ![o] = IF what = "piece" THEN taken[o] + 1 ELSE taken[o]]
      /\ UNCHANGED <<parent, woken, queue, permits, unsignalled, worker, child, buffer,
                     result, waker, sent, open, answer, got>>
  BY DEF DeviceDoes, hostVars, poolVars, sharedVars, answerVars
<1>1. TypeOK'
  <2>1. taken' \in [Ops -> Nat] /\ io' \in [Ops -> {"none", "outstanding", "piece", "eof", "written", "failed"}]
    BY <1>0 DEF TypeOK
  <2> QED
    BY <1>0, <2>1 DEF TypeOK
<1>2. SignalsAccounted'
  BY <1>0 DEF SignalsAccounted
<1>3. ChildOutlivesIo'
  BY <1>0 DEF ChildOutlivesIo, TypeOK
<1>4. QueueInv' /\ WakerInv'
  BY <1>0 DEF QueueInv, WakerInv
<1>5. BufferInv'
  <2> SUFFICES ASSUME NEW p \in Readers
               PROVE  /\ taken'[p] = buffer[p] + (IF io'[p] = "piece" THEN 1 ELSE 0)
                      /\ taken'[p] <= sent[p]
                      /\ io'[p] = "eof" \/ result[p] = "eof" => ~open[p] /\ taken'[p] = sent[p]
                      /\ io'[p] # "written" /\ result[p] # "ok"
    BY <1>0 DEF BufferInv, Ended
  <2>1. p \in Ops
    BY ReadersAreOps
  <2>2. CASE p # o
    <3>1. io'[p] = io[p] /\ taken'[p] = taken[p]
      BY <1>0, <2>1, <2>2 DEF TypeOK
    <3> QED
      BY <3>1 DEF BufferInv, Ended
  <2>3. CASE p = o
    <3>1. io'[o] = what /\ taken'[o] = IF what = "piece" THEN taken[o] + 1 ELSE taken[o]
      BY <1>0 DEF TypeOK
    <3>2. buffer[o] \in Nat /\ sent[o] \in Nat /\ taken[o] \in Nat
      BY DEF TypeOK
    <3>3. taken[o] = buffer[o] + 0 /\ taken[o] <= sent[o]
      BY <1>0, <2>3 DEF BufferInv
    <3>4. taken[o] = buffer[o]
      BY <3>2, <3>3
    <3>5. result[o] = "pending"
      BY <1>0 DEF ChildOutlivesIo, TypeOK
    <3>6. what # "written"
      BY <2>3, OverlappedAssumption
    <3>7. taken'[o] = buffer[o] + (IF io'[o] = "piece" THEN 1 ELSE 0)
      BY <3>1, <3>2, <3>4
    <3>8. taken'[o] <= sent[o]
      BY <3>1, <3>2, <3>3
    <3> QED
      BY <2>3, <3>1, <3>5, <3>6, <3>7, <3>8 DEF Ended
  <2> QED
    BY <2>2, <2>3
<1> QED
  BY <1>1, <1>2, <1>3, <1>4, <1>5

(* The peer writes, or closes; it does neither once the end was seen. *)
LEMMA PeerIInv == ASSUME IInv, NEW o \in Ops, PeerSends(o) \/ PeerCloses(o) PROVE IInv'
<1> USE DEF IInv, OpInv
<1>0. /\ open[o]
      /\ \/ sent' = [sent EXCEPT ![o] = sent[o] + 1] /\ open' = open
         \/ sent' = sent /\ open' = [open EXCEPT ![o] = FALSE]
      /\ UNCHANGED <<parent, woken, queue, permits, unsignalled, worker, io, child, buffer,
                     result, waker, taken, answer, got>>
  BY DEF PeerSends, PeerCloses, hostVars, poolVars, ioVars, sharedVars, answerVars
<1>1. TypeOK'
  <2>1. sent' \in [Ops -> Nat]
    <3>1. sent \in [Ops -> Nat]
      BY DEF TypeOK
    <3>2. [sent EXCEPT ![o] = sent[o] + 1] \in [Ops -> Nat]
      BY <3>1
    <3> QED
      BY <1>0, <3>1, <3>2
  <2>2. open' \in [Ops -> BOOLEAN]
    <3>1. open \in [Ops -> BOOLEAN]
      BY DEF TypeOK
    <3>2. [open EXCEPT ![o] = FALSE] \in [Ops -> BOOLEAN]
      BY <3>1
    <3> QED
      BY <1>0, <3>1, <3>2
  <2> QED
    BY <1>0, <2>1, <2>2 DEF TypeOK
<1>2. SignalsAccounted' /\ ChildOutlivesIo' /\ QueueInv' /\ WakerInv'
  <2>0. UNCHANGED <<parent, woken, queue, permits, unsignalled, worker, io, child, result, waker>>
    BY <1>0
  <2>1. SignalsAccounted'
    BY <2>0 DEF SignalsAccounted
  <2>2. ChildOutlivesIo' /\ QueueInv' /\ WakerInv'
    BY <2>0 DEF ChildOutlivesIo, QueueInv, WakerInv
  <2> QED
    BY <2>1, <2>2
<1>3. BufferInv'
  <2>1. \A p \in Readers : sent[p] <= sent'[p] /\ sent[p] \in Nat /\ sent'[p] \in Nat
                            /\ taken[p] \in Nat
    <3>1. sent \in [Ops -> Nat] /\ taken \in [Ops -> Nat]
      BY DEF TypeOK
    <3>2. CASE sent' = sent
      BY <3>1, <3>2, ReadersAreOps
    <3>3. CASE sent' = [sent EXCEPT ![o] = sent[o] + 1]
      BY <3>1, <3>3, ReadersAreOps
    <3> QED
      BY <1>0, <3>2, <3>3
  <2>2. \A p \in Readers : Ended(p) => Ended(p)'
    BY <1>0, ReadersAreOps DEF Ended, TypeOK
  <2>3. \A p \in Readers : taken[p] <= sent'[p]
    BY <2>1 DEF BufferInv
  <2> QED
    BY <1>0, <2>2, <2>3 DEF BufferInv
<1> QED
  BY <1>1, <1>2, <1>3

(* Every step keeps the invariant. *)
LEMMA StepIInv == ASSUME IInv, [Next]_vars PROVE IInv'
<1>1. ASSUME NEW o \in Ops, Device(o) \/ DeviceFails(o) PROVE IInv'
  BY <1>1, DeviceIInv DEF Device, DeviceFails
<1>2. CASE Next
  BY <1>1, <1>2, FirstPollIInv, SendIInv, SignalIInv, PollIInv, ResolveIInv, DropIInv, WaitIInv,
     RunIInv, CompletionIInv, PeerIInv DEF Next, WorkerStep
<1>3. CASE UNCHANGED vars
  <2>0. UNCHANGED <<parent, woken, queue, permits, unsignalled, worker, io, child, buffer,
                    result, waker, sent, open, taken, answer, got>>
    BY <1>3 DEF vars, hostVars, poolVars, ioVars, sharedVars, peerVars, answerVars
  <2>1. TypeOK'
    BY <2>0 DEF IInv, OpInv, TypeOK
  <2>2. SignalsAccounted'
    BY <2>0 DEF IInv, OpInv, SignalsAccounted
  <2>3. ChildOutlivesIo' /\ QueueInv' /\ WakerInv'
    BY <2>0 DEF IInv, OpInv, ChildOutlivesIo, QueueInv, WakerInv
  <2>4. BufferInv'
    BY <2>0 DEF IInv, BufferInv, Ended
  <2> QED
    BY <2>1, <2>2, <2>3, <2>4 DEF IInv, OpInv
<1> QED
  BY <1>2, <1>3

(* The inductive invariant: the account of the closures, the channel without *)
(* duplicates, the waker in place before the operation begins, and what each *)
(* read has in its buffer.                                                   *)
THEOREM Invariance == Spec => []IInv
BY InitIInv, StepIInv, PTL DEF Spec

(* The worker's recv (threadpool.rs) never blocks on an empty channel, and   *)
(* the Child of an operation lives exactly as long as the system may write   *)
(* into it.                                                                  *)
THEOREM OperationsAccounted == Spec => []OpInv
<1>1. IInv => OpInv
  BY DEF IInv
<1> QED
  BY <1>1, Invariance, PTL

(* A result beside a future that was not dropped has woken the task that     *)
(* polled last (overlapped.rs), in every order of poll and completion.       *)
THEOREM ResultsNoticed == Spec => []ResultNoticed
<1>1. IInv => ResultNoticed
  BY DEF IInv, WakerInv, ResultNoticed
<1> QED
  BY <1>1, Invariance, PTL

-----------------------------------------------------------------------------
(* A poll that takes a result answers as the contract says. *)
LEMMA ResolveContract ==
    ASSUME IInv, NEW o \in Readers, Resolve(o)
    PROVE  Contract!Succeed(o) \/ Contract!Fail(o)
<1>0. /\ parent[o] = "pending" /\ result[o] # "pending"
      /\ answer' = [answer EXCEPT ![o] = IF result[o] = "failed" THEN "error" ELSE "ok"]
      /\ got' = [got EXCEPT ![o] = IF result[o] = "eof" THEN buffer[o] ELSE 0]
      /\ UNCHANGED <<sent, open>>
  BY DEF Resolve, Moves, peerVars
<1>1. o \in Ops
  BY ReadersAreOps
<1>2. answer[o] = "none" /\ got[o] = 0 /\ result[o] # "gone"
  BY <1>0, <1>1 DEF IInv, BufferInv, WakerInv
<1>3. result[o] \in {"eof", "failed"}
  BY <1>0, <1>1, <1>2 DEF IInv, OpInv, TypeOK, BufferInv
<1>4. answer \in [Ops -> {"none", "ok", "error"}] /\ got \in [Ops -> Nat]
      /\ buffer[o] \in Nat /\ taken[o] \in Nat
  BY <1>1 DEF IInv, OpInv, TypeOK
<1>5. CASE result[o] = "eof"
  <2>1. io[o] = "none"
    BY <1>1, <1>5 DEF IInv, OpInv, ChildOutlivesIo, TypeOK
  <2>2. ~open[o] /\ taken[o] = sent[o]
    BY <1>5 DEF IInv, BufferInv, Ended
  <2>3. taken[o] = buffer[o] + 0
    BY <2>1 DEF IInv, BufferInv
  <2>4. buffer[o] = sent[o]
    BY <1>4, <2>2, <2>3
  <2>5. answer' = [answer EXCEPT ![o] = "ok"] /\ got' = [got EXCEPT ![o] = sent[o]]
    BY <1>0, <1>5, <2>4
  <2>6. OfReaders(answer') = [OfReaders(answer) EXCEPT ![o] = "ok"]
    BY <1>1, <1>4, <2>5, ReadersAreOps DEF OfReaders
  <2>7. OfReaders(got') = [OfReaders(got) EXCEPT ![o] = sent[o]]
    BY <1>1, <1>4, <2>5, ReadersAreOps DEF OfReaders
  <2>8. Contract!Succeed(o)
    BY <1>0, <1>2, <2>2, <2>6, <2>7 DEF Contract!Succeed, OfReaders
  <2> QED
    BY <2>8
<1>6. CASE result[o] = "failed"
  <2>1. answer' = [answer EXCEPT ![o] = "error"] /\ got' = [got EXCEPT ![o] = 0]
    BY <1>0, <1>6
  <2>2. OfReaders(answer') = [OfReaders(answer) EXCEPT ![o] = "error"]
    BY <1>1, <1>4, <2>1, ReadersAreOps DEF OfReaders
  <2>3. OfReaders(got') = OfReaders(got)
    BY <1>1, <1>2, <1>4, <2>1, ReadersAreOps DEF OfReaders
  <2>4. Contract!Fail(o)
    BY <1>0, <1>2, <2>2, <2>3 DEF Contract!Fail, OfReaders
  <2> QED
    BY <2>4
<1> QED
  BY <1>3, <1>5, <1>6

(* Every step is a step of the contract or does not concern it. *)
LEMMA StepContract ==
    ASSUME IInv, [Next]_vars
    PROVE  [Contract!Next]_(Contract!vars)
<1> USE DEF Contract!vars
<1>1. ASSUME NEW o \in Ops, PeerSends(o)
      PROVE  Contract!Next
  <2>1. /\ o \in Readers /\ open[o] /\ sent' = [sent EXCEPT ![o] = sent[o] + 1]
        /\ UNCHANGED <<open, answer, got>> /\ sent \in [Ops -> Nat]
    BY <1>1 DEF PeerSends, answerVars, IInv, OpInv, TypeOK
  <2>2. OfReaders(sent') = [OfReaders(sent) EXCEPT ![o] = OfReaders(sent)[o] + 1]
    BY <2>1, ReadersAreOps DEF OfReaders
  <2>3. Contract!Send(o)
    BY <2>1, <2>2 DEF Contract!Send, OfReaders
  <2> QED
    BY <2>1, <2>3 DEF Contract!Next
<1>2. ASSUME NEW o \in Ops, PeerCloses(o)
      PROVE  Contract!Next
  <2>1. /\ o \in Readers /\ open[o] /\ open' = [open EXCEPT ![o] = FALSE]
        /\ UNCHANGED <<sent, answer, got>> /\ open \in [Ops -> BOOLEAN]
    BY <1>2 DEF PeerCloses, answerVars, IInv, OpInv, TypeOK
  <2>2. OfReaders(open') = [OfReaders(open) EXCEPT ![o] = FALSE]
    BY <2>1, ReadersAreOps DEF OfReaders
  <2>3. Contract!Close(o)
    BY <2>1, <2>2 DEF Contract!Close, OfReaders
  <2> QED
    BY <2>1, <2>3 DEF Contract!Next
<1>3. ASSUME NEW o \in Ops, Resolve(o)
      PROVE  [Contract!Next]_(Contract!vars)
  <2>1. CASE o \in Readers
    BY <1>3, <2>1, ResolveContract DEF Contract!Next
  <2>2. CASE o \notin Readers
    <3>1. /\ \A r \in Readers : answer'[r] = answer[r] /\ got'[r] = got[r]
          /\ UNCHANGED <<sent, open>>
      BY <1>3, <2>2, ReadersAreOps DEF Resolve, peerVars, IInv, OpInv, TypeOK
    <3> QED
      BY <3>1 DEF OfReaders
  <2> QED
    BY <2>1, <2>2
<1>4. CASE UNCHANGED <<sent, open, answer, got>>
  BY <1>4 DEF OfReaders
<1>5. ASSUME NEW o \in Ops,
             FirstPoll(o) \/ Send(o) \/ Signal(o) \/ Poll(o) \/ DropFuture(o)
               \/ Device(o) \/ DeviceFails(o) \/ Completion(o)
      PROVE  UNCHANGED <<sent, open, answer, got>>
  BY <1>5 DEF FirstPoll, Send, Signal, Poll, DropFuture, Device, DeviceFails, DeviceDoes,
     Completion, peerVars, answerVars
<1>6. CASE WaitForSemaphore \/ RunClosure \/ UNCHANGED vars
  <2>1. UNCHANGED <<sent, open, answer, got>>
    BY <1>6 DEF WaitForSemaphore, RunClosure, vars, peerVars, answerVars
  <2> QED
    BY <1>4, <2>1
<1> QED
  BY <1>1, <1>2, <1>3, <1>4, <1>5, <1>6 DEF Next, WorkerStep

(* Read::all on Windows is answered once, Ok only with everything the peer   *)
(* wrote and only once the peer has closed, whatever the order of polls,     *)
(* completions and drops.                                                    *)
THEOREM ReadsKeepContract == Spec => KeepsReadContract
<1>1. Init => Contract!Init
  <2> SUFFICES ASSUME Init PROVE Contract!Init
    OBVIOUS
  <2>1. /\ OfReaders(sent) = [r \in Readers |-> 0] /\ OfReaders(open) = [r \in Readers |-> TRUE]
        /\ OfReaders(answer) = [r \in Readers |-> "none"] /\ OfReaders(got) = [r \in Readers |-> 0]
    BY ReadersAreOps DEF Init, ByOp, OfReaders
  <2> QED
    BY <2>1 DEF Contract!Init
<1>2. IInv /\ [Next]_vars => [Contract!Next]_(Contract!vars)
  BY StepContract
<1> QED
  BY <1>1, <1>2, Invariance, PTL DEF Spec, KeepsReadContract, Contract!Spec

-----------------------------------------------------------------------------
(* When nothing stalls.  A closure that was sent and has not run is in the   *)
(* channel, whether its future is still there or not.                        *)
Placed ==
    \A o \in Ops : parent[o] \notin {"unpolled", "sending"} /\ child[o] = "none"
        => \E i \in 1..Len(queue) : queue[i] = o

\* The steps of Spec that have fairness, by their guards; outside is the device,
\* or a peer that closes the pipe a read is waiting for.
HostCanStep(o) ==
    \/ parent[o] = "sending" /\ Len(queue) < ChanCap
    \/ parent[o] = "signalling"
    \/ parent[o] = "pending" /\ woken[o] /\ result[o] # "gone"
WorkerCanStep ==
    \/ worker = "waiting" /\ (permits > 0 \/ \E o \in Ops : io[o] \notin {"none", "outstanding"})
    \/ worker = "taking" /\ queue # <<>>
OutsideCanStep(o) ==
    /\ io[o] = "outstanding"
    /\ o \in Writers \/ taken[o] < sent[o] \/ Ended(o) \/ open[o]

\* As long as no signal was lost, an operation that was polled and has no
\* answer has somebody with a step to take.
NeverStalls ==
    unsignalled = 0 =>
        \A o \in Ops : parent[o] \in {"sending", "signalling", "pending"} =>
            WorkerCanStep \/ \E p \in Ops : HostCanStep(p) \/ OutsideCanStep(p)

(* A closure is placed by Send and leaves with RunClosure, which makes its   *)
(* child; no other step moves a future, a child or the channel so that one   *)
(* is missing.                                                               *)
LEMMA PlacedKept ==
    ASSUME TypeOK, Placed, UNCHANGED queue,
           \A o \in Ops : parent'[o] \notin {"unpolled", "sending"}
                => parent[o] \notin {"unpolled", "sending"},
           \A o \in Ops : child'[o] = "none" => child[o] = "none"
    PROVE  Placed'
BY DEF Placed

LEMMA StepPlaced == ASSUME IInv, Placed, [Next]_vars PROVE Placed'
<1>0. TypeOK
  BY DEF IInv, OpInv
<1>1. ASSUME NEW o \in Ops, FirstPoll(o) \/ Signal(o) \/ Poll(o) \/ Resolve(o) \/ DropFuture(o)
      PROVE  Placed'
  <2>1. UNCHANGED <<queue, child>>
    BY <1>1 DEF FirstPoll, Signal, Poll, Resolve, DropFuture, poolVars, ioVars
  <2>2. \A p \in Ops : parent'[p] \notin {"unpolled", "sending"}
            => parent[p] \notin {"unpolled", "sending"}
    BY <1>0, <1>1 DEF FirstPoll, Signal, Poll, Resolve, DropFuture, Moves, TypeOK
  <2> QED
    BY <1>0, <2>1, <2>2, PlacedKept
<1>2. ASSUME NEW o \in Ops, Send(o) PROVE Placed'
  <2>1. /\ queue' = Append(queue, o) /\ UNCHANGED child /\ queue \in Seq(Ops)
        /\ \A p \in Ops : p # o => parent'[p] = parent[p]
    BY <1>0, <1>2 DEF Send, Moves, ioVars, TypeOK
  <2>2. /\ Len(queue') = Len(queue) + 1 /\ Len(queue) \in Nat /\ queue'[Len(queue) + 1] = o
        /\ \A i \in 1..Len(queue) : queue'[i] = queue[i]
    BY <2>1
  <2>3. ASSUME NEW p \in Ops, parent'[p] \notin {"unpolled", "sending"}, child'[p] = "none"
        PROVE  \E i \in 1..Len(queue') : queue'[i] = p
    <3>1. CASE p = o
      BY <2>2, <3>1
    <3>2. CASE p # o
      <4>1. PICK i \in 1..Len(queue) : queue[i] = p
        BY <2>1, <2>3, <3>2 DEF Placed
      <4>2. i \in 1..Len(queue') /\ queue'[i] = p
        BY <2>2, <4>1
      <4> QED
        BY <4>2
    <3> QED
      BY <3>1, <3>2
  <2> QED
    BY <2>3 DEF Placed
<1>3. CASE RunClosure
  <2>1. /\ queue \in Seq(Ops) /\ queue # <<>> /\ queue' = Tail(queue) /\ UNCHANGED parent
        /\ Begin(Head(queue))
    BY <1>0, <1>3 DEF RunClosure, TypeOK
  <2>2. /\ Head(queue) \in Ops /\ Head(queue) = queue[1] /\ Len(queue) \in Nat \ {0}
        /\ Len(queue') = Len(queue) - 1
        /\ \A i \in 1..Len(queue') : queue'[i] = queue[i + 1]
    BY <2>1
  <2>3. PICK x \in {"boxed", "freed"} : child' = [child EXCEPT ![Head(queue)] = x]
    BY <2>1 DEF Begin, Issue, Ready
  <2>4. ASSUME NEW p \in Ops, parent'[p] \notin {"unpolled", "sending"}, child'[p] = "none"
        PROVE  \E i \in 1..Len(queue') : queue'[i] = p
    <3>1. p # Head(queue) /\ child[p] = "none"
      <4>1. /\ child'[Head(queue)] = x
            /\ \A q \in Ops : q # Head(queue) => child'[q] = child[q]
        BY <1>0, <2>2, <2>3 DEF TypeOK
      <4> QED
        BY <2>3, <2>4, <4>1
    <3>2. PICK i \in 1..Len(queue) : queue[i] = p
      BY <2>1, <2>4, <3>1 DEF Placed
    <3>3. i # 1 /\ i - 1 \in 1..Len(queue') /\ queue'[i - 1] = p
      BY <2>2, <3>1, <3>2
    <3> QED
      BY <3>3
  <2> QED
    BY <2>4 DEF Placed
<1>4. ASSUME NEW o \in Ops, Completion(o) PROVE Placed'
  <2>1. UNCHANGED <<parent, queue>> /\ (Begin(o) \/ \E r \in {"eof", "failed", "ok"} : Ready(o, r))
    BY <1>4 DEF Completion, ResumePiece, ResumeLast, poolVars
  <2>2. PICK x \in {"boxed", "freed"} : child' = [child EXCEPT ![o] = x]
    BY <2>1 DEF Begin, Issue, Ready
  <2>3. \A p \in Ops : child'[p] = "none" => child[p] = "none"
    BY <1>0, <2>2 DEF TypeOK
  <2> QED
    BY <1>0, <2>1, <2>3, PlacedKept
<1>5. CASE \/ WaitForSemaphore \/ UNCHANGED vars
           \/ \E o \in Ops : Device(o) \/ DeviceFails(o) \/ PeerSends(o) \/ PeerCloses(o)
  <2>1. UNCHANGED <<parent, queue, child>>
    BY <1>5 DEF WaitForSemaphore, Device, DeviceFails, DeviceDoes, PeerSends, PeerCloses,
                vars, hostVars, poolVars, ioVars
  <2> QED
    BY <1>0, <2>1, PlacedKept
<1> QED
  BY <1>1, <1>2, <1>3, <1>4, <1>5 DEF Next, WorkerStep

(* With every signal there, a closure in the channel gets its worker. *)
LEMMA ChannelServed ==
    ASSUME IInv, unsignalled = 0, queue # <<>>
    PROVE  WorkerCanStep \/ \E p \in Ops : HostCanStep(p)
<1>1. Len(queue) \in Nat \ {0} /\ permits \in Nat /\ worker \in {"waiting", "taking"}
  <2>1. queue \in Seq(Ops) /\ permits \in 0..SemMax /\ worker \in {"waiting", "taking"}
    BY DEF IInv, OpInv, TypeOK
  <2> QED
    BY <2>1, OverlappedAssumption
<1>2. CASE worker = "taking"
  BY <1>2 DEF WorkerCanStep
<1>3. CASE worker = "waiting" /\ permits > 0
  BY <1>3 DEF WorkerCanStep
<1>4. CASE worker = "waiting" /\ permits = 0
  <2>1. Cardinality(Signalling) # 0
    BY <1>1, <1>4, Account, SignallingFinite DEF IInv, OpInv
  <2>2. Signalling # {}
    BY <2>1, FS_EmptySet
  <2> QED
    BY <2>2 DEF Signalling, HostCanStep
<1> QED
  BY <1>1, <1>2, <1>3, <1>4

LEMMA PlacedNotStalled == IInv /\ Placed => NeverStalls
<1> SUFFICES ASSUME IInv, Placed, unsignalled = 0, NEW o \in Ops,
                    parent[o] \in {"sending", "signalling", "pending"}
             PROVE  WorkerCanStep \/ \E p \in Ops : HostCanStep(p) \/ OutsideCanStep(p)
  BY DEF NeverStalls
<1>0. /\ TypeOK /\ ChildOutlivesIo /\ WakerInv
      /\ queue \in Seq(Ops) /\ worker \in {"waiting", "taking"}
  BY DEF IInv, OpInv, TypeOK
<1>1. CASE queue # <<>>
  BY <1>1, ChannelServed
<1>2. CASE queue = <<>> /\ parent[o] \in {"sending", "signalling"}
  <2>1. Len(queue) < ChanCap
    BY <1>2, OverlappedAssumption
  <2> QED
    BY <1>2, <2>1 DEF HostCanStep
<1>3. CASE queue = <<>> /\ parent[o] = "pending" /\ result[o] # "pending"
  BY <1>0, <1>3 DEF WakerInv, HostCanStep
<1>4. CASE queue = <<>> /\ parent[o] = "pending" /\ result[o] = "pending"
  <2>1. child[o] # "none"
    BY <1>4 DEF Placed
  <2>2. io[o] \in {"outstanding", "piece", "eof", "written", "failed"}
    BY <1>0, <1>4, <2>1 DEF ChildOutlivesIo, TypeOK
  <2>3. worker = "waiting"
    <3>1. SUFFICES ASSUME worker = "taking" PROVE FALSE
      BY <1>0
    <3>2. Len(queue) = 0 /\ permits \in Nat
      BY <1>0, <1>4, OverlappedAssumption DEF TypeOK
    <3> QED
      BY <3>1, <3>2, Account, SignallingFinite DEF IInv, OpInv
  <2>4. CASE io[o] # "outstanding"
    BY <2>2, <2>3, <2>4 DEF WorkerCanStep
  <2>5. CASE io[o] = "outstanding"
    <3>1. CASE o \in Writers
      BY <2>5, <3>1 DEF OutsideCanStep
    <3>2. CASE o \in Readers
      <4>1. taken[o] \in Nat /\ sent[o] \in Nat /\ taken[o] <= sent[o] /\ open[o] \in BOOLEAN
        BY <1>0, <3>2 DEF TypeOK, IInv, BufferInv
      <4> QED
        BY <2>5, <3>2, <4>1 DEF OutsideCanStep, Ended
    <3> QED
      BY <3>1, <3>2 DEF Ops
  <2> QED
    BY <2>4, <2>5
<1> QED
  BY <1>1, <1>2, <1>3, <1>4

(* As long as ReleaseSemaphore (threadpool.rs:76) has not failed, nothing    *)
(* else can make an awaited operation stall: not the bounded channel, not a  *)
(* worker that waits for a closure while completion routines wait for it,    *)
(* not a result nobody is told of.                                           *)
THEOREM OnlyLostSignalsStall == Spec => []NeverStalls
<1>1. Init => Placed
  BY DEF Init, Placed, ByOp
<1>2. Spec => []Placed
  BY <1>1, StepPlaced, Invariance, PTL DEF Spec
<1> QED
  BY <1>2, PlacedNotStalled, Invariance, PTL
=============================================================================
