--------------------------- MODULE TpcTaskProofs ---------------------------
(***************************************************************************)
(* The try-lock of OurFuture keeps polls apart, the messages wakes turn    *)
(* into never let a wake get lost, the strong counts are exact and the     *)
(* contract of TaskContract is kept, for any number of workers, futures,   *)
(* clones and messages.                                                    *)
(***************************************************************************)
EXTENDS TpcTask, FiniteSetTheorems, FunctionTheorems, TLAPS

\* The type invariant without the counts.
CoreType ==
    /\ locked \in [Futures -> BOOLEAN]
    /\ phase \in [Futures -> {"absent", "pending", "ready", "aborted"}]
    /\ queue \in [0..1 -> Seq(Futures)]
    /\ pc \in [Workers -> {"idle", "try", "retry", "polling", "unlock", "drop", "dead"}]
    /\ held \in [Workers -> Futures \cup {NoFuture}]
    /\ \A w \in Workers : held[w] = NoFuture <=> pc[w] \in {"idle", "dead"}
    /\ woken \subseteq Futures

\* A worker inside a future's critical section.
Inside(w, f) == held[w] = f /\ pc[w] \in {"polling", "unlock"}

\* What the lock says: who is inside, or that a poll has panicked there.
LockInv ==
    /\ \A f \in Futures, v, w \in Workers : Inside(v, f) /\ Inside(w, f) => v = w
    /\ \A f \in Futures :
          locked[f] <=> (\E w \in Workers : Inside(w, f)) \/ phase[f] = "aborted"
    /\ \A f \in Futures, w \in Workers : Inside(w, f) => phase[f] # "aborted"

IInv == CoreType /\ LockInv /\ NoLostWake

-----------------------------------------------------------------------------
(* Sending a message keeps the queued ones and adds the new one. *)
LEMMA SendCarries ==
    ASSUME CoreType, NEW f \in Futures, NEW l \in 0..1, Send(f, l)
    PROVE  /\ queue' \in [0..1 -> Seq(Futures)]
           /\ Carries(l, f)'
           /\ \A k \in 0..1, g \in Futures : Carries(k, g) => Carries(k, g)'
<1>1. /\ queue'[l] = Append(queue[l], f) /\ queue[l] \in Seq(Futures)
      /\ \A k \in (0..1) \ {l} : queue'[k] = queue[k]
  BY DEF CoreType, Send
<1>2. /\ Len(queue'[l]) = Len(queue[l]) + 1 /\ Len(queue[l]) \in Nat
      /\ queue'[l][Len(queue[l]) + 1] = f
      /\ \A i \in 1..Len(queue[l]) : queue'[l][i] = queue[l][i]
      /\ DOMAIN queue'[l] = 1..(Len(queue[l]) + 1)
      /\ DOMAIN queue[l] = 1..Len(queue[l])
  BY <1>1
<1>3. queue' \in [0..1 -> Seq(Futures)]
  BY <1>1 DEF CoreType, Send
<1>4. Carries(l, f)'
  BY <1>2 DEF Carries
<1>5. ASSUME NEW k \in 0..1, NEW g \in Futures, Carries(k, g) PROVE Carries(k, g)'
  <2>1. CASE k = l
    BY <1>2, <1>5, <2>1 DEF Carries
  <2>2. CASE k # l
    BY <1>1, <1>5, <2>2 DEF Carries
  <2> QED
    BY <2>1, <2>2
<1> QED
  BY <1>3, <1>4, <1>5

(* Taking a message leaves every other one queued. *)
LEMMA TakeCarries ==
    ASSUME CoreType, NEW w \in Workers, NEW l \in 0..1, Take(w, l)
    PROVE  /\ queue' \in [0..1 -> Seq(Futures)]
           /\ Head(queue[l]) \in Futures
           /\ \A k \in 0..1, g \in Futures :
                 Carries(k, g) => Carries(k, g)' \/ g = Head(queue[l])
<1>1. /\ queue'[l] = Tail(queue[l]) /\ queue[l] \in Seq(Futures) /\ queue[l] # <<>>
      /\ \A k \in (0..1) \ {l} : queue'[k] = queue[k]
  BY DEF CoreType, Take
<1>2. /\ Head(queue[l]) \in Futures /\ Head(queue[l]) = queue[l][1]
      /\ Tail(queue[l]) \in Seq(Futures)
      /\ Len(queue[l]) \in Nat
      /\ DOMAIN queue[l] = 1..Len(queue[l])
      /\ DOMAIN queue'[l] = 1..(Len(queue[l]) - 1)
      /\ \A i \in 1..(Len(queue[l]) - 1) : queue'[l][i] = queue[l][i + 1]
  BY <1>1
<1>3. queue' \in [0..1 -> Seq(Futures)]
  BY <1>2 DEF CoreType, Take
<1>4. ASSUME NEW k \in 0..1, NEW g \in Futures, Carries(k, g), g # Head(queue[l])
      PROVE  Carries(k, g)'
  <2>1. CASE k = l
    <3>1. PICK i \in 1..Len(queue[l]) : queue[l][i] = g
      BY <1>2, <1>4, <2>1 DEF Carries
    <3>2. i # 1 /\ i - 1 \in 1..(Len(queue[l]) - 1) /\ (i - 1) + 1 = i
      BY <1>2, <1>4, <3>1
    <3>3. queue'[l][i - 1] = g
      BY <1>2, <3>1, <3>2
    <3> QED
      BY <1>2, <2>1, <3>2, <3>3 DEF Carries
  <2>2. CASE k # l
    BY <1>1, <1>4, <2>2 DEF Carries
  <2> QED
    BY <2>1, <2>2
<1> QED
  BY <1>2, <1>3, <1>4

(* Initially nothing is locked, queued or woken. *)
LEMMA InitIInv == Init => IInv
BY TaskAssumption DEF Init, IInv, CoreType, LockInv, Inside, NoLostWake

-----------------------------------------------------------------------------
(* The rest of the program only sends messages and moves counts. *)
LEMMA OutsideIInv ==
    ASSUME IInv, NEW f \in Futures,
           Spawn(f) \/ Wake(f) \/ WakeByRef(f) \/ DropClone(f)
    PROVE  IInv'
<1> USE DEF IInv
<1>1. CASE Spawn(f)
  <2>1. /\ queue' \in [0..1 -> Seq(Futures)] /\ Carries(1, f)'
        /\ \A k \in 0..1, g \in Futures : Carries(k, g) => Carries(k, g)'
    BY <1>1, SendCarries DEF Spawn
  <2>2. CoreType'
    BY <1>1, <2>1 DEF Spawn, CoreType
  <2>3. LockInv'
    BY <1>1 DEF Spawn, CoreType, LockInv, Inside
  <2>4. NoLostWake'
    BY <1>1, <2>1 DEF Spawn, CoreType, NoLostWake
  <2> QED
    BY <2>2, <2>3, <2>4
<1>2. CASE Wake(f) \/ WakeByRef(f)
  <2>1. Send(f, 0) /\ woken' = woken \cup {f} /\ UNCHANGED <<locked, phase, pc, held>>
    BY <1>2 DEF Wake, WakeByRef
  <2>2. /\ queue' \in [0..1 -> Seq(Futures)] /\ Carries(0, f)'
        /\ \A k \in 0..1, g \in Futures : Carries(k, g) => Carries(k, g)'
    BY <2>1, SendCarries
  <2>3. CoreType'
    BY <2>1, <2>2 DEF CoreType
  <2>4. LockInv'
    BY <2>1 DEF LockInv, Inside
  <2>5. NoLostWake'
    BY <2>1, <2>2 DEF CoreType, NoLostWake
  <2> QED
    BY <2>3, <2>4, <2>5
<1>3. CASE DropClone(f)
  BY <1>3 DEF DropClone, CoreType, LockInv, Inside, NoLostWake, Carries
<1> QED
  BY <1>1, <1>2, <1>3

(* A worker's steps, one by one. *)
LEMMA WorkerIInv ==
    ASSUME IInv, NEW w \in Workers, Clone(w) \/ WorkerStep(w)
    PROVE  IInv'
<1> USE DEF IInv
<1>1. CASE Clone(w)
  BY <1>1 DEF Clone, CoreType, LockInv, Inside, NoLostWake, Carries
<1>2. ASSUME NEW l \in 0..1, Take(w, l) PROVE IInv'
  <2>1. /\ queue' \in [0..1 -> Seq(Futures)] /\ Head(queue[l]) \in Futures
        /\ \A k \in 0..1, g \in Futures :
              Carries(k, g) => Carries(k, g)' \/ g = Head(queue[l])
    BY <1>2, TakeCarries
  <2>2. CoreType'
    BY <1>2, <2>1, TaskAssumption DEF Take, Go, CoreType
  <2>3. LockInv'
    BY <1>2 DEF Take, Go, CoreType, LockInv, Inside
  <2>4. NoLostWake'
    <3>1. ASSUME NEW f \in woken, ~ \E k \in 0..1 : Carries(k, f)'
          PROVE  \E v \in Workers : held'[v] = f /\ pc'[v] \in {"try", "retry"}
      <4>1. CASE \E k \in 0..1 : Carries(k, f)
        <5>1. f = Head(queue[l])
          BY <2>1, <3>1, <4>1 DEF CoreType
        <5> QED
          BY <1>2, <5>1 DEF Take, Go, CoreType
      <4>2. CASE \E v \in Workers : held[v] = f /\ pc[v] \in {"try", "retry"}
        BY <1>2, <4>2 DEF Take, Go, CoreType
      <4> QED
        BY <4>1, <4>2 DEF NoLostWake
    <3>2. woken' = woken
      BY <1>2 DEF Take
    <3> QED
      BY <3>1, <3>2 DEF NoLostWake
  <2> QED
    BY <2>2, <2>3, <2>4
<1>3. CASE TryLock(w)
  <2>1. held[w] \in Futures /\ pc[w] = "try" /\ UNCHANGED <<phase, queue, held>>
    BY <1>3 DEF TryLock, CoreType
  <2>2. CASE locked[held[w]]
    <3>1. pc' = [pc EXCEPT ![w] = "retry"] /\ UNCHANGED <<locked, woken>>
      BY <1>3, <2>2 DEF TryLock, Go
    <3>2. CoreType'
      BY <2>1, <3>1 DEF CoreType
    <3>3. LockInv'
      BY <2>1, <3>1 DEF CoreType, LockInv, Inside
    <3>4. NoLostWake'
      BY <2>1, <3>1 DEF CoreType, NoLostWake, Carries
    <3> QED
      BY <3>2, <3>3, <3>4
  <2>3. CASE ~locked[held[w]]
    <3>1. /\ pc' = [pc EXCEPT ![w] = "polling"]
          /\ locked' = [locked EXCEPT ![held[w]] = TRUE]
          /\ woken' = woken \ {held[w]}
      BY <1>3, <2>3 DEF TryLock, Go
    <3>2. CoreType'
      BY <2>1, <3>1 DEF CoreType
    <3>3. \A f \in Futures, v \in Workers :
             Inside(v, f)' <=> Inside(v, f) \/ (v = w /\ f = held[w])
      BY <2>1, <3>1 DEF CoreType, Inside
    <3>4. \A f \in Futures : locked'[f] = IF f = held[w] THEN TRUE ELSE locked[f]
      BY <2>1, <3>1 DEF CoreType
    <3>5. phase[held[w]] # "aborted" /\ \A v \in Workers : ~Inside(v, held[w])
      BY <2>1, <2>3 DEF LockInv
    <3>6. LockInv'
      <4>1. \A f \in Futures, u, v \in Workers : Inside(u, f)' /\ Inside(v, f)' => u = v
        BY <3>3, <3>5 DEF LockInv
      <4>2. ASSUME NEW f \in Futures
            PROVE  locked'[f] <=> (\E v \in Workers : Inside(v, f)') \/ phase'[f] = "aborted"
        <5>1. CASE f = held[w]
          BY <3>3, <3>4, <5>1
        <5>2. CASE f # held[w]
          BY <2>1, <3>3, <3>4, <5>2 DEF LockInv
        <5> QED
          BY <5>1, <5>2
      <4>3. \A f \in Futures, v \in Workers : Inside(v, f)' => phase'[f] # "aborted"
        BY <2>1, <3>3, <3>5 DEF LockInv
      <4> QED
        BY <4>1, <4>2, <4>3 DEF LockInv
    <3>7. NoLostWake'
      BY <2>1, <3>1 DEF CoreType, NoLostWake, Carries
    <3> QED
      BY <3>2, <3>6, <3>7
  <2> QED
    BY <2>2, <2>3
<1>4. CASE Retry(w)
  <2>1. held[w] \in Futures
    BY <1>4 DEF Retry, CoreType
  <2>2. /\ queue' \in [0..1 -> Seq(Futures)] /\ Carries(0, held[w])'
        /\ \A k \in 0..1, g \in Futures : Carries(k, g) => Carries(k, g)'
    BY <1>4, <2>1, SendCarries DEF Retry
  <2>3. CoreType'
    BY <1>4, <2>1, <2>2 DEF Retry, Go, CoreType
  <2>4. LockInv'
    BY <1>4 DEF Retry, Go, CoreType, LockInv, Inside
  <2>5. NoLostWake'
    <3>1. \A v \in Workers \ {w} : pc'[v] = pc[v]
      BY <1>4 DEF Retry, Go, CoreType
    <3>2. held' = held /\ woken' = woken /\ woken \subseteq Futures
      BY <1>4 DEF Retry, CoreType
    <3>3. ASSUME NEW f \in woken
          PROVE  \/ \E l \in 0..1 : Carries(l, f)'
                 \/ \E v \in Workers : held'[v] = f /\ pc'[v] \in {"try", "retry"}
      <4>1. CASE held[w] = f
        BY <2>2, <3>2, <4>1
      <4>2. CASE held[w] # f
        BY <2>2, <3>1, <3>2, <4>2 DEF NoLostWake
      <4> QED
        BY <4>1, <4>2
    <3> QED
      BY <3>2, <3>3 DEF NoLostWake
  <2> QED
    BY <2>3, <2>4, <2>5
<1>5. CASE PollReturns(w)
  <2>1. held[w] \in Futures
    BY <1>5 DEF PollReturns, CoreType
  <2>2. CoreType' /\ LockInv'
    <3>1. \A f \in Futures, v \in Workers : Inside(v, f)' <=> Inside(v, f)
      BY <1>5 DEF PollReturns, Go, CoreType, Inside
    <3>2. CoreType'
      <4>1. phase' \in [Futures -> {"absent", "pending", "ready", "aborted"}]
        BY <1>5, <2>1 DEF PollReturns, CoreType
      <4> QED
        BY <1>5, <4>1 DEF PollReturns, Go, CoreType
    <3>3. locked' = locked /\ \A f \in Futures : phase'[f] = "aborted" <=> phase[f] = "aborted"
      BY <1>5, <2>1 DEF PollReturns, CoreType
    <3> QED
      BY <3>1, <3>2, <3>3 DEF LockInv
  <2>3. NoLostWake'
    BY <1>5 DEF PollReturns, Go, CoreType, NoLostWake, Carries
  <2> QED
    BY <2>2, <2>3
<1>6. CASE PollPanics(w)
  <2>1. held[w] \in Futures
    BY <1>6 DEF PollPanics, CoreType
  <2>2. CoreType'
    BY <1>6, <2>1 DEF PollPanics, Go, CoreType
  <2>3. LockInv'
    BY <1>6, <2>1, TaskAssumption DEF PollPanics, Go, CoreType, LockInv, Inside
  <2>4. NoLostWake'
    BY <1>6 DEF PollPanics, Go, CoreType, NoLostWake, Carries
  <2> QED
    BY <2>2, <2>3, <2>4
<1>7. CASE Unlock(w)
  <2>1. held[w] \in Futures
    BY <1>7 DEF Unlock, CoreType
  <2>2. CoreType'
    BY <1>7, <2>1 DEF Unlock, Go, CoreType
  <2>3. LockInv'
    BY <1>7, <2>1 DEF Unlock, Go, CoreType, LockInv, Inside
  <2>4. NoLostWake'
    BY <1>7 DEF Unlock, Go, CoreType, NoLostWake, Carries
  <2> QED
    BY <2>2, <2>3, <2>4
<1>8. CASE DropWaker(w)
  <2>1. CoreType'
    BY <1>8 DEF DropWaker, Go, CoreType
  <2>2. LockInv'
    BY <1>8, TaskAssumption DEF DropWaker, Go, CoreType, LockInv, Inside
  <2>3. NoLostWake'
    <3>1. /\ pc[w] = "drop" /\ pc' = [pc EXCEPT ![w] = "idle"]
          /\ held' = [held EXCEPT ![w] = NoFuture] /\ UNCHANGED <<queue, woken>>
      BY <1>8 DEF DropWaker, Go
    <3>2. \A v \in Workers : pc[v] \in {"try", "retry"} => pc'[v] = pc[v] /\ held'[v] = held[v]
      BY <3>1 DEF CoreType
    <3>3. \A l \in 0..1, f \in Futures : Carries(l, f)' <=> Carries(l, f)
      BY <3>1 DEF Carries
    <3> QED
      BY <3>1, <3>2, <3>3 DEF NoLostWake, CoreType
  <2> QED
    BY <2>1, <2>2, <2>3
<1> QED
  BY <1>1, <1>2, <1>3, <1>4, <1>5, <1>6, <1>7, <1>8 DEF WorkerStep

(* Every step preserves the invariant. *)
LEMMA StepIInv == IInv /\ [Next]_vars => IInv'
<1>1. IInv /\ UNCHANGED vars => IInv'
  BY DEF vars, IInv, CoreType, LockInv, Inside, NoLostWake, Carries
<1> QED
  BY <1>1, OutsideIInv, WorkerIInv DEF Next

-----------------------------------------------------------------------------
(* The inductive invariant holds in every state of every behaviour. *)
THEOREM Invariance == Spec => []IInv
<1> QED
  BY InitIInv, StepIInv, PTL DEF Spec

(* Two workers are never inside one future, and its lock says whether one is *)
(* (bin.rs:105-121), for any number of workers and messages.                 *)
THEOREM PollsNeverOverlap == Spec => []PollsExclusive
<1>1. IInv => PollsExclusive
  BY DEF IInv, LockInv, Inside, PollsExclusive
<1> QED
  BY <1>1, Invariance, PTL

(* A wake no poll has answered is always carried by a message or by a worker *)
(* about to try the lock (bin.rs:114-118).                                   *)
THEOREM WakesNeverLost == Spec => []NoLostWake
<1>1. IInv => NoLostWake
  BY DEF IInv
<1> QED
  BY <1>1, Invariance, PTL

-----------------------------------------------------------------------------
(* The counts.  A future is counted from its spawn on only. *)
Unspawned == \A f \in Futures : phase[f] = "absent" => strong[f] = 0

RefIInv == IInv /\ RefInv /\ Unspawned

Holders(f) == {w \in Workers : held[w] = f}

(* The messages of a future in a queue, when one is sent or the first taken. *)
LEMMA CopiesNat ==
    ASSUME NEW q \in Seq(Futures), NEW f
    PROVE  /\ Copies(f, q) \in Nat /\ IsFiniteSet({i \in DOMAIN q : q[i] = f})
<1>1. {i \in DOMAIN q : q[i] = f} \subseteq 1..Len(q) /\ IsFiniteSet(1..Len(q))
  BY FS_Interval
<1>2. IsFiniteSet({i \in DOMAIN q : q[i] = f})
  BY <1>1, FS_Subset
<1> QED
  BY <1>2, FS_CardinalityType DEF Copies

LEMMA CopiesAppend ==
    ASSUME NEW q \in Seq(Futures), NEW x \in Futures, NEW f
    PROVE  Copies(f, Append(q, x)) = Copies(f, q) + (IF f = x THEN 1 ELSE 0)
<1> DEFINE n == Len(q) + 1
           P == {i \in DOMAIN q : q[i] = f}
           Q == {i \in DOMAIN Append(q, x) : Append(q, x)[i] = f}
<1>1. /\ DOMAIN Append(q, x) = 1..n /\ Append(q, x)[n] = x /\ DOMAIN q = 1..Len(q)
      /\ \A i \in 1..Len(q) : Append(q, x)[i] = q[i]
      /\ \A i \in 1..n : i \in 1..Len(q) \/ i = n
      /\ 1..Len(q) \subseteq 1..n /\ n \in 1..n /\ n \notin 1..Len(q)
  OBVIOUS
<1> HIDE DEF n
<1>2. IsFiniteSet(P) /\ Cardinality(P) \in Nat
  BY CopiesNat, FS_CardinalityType
<1>3. Copies(f, q) = Cardinality(P) /\ Copies(f, Append(q, x)) = Cardinality(Q)
  BY DEF Copies
<1>4. CASE f = x
  <2>1. Q = P \cup {n} /\ n \notin P
    BY <1>1, <1>4
  <2> HIDE DEF P, Q
  <2>2. Cardinality(Q) = Cardinality(P) + 1
    BY <1>2, <2>1, FS_AddElement
  <2> QED
    BY <1>3, <1>4, <2>2
<1>5. CASE f # x
  <2>1. Q = P
    BY <1>1, <1>5
  <2> HIDE DEF P, Q
  <2> QED
    BY <1>2, <1>3, <1>5, <2>1
<1> QED
  BY <1>4, <1>5

LEMMA CopiesTail ==
    ASSUME NEW q \in Seq(Futures), q # <<>>, NEW f
    PROVE  Copies(f, Tail(q)) = Copies(f, q) - (IF f = Head(q) THEN 1 ELSE 0)
<1> DEFINE All == {i \in DOMAIN q : q[i] = f}
           P == {i \in DOMAIN Tail(q) : Tail(q)[i] = f}
           Q == All \ {1}
           shift == [i \in P |-> i + 1]
<1>1. /\ DOMAIN Tail(q) = 1..(Len(q) - 1) /\ Head(q) = q[1] /\ DOMAIN q = 1..Len(q)
      /\ \A i \in 1..(Len(q) - 1) : Tail(q)[i] = q[i + 1]
      /\ Len(q) \in Nat /\ Len(q) >= 1 /\ Tail(q) \in Seq(Futures)
  OBVIOUS
<1>2. ASSUME NEW i \in P PROVE i \in Int /\ i + 1 \in Q
  <2>1. i \in 1..(Len(q) - 1) /\ Tail(q)[i] = f
    BY <1>1
  <2>2. i + 1 \in 1..Len(q) /\ i + 1 # 1 /\ q[i + 1] = f
    BY <1>1, <2>1
  <2> QED
    BY <1>1, <2>1, <2>2
<1>3. ASSUME NEW j \in Q PROVE j \in Int /\ j - 1 \in P
  <2>1. j \in 1..Len(q) /\ j # 1 /\ q[j] = f
    BY <1>1
  <2>2. j - 1 \in 1..(Len(q) - 1) /\ (j - 1) + 1 = j
    BY <1>1, <2>1
  <2>3. Tail(q)[j - 1] = f
    BY <1>1, <2>1, <2>2
  <2> QED
    BY <1>1, <2>1, <2>2, <2>3
<1>4. 1 \in All <=> f = Head(q)
  BY <1>1
<1>5. /\ IsFiniteSet(P) /\ IsFiniteSet(All) /\ Cardinality(All) \in Nat
      /\ Copies(f, q) = Cardinality(All) /\ Copies(f, Tail(q)) = Cardinality(P)
  BY <1>1, CopiesNat, FS_CardinalityType DEF Copies
<1>6. Cardinality(Q) = IF 1 \in All THEN Cardinality(All) - 1 ELSE Cardinality(All)
  BY <1>5, FS_RemoveElement
<1> HIDE DEF P, Q, All
<1>7. ExistsBijection(P, Q)
  <2>1. shift \in [P -> Q]
    BY <1>2
  <2>2. \A i, j \in P : shift[i] = shift[j] => i = j
    BY <1>2
  <2>3. ASSUME NEW j \in Q PROVE \E i \in P : shift[i] = j
    <3>1. j - 1 \in P /\ shift[j - 1] = j
      BY <1>3
    <3> QED
      BY <3>1
  <2>4. shift \in Bijection(P, Q)
    BY <2>1, <2>2, <2>3, Fun_IsBij
  <2> QED
    BY <2>4 DEF ExistsBijection
<1>8. Cardinality(P) = Cardinality(Q)
  BY <1>5, <1>7, FS_Bijection
<1> QED
  BY <1>4, <1>5, <1>6, <1>8

LEMMA MessagesNat ==
    ASSUME CoreType, NEW f
    PROVE  Copies(f, queue[0]) \in Nat /\ Copies(f, queue[1]) \in Nat /\ Messages(f) \in Nat
<1>1. queue[0] \in Seq(Futures) /\ queue[1] \in Seq(Futures)
  BY DEF CoreType
<1>2. Copies(f, queue[0]) \in Nat /\ Copies(f, queue[1]) \in Nat
  BY <1>1, CopiesNat
<1> QED
  BY <1>2 DEF Messages

LEMMA MessagesSent ==
    ASSUME CoreType, NEW f \in Futures, NEW l \in 0..1, Send(f, l), NEW g
    PROVE  Messages(g)' = Messages(g) + (IF g = f THEN 1 ELSE 0)
<1>1. /\ queue'[l] = Append(queue[l], f) /\ queue[l] \in Seq(Futures)
      /\ queue'[1 - l] = queue[1 - l] /\ l \in {0, 1}
  BY DEF CoreType, Send
<1>2. Copies(g, queue'[l]) = Copies(g, queue[l]) + (IF g = f THEN 1 ELSE 0)
  BY <1>1, CopiesAppend
<1>3. Messages(g)' = Copies(g, queue'[0]) + Copies(g, queue'[1])
  BY DEF Messages, Copies
<1>4. Copies(g, queue[0]) \in Nat /\ Copies(g, queue[1]) \in Nat
  BY MessagesNat
<1>5. CASE l = 0
  <2>1. /\ Copies(g, queue'[0]) = Copies(g, queue[0]) + (IF g = f THEN 1 ELSE 0)
        /\ queue'[1] = queue[1]
    <3>1. 1 - l = 1
      BY <1>5
    <3> QED
      BY <1>1, <1>2, <1>5, <3>1
  <2> QED
    BY <1>3, <1>4, <2>1 DEF Messages
<1>6. CASE l = 1
  <2>1. /\ Copies(g, queue'[1]) = Copies(g, queue[1]) + (IF g = f THEN 1 ELSE 0)
        /\ queue'[0] = queue[0]
    <3>1. 1 - l = 0
      BY <1>6
    <3> QED
      BY <1>1, <1>2, <1>6, <3>1
  <2> QED
    BY <1>3, <1>4, <2>1 DEF Messages
<1> QED
  BY <1>1, <1>5, <1>6

LEMMA MessagesTaken ==
    ASSUME CoreType, NEW w \in Workers, NEW l \in 0..1, Take(w, l), NEW g
    PROVE  Messages(g)' = Messages(g) - (IF g = Head(queue[l]) THEN 1 ELSE 0)
<1>1. /\ queue'[l] = Tail(queue[l]) /\ queue[l] \in Seq(Futures) /\ queue[l] # <<>>
      /\ queue'[1 - l] = queue[1 - l] /\ l \in {0, 1}
  BY DEF CoreType, Take
<1>2. Copies(g, queue'[l]) = Copies(g, queue[l]) - (IF g = Head(queue[l]) THEN 1 ELSE 0)
  BY <1>1, CopiesTail
<1>3. Messages(g)' = Copies(g, queue'[0]) + Copies(g, queue'[1])
  BY DEF Messages, Copies
<1>4. Copies(g, queue[0]) \in Nat /\ Copies(g, queue[1]) \in Nat
  BY MessagesNat
<1>5. CASE l = 0
  <2>1. /\ Copies(g, queue'[0]) = Copies(g, queue[0]) - (IF g = Head(queue[l]) THEN 1 ELSE 0)
        /\ queue'[1] = queue[1]
    BY <1>1, <1>2, <1>5
  <2> QED
    BY <1>3, <1>4, <2>1 DEF Messages
<1>6. CASE l = 1
  <2>1. /\ Copies(g, queue'[1]) = Copies(g, queue[1]) - (IF g = Head(queue[l]) THEN 1 ELSE 0)
        /\ queue'[0] = queue[0]
    BY <1>1, <1>2, <1>6
  <2> QED
    BY <1>3, <1>4, <2>1 DEF Messages
<1> QED
  BY <1>1, <1>5, <1>6

(* Sets of workers, when one joins or leaves. *)
LEMMA WorkersCounted ==
    ASSUME NEW S, S \subseteq Workers, NEW w
    PROVE  /\ Cardinality(S) \in Nat
           /\ w \notin S => Cardinality(S \cup {w}) = Cardinality(S) + 1
           /\ w \in S => Cardinality(S \ {w}) = Cardinality(S) - 1 /\ Cardinality(S) > 0
<1>1. IsFiniteSet(S) /\ Cardinality(S) \in Nat
  BY TaskAssumption, FS_Subset, FS_CardinalityType
<1>2. w \notin S => Cardinality(S \cup {w}) = Cardinality(S) + 1
  BY <1>1, FS_AddElement
<1>3. w \in S => Cardinality(S \ {w}) = Cardinality(S) - 1 /\ Cardinality(S) # 0
  BY <1>1, FS_RemoveElement, FS_EmptySet
<1> QED
  BY <1>1, <1>2, <1>3

-----------------------------------------------------------------------------
(* What owns a future, and that an owned one was spawned. *)
LEMMA Owners ==
    ASSUME RefIInv, NEW f \in Futures
    PROVE  /\ Messages(f) \in Nat /\ clones[f] \in Nat /\ clones[f] <= MaxClones
           /\ Cardinality(Holders(f)) \in Nat /\ strong[f] \in Nat
           /\ strong[f] = Messages(f) + clones[f] + Cardinality(Holders(f))
<1>1. Messages(f) \in Nat
  BY MessagesNat DEF RefIInv, IInv
<1>2. clones[f] \in Nat /\ clones[f] <= MaxClones /\ strong[f] \in Nat
  BY TaskAssumption DEF RefIInv, RefInv, TypeOK
<1>3. Cardinality(Holders(f)) \in Nat
  <2>1. Holders(f) \subseteq Workers
    BY DEF Holders
  <2> QED
    BY <2>1, WorkersCounted
<1> QED
  BY <1>1, <1>2, <1>3 DEF RefIInv, RefInv, RefExact, Holders

LEMMA OwnedIsSpawned ==
    ASSUME RefIInv, NEW f \in Futures, clones[f] > 0 \/ \E w \in Workers : held[w] = f
    PROVE  phase[f] # "absent" /\ strong[f] > 0
<1>1. strong[f] > 0
  <2>1. CASE clones[f] > 0
    BY <2>1, Owners
  <2>2. CASE \E w \in Workers : held[w] = f
    <3>1. PICK w \in Workers : held[w] = f
      BY <2>2
    <3>2. w \in Holders(f) /\ Holders(f) \subseteq Workers
      BY <3>1 DEF Holders
    <3>3. Cardinality(Holders(f)) > 0
      BY <3>2, WorkersCounted
    <3> QED
      BY <3>3, Owners
  <2> QED
    BY <2>1, <2>2
<1>2. strong[f] # 0
  BY <1>1, Owners
<1> QED
  BY <1>1, <1>2 DEF RefIInv, Unspawned

(* What is left to show of a step. *)
LEMMA RefStep ==
    ASSUME RefIInv, IInv', strong' \in [Futures -> Int], clones' \in [Futures -> 0..MaxClones],
           \A g \in Futures :
               strong'[g] = Messages(g)' + clones'[g] + Cardinality(Holders(g)'),
           \A g \in Futures : phase'[g] = "absent" => strong'[g] = 0
    PROVE  RefIInv'
<1>1. ASSUME NEW g \in Futures PROVE strong'[g] \in Nat
  <2>1. Messages(g)' \in Nat
    <3>1. queue'[0] \in Seq(Futures) /\ queue'[1] \in Seq(Futures)
      BY DEF IInv, CoreType
    <3>2. Copies(g, queue'[0]) \in Nat /\ Copies(g, queue'[1]) \in Nat
      BY <3>1, CopiesNat
    <3> QED
      BY <3>2 DEF Messages, Copies
  <2>2. clones'[g] \in Nat
    BY TaskAssumption
  <2>3. Cardinality(Holders(g)') \in Nat
    <3>1. Holders(g)' \subseteq Workers
      BY DEF Holders
    <3> QED
      BY <3>1, WorkersCounted
  <2> QED
    BY <2>1, <2>2, <2>3
<1>2. strong' \in [Futures -> Nat]
  BY <1>1
<1>3. TypeOK'
  BY <1>2 DEF IInv, CoreType, TypeOK
<1>4. RefExact'
  BY DEF RefExact, Holders
<1> QED
  BY <1>3, <1>4 DEF RefIInv, RefInv, Unspawned

(* The rest of the program: a message, a clone, or one for the other. *)
LEMMA OutsideRef ==
    ASSUME RefIInv, NEW f \in Futures,
           Spawn(f) \/ Wake(f) \/ WakeByRef(f) \/ DropClone(f)
    PROVE  RefIInv'
<1>0. IInv' /\ CoreType
  BY OutsideIInv DEF RefIInv, IInv
<1>1. UNCHANGED held /\ \A g \in Futures : Holders(g)' = Holders(g)
  BY DEF Spawn, Wake, WakeByRef, DropClone, Holders
<1>2. strong \in [Futures -> Int] /\ clones \in [Futures -> 0..MaxClones]
  BY DEF RefIInv, RefInv, TypeOK
<1>3. CASE Spawn(f)
  <2>1. /\ strong' = [strong EXCEPT ![f] = @ + 1] /\ clones' = clones /\ Send(f, 1)
        /\ phase' = [phase EXCEPT ![f] = "pending"]
    BY <1>3 DEF Spawn, Count
  <2>2. ASSUME NEW g \in Futures
        PROVE  strong'[g] = Messages(g)' + clones'[g] + Cardinality(Holders(g)')
    <3>1. Messages(g)' = Messages(g) + (IF g = f THEN 1 ELSE 0)
      BY <1>0, <2>1, MessagesSent
    <3>2. strong'[g] = strong[g] + (IF g = f THEN 1 ELSE 0)
      BY <1>2, <2>1, Owners
    <3> QED
      BY <1>1, <2>1, <3>1, <3>2, Owners
  <2>3. strong' \in [Futures -> Int]
    BY <1>2, <2>1
  <2>4. \A g \in Futures : phase'[g] = "absent" => strong'[g] = 0
    BY <1>0, <1>2, <2>1 DEF CoreType, RefIInv, Unspawned
  <2> QED
    BY <1>0, <1>2, <2>1, <2>2, <2>3, <2>4, RefStep
<1>4. CASE Wake(f)
  <2>1. /\ clones[f] > 0 /\ strong' = strong /\ clones' = [clones EXCEPT ![f] = @ - 1]
        /\ Send(f, 0) /\ phase' = phase
    BY <1>4 DEF Wake
  <2>2. ASSUME NEW g \in Futures
        PROVE  strong'[g] = Messages(g)' + clones'[g] + Cardinality(Holders(g)')
    <3>1. Messages(g)' = Messages(g) + (IF g = f THEN 1 ELSE 0)
      BY <1>0, <2>1, MessagesSent
    <3>2. clones'[g] = clones[g] - (IF g = f THEN 1 ELSE 0)
      BY <1>2, <2>1, Owners
    <3> QED
      BY <1>1, <2>1, <3>1, <3>2, Owners
  <2>3. clones' \in [Futures -> 0..MaxClones]
    <3>1. clones[f] - 1 \in 0..MaxClones
      BY <2>1, Owners, TaskAssumption
    <3> QED
      BY <1>2, <2>1, <3>1
  <2>4. \A g \in Futures : phase'[g] = "absent" => strong'[g] = 0
    BY <2>1 DEF RefIInv, Unspawned
  <2> QED
    BY <1>0, <1>2, <2>1, <2>2, <2>3, <2>4, RefStep
<1>5. CASE WakeByRef(f)
  <2>1. /\ strong' = [strong EXCEPT ![f] = @ + 1] /\ clones' = clones
        /\ Send(f, 0) /\ phase' = phase
        /\ clones[f] > 0 \/ \E w \in Workers : held[w] = f
    BY <1>5 DEF WakeByRef, Count
  <2>2. ASSUME NEW g \in Futures
        PROVE  strong'[g] = Messages(g)' + clones'[g] + Cardinality(Holders(g)')
    <3>1. Messages(g)' = Messages(g) + (IF g = f THEN 1 ELSE 0)
      BY <1>0, <2>1, MessagesSent
    <3>2. strong'[g] = strong[g] + (IF g = f THEN 1 ELSE 0)
      BY <1>2, <2>1, Owners
    <3> QED
      BY <1>1, <2>1, <3>1, <3>2, Owners
  <2>3. strong' \in [Futures -> Int]
    BY <1>2, <2>1
  <2>4. \A g \in Futures : phase'[g] = "absent" => strong'[g] = 0
    <3>1. phase[f] # "absent"
      BY <2>1, OwnedIsSpawned
    <3> QED
      BY <1>2, <2>1, <3>1 DEF RefIInv, Unspawned
  <2> QED
    BY <1>0, <1>2, <2>1, <2>2, <2>3, <2>4, RefStep
<1>6. CASE DropClone(f)
  <2>1. /\ strong' = [strong EXCEPT ![f] = @ + -1] /\ clones' = [clones EXCEPT ![f] = @ - 1]
        /\ queue' = queue /\ phase' = phase /\ clones[f] > 0
    BY <1>6 DEF DropClone, Count
  <2>2. ASSUME NEW g \in Futures
        PROVE  strong'[g] = Messages(g)' + clones'[g] + Cardinality(Holders(g)')
    <3>1. Messages(g)' = Messages(g)
      BY <2>1 DEF Messages, Copies
    <3>2. strong'[g] = strong[g] - (IF g = f THEN 1 ELSE 0)
      BY <1>2, <2>1, Owners
    <3>3. clones'[g] = clones[g] - (IF g = f THEN 1 ELSE 0)
      BY <1>2, <2>1, Owners
    <3> QED
      BY <1>1, <3>1, <3>2, <3>3, Owners
  <2>3. strong' \in [Futures -> Int]
    BY <1>2, <2>1
  <2>4. clones' \in [Futures -> 0..MaxClones]
    <3>1. clones[f] - 1 \in 0..MaxClones
      BY <2>1, Owners, TaskAssumption
    <3> QED
      BY <1>2, <2>1, <3>1
  <2>5. \A g \in Futures : phase'[g] = "absent" => strong'[g] = 0
    <3>1. phase[f] # "absent"
      BY <2>1, OwnedIsSpawned
    <3> QED
      BY <1>2, <2>1, <3>1 DEF RefIInv, Unspawned
  <2> QED
    BY <1>0, <2>1, <2>2, <2>3, <2>4, <2>5, RefStep
<1> QED
  BY <1>3, <1>4, <1>5, <1>6

(* A worker's steps: a message becomes its waker, and its waker goes. *)
LEMMA WorkerRef ==
    ASSUME RefIInv, NEW w \in Workers, Clone(w) \/ WorkerStep(w)
    PROVE  RefIInv'
<1>0. IInv' /\ CoreType
  BY WorkerIInv DEF RefIInv, IInv
<1>1. strong \in [Futures -> Int] /\ clones \in [Futures -> 0..MaxClones]
  BY DEF RefIInv, RefInv, TypeOK
<1>2. CASE Clone(w)
  <2>0. held[w] \in Futures /\ clones[held[w]] < MaxClones
    BY <1>0, <1>2 DEF Clone, CoreType
  <2>1. PICK f \in Futures : held[w] = f /\ clones[f] < MaxClones
    BY <2>0
  <2>2. /\ strong' = [strong EXCEPT ![f] = @ + 1] /\ clones' = [clones EXCEPT ![f] = @ + 1]
        /\ queue' = queue /\ phase' = phase /\ held' = held
    BY <1>2, <2>1 DEF Clone, Count
  <2>3. ASSUME NEW g \in Futures
        PROVE  strong'[g] = Messages(g)' + clones'[g] + Cardinality(Holders(g)')
    <3>1. Messages(g)' = Messages(g) /\ Holders(g)' = Holders(g)
      BY <2>2 DEF Messages, Copies, Holders
    <3>2. strong'[g] = strong[g] + (IF g = f THEN 1 ELSE 0)
      BY <1>1, <2>2, Owners
    <3>3. clones'[g] = clones[g] + (IF g = f THEN 1 ELSE 0)
      BY <1>1, <2>2, Owners
    <3> QED
      BY <3>1, <3>2, <3>3, Owners
  <2>4. strong' \in [Futures -> Int]
    BY <1>1, <2>2
  <2>5. clones' \in [Futures -> 0..MaxClones]
    <3>1. clones[f] + 1 \in 0..MaxClones
      BY <2>1, Owners, TaskAssumption
    <3> QED
      BY <1>1, <2>2, <3>1
  <2>6. \A g \in Futures : phase'[g] = "absent" => strong'[g] = 0
    <3>1. phase[f] # "absent"
      BY <2>1, OwnedIsSpawned
    <3> QED
      BY <1>1, <2>2, <3>1 DEF RefIInv, Unspawned
  <2> QED
    BY <1>0, <2>3, <2>4, <2>5, <2>6, RefStep
<1>3. ASSUME NEW l \in 0..1, Take(w, l) PROVE RefIInv'
  <2>1. PICK f \in Futures : f = Head(queue[l])
    BY <1>0, <1>3, TakeCarries
  <2>2. /\ held[w] = NoFuture /\ held' = [held EXCEPT ![w] = f]
        /\ UNCHANGED <<strong, clones, phase>>
    BY <1>0, <1>3, <2>1 DEF Take, CoreType
  <2>3. ASSUME NEW g \in Futures
        PROVE  strong'[g] = Messages(g)' + clones'[g] + Cardinality(Holders(g)')
    <3>1. Messages(g)' = Messages(g) - (IF g = f THEN 1 ELSE 0)
      BY <1>0, <1>3, <2>1, MessagesTaken
    <3>2. Cardinality(Holders(g)') = Cardinality(Holders(g)) + (IF g = f THEN 1 ELSE 0)
      <4>1. Holders(g) \subseteq Workers /\ w \notin Holders(g)
        BY <2>2, TaskAssumption DEF Holders
      <4>2. Holders(g)' = IF g = f THEN Holders(g) \cup {w} ELSE Holders(g)
        BY <1>0, <2>2, TaskAssumption DEF Holders, CoreType
      <4> QED
        BY <4>1, <4>2, WorkersCounted
    <3> QED
      BY <2>2, <3>1, <3>2, Owners
  <2>4. \A g \in Futures : phase'[g] = "absent" => strong'[g] = 0
    BY <2>2 DEF RefIInv, Unspawned
  <2> QED
    BY <1>0, <1>1, <2>2, <2>3, <2>4, RefStep
<1>4. CASE TryLock(w) \/ PollReturns(w) \/ Unlock(w)
  <2>1. UNCHANGED <<strong, clones, queue, held>>
    BY <1>4 DEF TryLock, PollReturns, Unlock
  <2>2. \A g \in Futures : phase'[g] = "absent" => phase[g] = "absent"
    BY <1>0, <1>4 DEF TryLock, PollReturns, Unlock, CoreType
  <2>3. \A g \in Futures : Messages(g)' = Messages(g) /\ Holders(g)' = Holders(g)
    BY <2>1 DEF Messages, Copies, Holders
  <2>4. \A g \in Futures :
            strong'[g] = Messages(g)' + clones'[g] + Cardinality(Holders(g)')
    BY <2>1, <2>3, Owners
  <2>5. \A g \in Futures : phase'[g] = "absent" => strong'[g] = 0
    BY <2>1, <2>2 DEF RefIInv, Unspawned
  <2> QED
    BY <1>0, <1>1, <2>1, <2>4, <2>5, RefStep
<1>5. CASE Retry(w)
  <2>1. PICK f \in Futures : held[w] = f
    BY <1>0, <1>5 DEF Retry, CoreType
  <2>2. /\ strong' = [strong EXCEPT ![f] = @ + 1] /\ Send(f, 0)
        /\ UNCHANGED <<clones, phase, held>>
    BY <1>5, <2>1 DEF Retry, Count
  <2>3. ASSUME NEW g \in Futures
        PROVE  strong'[g] = Messages(g)' + clones'[g] + Cardinality(Holders(g)')
    <3>1. Messages(g)' = Messages(g) + (IF g = f THEN 1 ELSE 0)
      BY <1>0, <2>2, MessagesSent
    <3>2. strong'[g] = strong[g] + (IF g = f THEN 1 ELSE 0)
      BY <1>1, <2>2, Owners
    <3>3. Holders(g)' = Holders(g)
      BY <2>2 DEF Holders
    <3> QED
      BY <2>2, <3>1, <3>2, <3>3, Owners
  <2>4. strong' \in [Futures -> Int]
    BY <1>1, <2>2
  <2>5. \A g \in Futures : phase'[g] = "absent" => strong'[g] = 0
    <3>1. phase[f] # "absent"
      BY <2>1, OwnedIsSpawned
    <3> QED
      BY <1>1, <2>2, <3>1 DEF RefIInv, Unspawned
  <2> QED
    BY <1>0, <1>1, <2>2, <2>3, <2>4, <2>5, RefStep
<1>6. CASE PollPanics(w) \/ DropWaker(w)
  <2>1. PICK f \in Futures : held[w] = f
    BY <1>0, <1>6 DEF PollPanics, DropWaker, CoreType
  <2>2. /\ strong' = [strong EXCEPT ![f] = @ + -1] /\ held' = [held EXCEPT ![w] = NoFuture]
        /\ UNCHANGED <<clones, queue>>
    BY <1>6, <2>1 DEF PollPanics, DropWaker, Count
  <2>3. \A g \in Futures : phase'[g] = "absent" => phase[g] = "absent"
    BY <1>0, <1>6 DEF PollPanics, DropWaker, CoreType
  <2>4. ASSUME NEW g \in Futures
        PROVE  strong'[g] = Messages(g)' + clones'[g] + Cardinality(Holders(g)')
    <3>1. Messages(g)' = Messages(g)
      BY <2>2 DEF Messages, Copies
    <3>2. strong'[g] = strong[g] - (IF g = f THEN 1 ELSE 0)
      BY <1>1, <2>2, Owners
    <3>3. Cardinality(Holders(g)') = Cardinality(Holders(g)) - (IF g = f THEN 1 ELSE 0)
      <4>1. Holders(g) \subseteq Workers /\ (w \in Holders(g) <=> g = f)
        BY <2>1 DEF Holders
      <4>2. Holders(g)' = IF g = f THEN Holders(g) \ {w} ELSE Holders(g)
        <5>1. \A v \in Workers : held'[v] = IF v = w THEN NoFuture ELSE held[v]
          BY <1>0, <2>2 DEF CoreType
        <5>2. Holders(g)' = Holders(g) \ {w}
          BY <5>1, TaskAssumption DEF Holders
        <5> QED
          BY <4>1, <5>2
      <4>3. CASE g = f
        BY <4>1, <4>2, <4>3, WorkersCounted
      <4>4. CASE g # f
        BY <4>2, <4>4, Owners
      <4> QED
        BY <4>3, <4>4
    <3> QED
      BY <2>2, <3>1, <3>2, <3>3, Owners
  <2>5. strong' \in [Futures -> Int]
    BY <1>1, <2>2
  <2>6. \A g \in Futures : phase'[g] = "absent" => strong'[g] = 0
    <3>1. phase[f] # "absent"
      BY <2>1, OwnedIsSpawned
    <3> QED
      BY <1>1, <2>2, <2>3, <3>1 DEF RefIInv, Unspawned
  <2> QED
    BY <1>0, <1>1, <2>2, <2>4, <2>5, <2>6, RefStep
<1> QED
  BY <1>2, <1>3, <1>4, <1>5, <1>6 DEF WorkerStep

(* Nothing is counted before the first spawn. *)
LEMMA InitRef == Init => RefIInv
<1> SUFFICES ASSUME Init PROVE RefIInv
  OBVIOUS
<1>1. IInv
  BY InitIInv
<1>2. TypeOK /\ Unspawned
  BY <1>1, TaskAssumption DEF Init, IInv, CoreType, TypeOK, Unspawned
<1>3. ASSUME NEW f \in Futures
      PROVE  strong[f] = Messages(f) + clones[f] + Cardinality({w \in Workers : held[w] = f})
  <2>1. Messages(f) = 0
    <3>1. queue[0] = <<>> /\ queue[1] = <<>>
      BY DEF Init
    <3>2. Copies(f, <<>>) = 0
      <4>1. {i \in DOMAIN <<>> : <<>>[i] = f} = {}
        OBVIOUS
      <4> QED
        BY <4>1, FS_EmptySet DEF Copies
    <3> QED
      BY <3>1, <3>2 DEF Messages
  <2>2. {w \in Workers : held[w] = f} = {}
    BY TaskAssumption DEF Init
  <2>3. Cardinality({w \in Workers : held[w] = f}) = 0
    BY <2>2, FS_EmptySet
  <2>4. strong[f] = 0 /\ clones[f] = 0
    BY DEF Init
  <2> QED
    BY <2>1, <2>3, <2>4
<1> QED
  BY <1>1, <1>2, <1>3 DEF RefIInv, RefInv, RefExact

LEMMA StepRef == RefIInv /\ [Next]_vars => RefIInv'
<1> SUFFICES ASSUME RefIInv, [Next]_vars PROVE RefIInv'
  OBVIOUS
<1>1. CASE UNCHANGED vars
  <2>1. IInv'
    BY StepIInv DEF RefIInv
  <2>2. UNCHANGED <<strong, clones, phase, queue, held>>
    BY <1>1 DEF vars
  <2>3. \A g \in Futures : Messages(g)' = Messages(g) /\ Holders(g)' = Holders(g)
    BY <2>2 DEF Messages, Copies, Holders
  <2>4. \A g \in Futures :
            strong'[g] = Messages(g)' + clones'[g] + Cardinality(Holders(g)')
    BY <2>2, <2>3, Owners
  <2>5. \A g \in Futures : phase'[g] = "absent" => strong'[g] = 0
    BY <2>2 DEF RefIInv, Unspawned
  <2>6. strong' \in [Futures -> Int] /\ clones' \in [Futures -> 0..MaxClones]
    BY <2>2 DEF RefIInv, RefInv, TypeOK
  <2> QED
    BY <2>1, <2>4, <2>5, <2>6, RefStep
<1> QED
  BY <1>1, OutsideRef, WorkerRef DEF Next

(* The invariant with the counts holds in every state of every behaviour. *)
THEOREM RefInvariance == Spec => []RefIInv
BY InitRef, StepRef, PTL DEF Spec

(* The strong count of a future is exactly its messages, the wakers of      *)
(* workers and the clones of the rest of the program (bin.rs:123-160): it   *)
(* is neither freed under one of them nor leaked.                           *)
THEOREM ReferencesCounted == Spec => []RefInv
<1>1. RefIInv => RefInv
  BY DEF RefIInv
<1> QED
  BY <1>1, RefInvariance, PTL

-----------------------------------------------------------------------------
(* What the contract sees of one future. *)
LEMMA Seen ==
    ASSUME NEW f
    PROVE  /\ phase[f] = "pending" => PhaseOf(f) = IF Polled(f) THEN "running" ELSE "waiting"
           /\ phase[f] = "ready" => PhaseOf(f) = IF Polled(f) THEN "aborted" ELSE "done"
           /\ phase[f] \notin {"pending", "ready"} => PhaseOf(f) = phase[f]
  BY DEF PhaseOf

LEMMA SeenNext ==
    ASSUME NEW f
    PROVE  /\ phase'[f] = "pending" => PhaseOf(f)' = IF Polled(f)' THEN "running" ELSE "waiting"
           /\ phase'[f] = "ready" => PhaseOf(f)' = IF Polled(f)' THEN "aborted" ELSE "done"
           /\ phase'[f] \notin {"pending", "ready"} => PhaseOf(f)' = phase'[f]
  BY DEF PhaseOf

(* A step that changes what the contract sees of one future only. *)
LEMMA ContractStep ==
    ASSUME NEW f \in Futures,
           \A g \in Futures : g # f => PhaseOf(g)' = PhaseOf(g) /\ WakesOf(g)' = WakesOf(g),
           \/ PhaseOf(f) = "absent"  /\ PhaseOf(f)' = "waiting"  /\ WakesOf(f)' = WakesOf(f) + 1
           \/ PhaseOf(f) # "absent"  /\ PhaseOf(f)' = PhaseOf(f) /\ WakesOf(f)' = WakesOf(f) + 1
           \/ PhaseOf(f) = "waiting" /\ PhaseOf(f)' = "running"  /\ WakesOf(f)' \in 0..(WakesOf(f) - 1)
           \/ PhaseOf(f) = "running" /\ PhaseOf(f)' = "waiting"  /\ WakesOf(f)' = WakesOf(f)
           \/ PhaseOf(f) = "running" /\ PhaseOf(f)' = "done"     /\ WakesOf(f)' = WakesOf(f)
           \/ PhaseOf(f) = "done"    /\ PhaseOf(f)' = "aborted"  /\ WakesOf(f)' \in 0..(WakesOf(f) - 1)
    PROVE  Contract!Next
<1>0. /\ AbstractPhase = [g \in Futures |-> PhaseOf(g)] /\ AbstractPhase' = [g \in Futures |-> PhaseOf(g)']
      /\ AbstractWakes = [g \in Futures |-> WakesOf(g)] /\ AbstractWakes' = [g \in Futures |-> WakesOf(g)']
  BY DEF AbstractPhase, AbstractWakes
<1>1. AbstractPhase' = [AbstractPhase EXCEPT ![f] = PhaseOf(f)'] /\ AbstractPhase[f] = PhaseOf(f)
  BY <1>0
<1>2. AbstractWakes' = [AbstractWakes EXCEPT ![f] = WakesOf(f)'] /\ AbstractWakes[f] = WakesOf(f)
  BY <1>0
<1>3. PhaseOf(f)' = PhaseOf(f) => AbstractPhase' = AbstractPhase
  BY <1>0
<1>4. WakesOf(f)' = WakesOf(f) => AbstractWakes' = AbstractWakes
  BY <1>0
<1>5. \/ Contract!Spawn(f) \/ Contract!Wake(f) \/ Contract!Start(f) \/ Contract!Pend(f)
      \/ Contract!Complete(f) \/ Contract!Repoll(f)
  BY <1>1, <1>2, <1>3, <1>4
  DEF Contract!Spawn, Contract!Wake, Contract!Start, Contract!Pend, Contract!Complete,
      Contract!Repoll, Contract!Move, Contract!Woken, Contract!Spend
<1> QED
  BY <1>5 DEF Contract!Next

(* A step that changes nothing the contract sees. *)
LEMMA ContractStutters ==
    ASSUME \A g \in Futures : PhaseOf(g)' = PhaseOf(g) /\ WakesOf(g)' = WakesOf(g)
    PROVE  UNCHANGED Contract!vars
<1>0. /\ AbstractPhase = [g \in Futures |-> PhaseOf(g)] /\ AbstractPhase' = [g \in Futures |-> PhaseOf(g)']
      /\ AbstractWakes = [g \in Futures |-> WakesOf(g)] /\ AbstractWakes' = [g \in Futures |-> WakesOf(g)']
  BY DEF AbstractPhase, AbstractWakes
<1>1. AbstractPhase' = AbstractPhase /\ AbstractWakes' = AbstractWakes
  BY <1>0
<1> QED
  BY <1>1 DEF Contract!vars

LEMMA TryingNat ==
    ASSUME NEW f PROVE Trying(f) \subseteq Workers /\ Cardinality(Trying(f)) \in Nat
<1>1. Trying(f) \subseteq Workers
  BY DEF Trying
<1> QED
  BY <1>1, WorkersCounted

(* The rest of the program spawns, wakes, or does nothing to the contract. *)
LEMMA OutsideContract ==
    ASSUME RefIInv, NEW f \in Futures,
           Spawn(f) \/ Wake(f) \/ WakeByRef(f) \/ DropClone(f)
    PROVE  [Contract!Next]_(Contract!vars)
<1>0. CoreType /\ CoreType'
  BY OutsideIInv DEF RefIInv, IInv
<1>1. /\ UNCHANGED <<pc, held>>
      /\ \A g \in Futures : (Polled(g)' <=> Polled(g)) /\ Trying(g)' = Trying(g)
  BY DEF Spawn, Wake, WakeByRef, DropClone, Polled, Trying
<1>2. \A g \in Futures : phase'[g] = phase[g] => PhaseOf(g)' = PhaseOf(g)
  BY <1>1 DEF PhaseOf
<1>3. ASSUME NEW l \in 0..1, Send(f, l), NEW g \in Futures
      PROVE  WakesOf(g)' = IF g = f THEN WakesOf(g) + 1 ELSE WakesOf(g)
  <2>1. Messages(g)' = Messages(g) + (IF g = f THEN 1 ELSE 0)
    BY <1>0, <1>3, MessagesSent
  <2>2. Messages(g) \in Nat /\ Cardinality(Trying(g)) \in Nat
    BY <1>0, MessagesNat, TryingNat
  <2>3. WakesOf(g)' = Messages(g)' + Cardinality(Trying(g))
    BY <1>1 DEF WakesOf
  <2> QED
    BY <2>1, <2>2, <2>3 DEF WakesOf
<1>4. CASE Spawn(f)
  <2>1. Send(f, 1) /\ phase[f] = "absent" /\ phase' = [phase EXCEPT ![f] = "pending"]
    BY <1>4 DEF Spawn
  <2>2. ~Polled(f)
    BY <2>1, OwnedIsSpawned DEF Polled
  <2>3. PhaseOf(f) = "absent" /\ PhaseOf(f)' = "waiting"
    BY <1>0, <1>1, <2>1, <2>2 DEF PhaseOf, CoreType
  <2>4. \A g \in Futures : g # f => PhaseOf(g)' = PhaseOf(g)
    BY <1>0, <1>2, <2>1 DEF CoreType
  <2>5. \A g \in Futures : WakesOf(g)' = IF g = f THEN WakesOf(g) + 1 ELSE WakesOf(g)
    BY <1>3, <2>1
  <2> QED
    BY <1>0, <2>3, <2>4, <2>5, ContractStep
<1>5. CASE Wake(f) \/ WakeByRef(f)
  <2>1. /\ Send(f, 0) /\ phase' = phase
        /\ clones[f] > 0 \/ \E w \in Workers : held[w] = f
    BY <1>5 DEF Wake, WakeByRef
  <2>2. PhaseOf(f) # "absent"
    <3>1. phase[f] # "absent"
      BY <2>1, OwnedIsSpawned
    <3> QED
      BY <3>1 DEF PhaseOf
  <2>3. \A g \in Futures : PhaseOf(g)' = PhaseOf(g)
    BY <1>2, <2>1
  <2>4. \A g \in Futures : WakesOf(g)' = IF g = f THEN WakesOf(g) + 1 ELSE WakesOf(g)
    BY <1>3, <2>1
  <2> QED
    BY <1>0, <2>2, <2>3, <2>4, ContractStep
<1>6. CASE DropClone(f)
  <2>1. queue' = queue /\ phase' = phase
    BY <1>6 DEF DropClone
  <2>2. \A g \in Futures : PhaseOf(g)' = PhaseOf(g) /\ WakesOf(g)' = WakesOf(g)
    BY <1>1, <1>2, <2>1 DEF WakesOf, Messages, Copies
  <2> QED
    BY <1>0, <2>2, ContractStutters
<1> QED
  BY <1>4, <1>5, <1>6
(* What no step of another future, and none off the two places that count,  *)
(* changes in what the contract sees.                                       *)
LEMMA SeenUnmoved ==
    ASSUME NEW g, phase'[g] = phase[g], Polled(g)' <=> Polled(g)
    PROVE  PhaseOf(g)' = PhaseOf(g)
  BY DEF PhaseOf

(* A worker's step starts or ends a poll, polls a completed future, or is   *)
(* hidden from the contract.                                                *)
LEMMA WorkerContract ==
    ASSUME RefIInv, NEW w \in Workers, Clone(w) \/ WorkerStep(w)
    PROVE  [Contract!Next]_(Contract!vars)
<1>0. CoreType /\ CoreType' /\ LockInv
  BY WorkerIInv DEF RefIInv, IInv
<1>1. \A g \in Futures : Messages(g) \in Nat /\ Cardinality(Trying(g)) \in Nat
  BY <1>0, MessagesNat, TryingNat
<1>2. CASE Clone(w)
  <2>1. UNCHANGED <<phase, queue, pc, held>>
    BY <1>2 DEF Clone
  <2>2. \A g \in Futures : (Polled(g)' <=> Polled(g)) /\ Trying(g)' = Trying(g) /\ Messages(g)' = Messages(g)
    BY <2>1 DEF Polled, Trying, Messages, Copies
  <2>3. \A g \in Futures : PhaseOf(g)' = PhaseOf(g) /\ WakesOf(g)' = WakesOf(g)
    BY <2>1, <2>2, SeenUnmoved DEF WakesOf
  <2> QED
    BY <2>3, ContractStutters
<1>3. ASSUME NEW l \in 0..1, Take(w, l) PROVE [Contract!Next]_(Contract!vars)
  <2>1. PICK h \in Futures : h = Head(queue[l])
    BY <1>0, <1>3, TakeCarries
  <2>2. /\ pc[w] = "idle" /\ pc' = [pc EXCEPT ![w] = "try"]
        /\ held[w] = NoFuture /\ held' = [held EXCEPT ![w] = h] /\ phase' = phase
    BY <1>0, <1>3, <2>1 DEF Take, Go, CoreType
  <2>3. \A g \in Futures : Polled(g)' <=> Polled(g)
    BY <1>0, <2>2 DEF Polled, CoreType
  <2>4. \A g \in Futures : g # h => Trying(g)' = Trying(g)
    BY <1>0, <2>2, TaskAssumption DEF Trying, CoreType
  <2>5. Trying(h)' = Trying(h) \cup {w} /\ w \notin Trying(h)
    BY <1>0, <2>2, TaskAssumption DEF Trying, CoreType
  <2>6. Cardinality(Trying(h)') = Cardinality(Trying(h)) + 1
    BY <2>5, TryingNat, WorkersCounted
  <2>7. \A g \in Futures : Messages(g)' = Messages(g) - (IF g = h THEN 1 ELSE 0)
    BY <1>0, <1>3, <2>1, MessagesTaken
  <2>8. ASSUME NEW g \in Futures PROVE WakesOf(g)' = WakesOf(g)
    <3>1. CASE g = h
      BY <1>1, <2>6, <2>7, <3>1 DEF WakesOf
    <3>2. CASE g # h
      BY <1>1, <2>4, <2>7, <3>2 DEF WakesOf
    <3> QED
      BY <3>1, <3>2
  <2>9. \A g \in Futures : PhaseOf(g)' = PhaseOf(g)
    BY <2>2, <2>3, SeenUnmoved
  <2> QED
    BY <2>8, <2>9, ContractStutters
<1>4. CASE TryLock(w)
  <2>1. PICK f \in Futures : f = held[w]
    BY <1>0, <1>4 DEF TryLock, CoreType
  <2>2. pc[w] = "try" /\ UNCHANGED <<phase, queue, held>>
    BY <1>4 DEF TryLock
  <2>3. \A g \in Futures : Messages(g)' = Messages(g)
    BY <2>2 DEF Messages, Copies
  <2>4. CASE locked[f]
    <3>1. pc' = [pc EXCEPT ![w] = "retry"]
      BY <1>4, <2>1, <2>4 DEF TryLock, Go
    <3>2. \A g \in Futures : (Polled(g)' <=> Polled(g)) /\ Trying(g)' = Trying(g)
      BY <1>0, <2>2, <3>1 DEF Polled, Trying, CoreType
    <3>3. \A g \in Futures : PhaseOf(g)' = PhaseOf(g) /\ WakesOf(g)' = WakesOf(g)
      BY <2>2, <2>3, <3>2, SeenUnmoved DEF WakesOf
    <3> QED
      BY <3>3, ContractStutters
  <2>5. CASE ~locked[f]
    <3>1. pc' = [pc EXCEPT ![w] = "polling"]
      BY <1>4, <2>1, <2>5 DEF TryLock, Go
    <3>2. ~Polled(f) /\ phase[f] # "aborted"
      BY <1>0, <2>5 DEF LockInv, Inside, Polled
    <3>3. Polled(f)'
      BY <1>0, <2>1, <2>2, <3>1 DEF Polled, CoreType
    <3>4. phase[f] \in {"pending", "ready"}
      BY <1>0, <2>1, <3>2, OwnedIsSpawned DEF CoreType
    <3>5. \A g \in Futures : g # f => (Polled(g)' <=> Polled(g)) /\ Trying(g)' = Trying(g)
      BY <1>0, <2>1, <2>2, <3>1 DEF Polled, Trying, CoreType
    <3>6. Trying(f)' = Trying(f) \ {w} /\ w \in Trying(f)
      BY <1>0, <2>1, <2>2, <3>1 DEF Trying, CoreType
    <3>7. Cardinality(Trying(f)') = Cardinality(Trying(f)) - 1 /\ Cardinality(Trying(f)) > 0
      BY <3>6, TryingNat, WorkersCounted
    <3>8. WakesOf(f)' = WakesOf(f) - 1 /\ WakesOf(f) - 1 \in 0..(WakesOf(f) - 1)
      BY <1>1, <2>3, <3>7 DEF WakesOf
    <3>9. \A g \in Futures : g # f => PhaseOf(g)' = PhaseOf(g) /\ WakesOf(g)' = WakesOf(g)
      BY <2>2, <2>3, <3>5, SeenUnmoved DEF WakesOf
    <3>10. CASE phase[f] = "pending"
      <4>1. PhaseOf(f) = "waiting" /\ PhaseOf(f)' = "running"
        BY <2>2, <3>2, <3>3, <3>10, Seen, SeenNext
      <4> QED
        BY <3>8, <3>9, <4>1, ContractStep
    <3>11. CASE phase[f] = "ready"
      <4>1. PhaseOf(f) = "done" /\ PhaseOf(f)' = "aborted"
        BY <2>2, <3>2, <3>3, <3>11, Seen, SeenNext
      <4> QED
        BY <3>8, <3>9, <4>1, ContractStep
    <3> QED
      BY <3>4, <3>10, <3>11
  <2> QED
    BY <2>4, <2>5
<1>5. CASE Retry(w)
  <2>1. PICK f \in Futures : f = held[w]
    BY <1>0, <1>5 DEF Retry, CoreType
  <2>2. /\ pc[w] = "retry" /\ pc' = [pc EXCEPT ![w] = "drop"]
        /\ Send(f, 0) /\ UNCHANGED <<phase, held>>
    BY <1>5, <2>1 DEF Retry, Go
  <2>3. \A g \in Futures : Polled(g)' <=> Polled(g)
    BY <1>0, <2>2 DEF Polled, CoreType
  <2>4. \A g \in Futures : g # f => Trying(g)' = Trying(g)
    BY <1>0, <2>1, <2>2 DEF Trying, CoreType
  <2>5. Trying(f)' = Trying(f) \ {w} /\ w \in Trying(f)
    BY <1>0, <2>1, <2>2 DEF Trying, CoreType
  <2>6. Cardinality(Trying(f)') = Cardinality(Trying(f)) - 1
    BY <2>5, TryingNat, WorkersCounted
  <2>7. \A g \in Futures : Messages(g)' = Messages(g) + (IF g = f THEN 1 ELSE 0)
    BY <1>0, <2>2, MessagesSent
  <2>8. ASSUME NEW g \in Futures PROVE WakesOf(g)' = WakesOf(g)
    <3>1. CASE g = f
      BY <1>1, <2>6, <2>7, <3>1 DEF WakesOf
    <3>2. CASE g # f
      BY <1>1, <2>4, <2>7, <3>2 DEF WakesOf
    <3> QED
      BY <3>1, <3>2
  <2>9. \A g \in Futures : PhaseOf(g)' = PhaseOf(g)
    BY <2>2, <2>3, SeenUnmoved
  <2> QED
    BY <2>8, <2>9, ContractStutters
<1>6. CASE PollReturns(w)
  <2>1. PICK f \in Futures : f = held[w]
    BY <1>0, <1>6 DEF PollReturns, CoreType
  <2>2. /\ pc[w] = "polling" /\ pc' = [pc EXCEPT ![w] = "unlock"] /\ phase[f] = "pending"
        /\ phase' = phase \/ phase' = [phase EXCEPT ![f] = "ready"]
        /\ UNCHANGED <<queue, held>>
    BY <1>6, <2>1 DEF PollReturns, Go
  <2>3. Polled(f)
    BY <2>1, <2>2 DEF Polled
  <2>4. ~Polled(f)'
    <3>1. \A v \in Workers : held[v] = f /\ pc[v] = "polling" => v = w
      BY <1>0, <2>1, <2>2 DEF LockInv, Inside
    <3> QED
      BY <1>0, <2>2, <3>1 DEF Polled, CoreType
  <2>5. \A g \in Futures :
            Trying(g)' = Trying(g) /\ Messages(g)' = Messages(g) /\ WakesOf(g)' = WakesOf(g)
    <3>1. \A g \in Futures : Trying(g)' = Trying(g)
      BY <1>0, <2>2 DEF Trying, CoreType
    <3>2. \A g \in Futures : Messages(g)' = Messages(g)
      BY <2>2 DEF Messages, Copies
    <3> QED
      BY <3>1, <3>2 DEF WakesOf
  <2>6. \A g \in Futures : g # f => (Polled(g)' <=> Polled(g)) /\ phase'[g] = phase[g]
    BY <1>0, <2>1, <2>2 DEF Polled, CoreType
  <2>7. \A g \in Futures : g # f => PhaseOf(g)' = PhaseOf(g)
    BY <2>6, SeenUnmoved
  <2>8. PhaseOf(f) = "running"
    BY <2>2, <2>3, Seen
  <2>9. PhaseOf(f)' = "waiting" \/ PhaseOf(f)' = "done"
    <3>1. phase'[f] = "pending" \/ phase'[f] = "ready"
      BY <1>0, <2>2 DEF CoreType
    <3> QED
      BY <2>4, <3>1, SeenNext
  <2> QED
    BY <2>5, <2>7, <2>8, <2>9, ContractStep
<1>7. CASE PollPanics(w)
  <2>1. PICK f \in Futures : f = held[w]
    BY <1>0, <1>7 DEF PollPanics, CoreType
  <2>2. /\ pc[w] = "polling" /\ pc' = [pc EXCEPT ![w] = "dead"] /\ phase[f] = "ready"
        /\ phase' = [phase EXCEPT ![f] = "aborted"] /\ held' = [held EXCEPT ![w] = NoFuture]
        /\ queue' = queue
    BY <1>7, <2>1 DEF PollPanics, Go
  <2>3. \A g \in Futures :
            Trying(g)' = Trying(g) /\ Messages(g)' = Messages(g) /\ WakesOf(g)' = WakesOf(g)
    <3>1. \A g \in Futures : Trying(g)' = Trying(g)
      BY <1>0, <2>2, TaskAssumption DEF Trying, CoreType
    <3>2. \A g \in Futures : Messages(g)' = Messages(g)
      BY <2>2 DEF Messages, Copies
    <3> QED
      BY <3>1, <3>2 DEF WakesOf
  <2>4. \A g \in Futures : g # f => (Polled(g)' <=> Polled(g)) /\ phase'[g] = phase[g]
    BY <1>0, <2>1, <2>2 DEF Polled, CoreType
  <2>5. \A g \in Futures : g # f => PhaseOf(g)' = PhaseOf(g)
    BY <2>4, SeenUnmoved
  <2>6. PhaseOf(f) = "aborted"
    <3>1. Polled(f)
      BY <2>1, <2>2 DEF Polled
    <3> QED
      BY <2>2, <3>1, Seen
  <2>7. PhaseOf(f)' = "aborted"
    <3>1. phase'[f] = "aborted"
      BY <1>0, <2>2 DEF CoreType
    <3> QED
      BY <3>1, SeenNext
  <2> QED
    BY <2>3, <2>5, <2>6, <2>7, ContractStutters
<1>8. CASE Unlock(w) \/ DropWaker(w)
  <2>1. /\ pc[w] \in {"unlock", "drop"} /\ UNCHANGED <<phase, queue>>
        /\ pc' = [pc EXCEPT ![w] = "drop"] \/ pc' = [pc EXCEPT ![w] = "idle"]
        /\ held' = held \/ held' = [held EXCEPT ![w] = NoFuture]
    BY <1>8 DEF Unlock, DropWaker, Go
  <2>2. \A g \in Futures : (Polled(g)' <=> Polled(g)) /\ Trying(g)' = Trying(g)
    BY <1>0, <2>1 DEF Polled, Trying, CoreType
  <2>3. \A g \in Futures : PhaseOf(g)' = PhaseOf(g) /\ WakesOf(g)' = WakesOf(g)
    BY <2>1, <2>2, SeenUnmoved DEF WakesOf, Messages, Copies
  <2> QED
    BY <2>3, ContractStutters
<1> QED
  BY <1>2, <1>3, <1>4, <1>5, <1>6, <1>7, <1>8 DEF WorkerStep

LEMMA InitContract == Init => Contract!Init
<1> SUFFICES ASSUME Init PROVE Contract!Init
  OBVIOUS
<1>1. \A f \in Futures : PhaseOf(f) = "absent"
  BY Seen DEF Init
<1>2. ASSUME NEW f \in Futures PROVE WakesOf(f) = 0
  <2>1. Trying(f) = {} /\ {i \in DOMAIN queue[0] : queue[0][i] = f} = {}
        /\ {i \in DOMAIN queue[1] : queue[1][i] = f} = {}
    BY DEF Init, Trying
  <2>2. Cardinality({}) = 0
    BY FS_EmptySet
  <2> QED
    BY <2>1, <2>2 DEF WakesOf, Messages, Copies
<1> QED
  BY <1>1, <1>2 DEF Contract!Init, AbstractPhase, AbstractWakes

LEMMA StepContract == RefIInv /\ [Next]_vars => [Contract!Next]_(Contract!vars)
<1> SUFFICES ASSUME RefIInv, [Next]_vars PROVE [Contract!Next]_(Contract!vars)
  OBVIOUS
<1>1. CASE UNCHANGED vars
  <2>1. UNCHANGED <<phase, queue, pc, held>>
    BY <1>1 DEF vars
  <2>2. \A g \in Futures : (Polled(g)' <=> Polled(g)) /\ Trying(g)' = Trying(g)
    BY <2>1 DEF Polled, Trying
  <2>3. \A g \in Futures : PhaseOf(g)' = PhaseOf(g) /\ WakesOf(g)' = WakesOf(g)
    BY <2>1, <2>2, SeenUnmoved DEF WakesOf, Messages, Copies
  <2> QED
    BY <2>3, ContractStutters
<1> QED
  BY <1>1, OutsideContract, WorkerContract DEF Next

(* tpc's workers poll a future as TaskContract says (bin.rs:87-117): polls  *)
(* of one future never overlap, each answers a wake, and a wake is spent by *)
(* a poll that starts after it, or by the abort of a completed future.      *)
THEOREM ContractKept == Spec => KeepsContract
  BY InitContract, StepContract, RefInvariance, PTL DEF Spec, KeepsContract, Contract!Spec
-----------------------------------------------------------------------------
(* A future with a count of zero has no clone, no message and no waker. *)
LEMMA FreedIsUnowned ==
    RefIInv => \A f \in Futures : strong[f] = 0 =>
        /\ clones[f] = 0
        /\ \A l \in 0..1 : ~Carries(l, f)
        /\ \A w \in Workers : held[w] # f
<1> SUFFICES ASSUME RefIInv, NEW f \in Futures, strong[f] = 0
             PROVE  /\ clones[f] = 0
                    /\ \A l \in 0..1 : ~Carries(l, f)
                    /\ \A w \in Workers : held[w] # f
  OBVIOUS
<1>1. CoreType
  BY DEF RefIInv, IInv
<1>2. Messages(f) = 0 /\ clones[f] = 0 /\ Cardinality(Holders(f)) = 0
  <2> DEFINE m == Messages(f)
             h == Cardinality(Holders(f))
             c == clones[f]
  <2>1. m \in Nat /\ c \in Nat /\ h \in Nat /\ m + c + h = 0
    BY Owners
  <2> HIDE DEF m, h, c
  <2>2. m = 0 /\ c = 0 /\ h = 0
    BY <2>1
  <2> QED
    BY <2>2 DEF m, h, c
<1>3. ASSUME NEW l \in 0..1 PROVE ~Carries(l, f)
  <2>1. Copies(f, queue[0]) = 0 /\ Copies(f, queue[1]) = 0
    BY <1>1, <1>2, MessagesNat DEF Messages
  <2>2. Copies(f, queue[l]) = 0 /\ queue[l] \in Seq(Futures)
    <3>1. l = 0 \/ l = 1
      OBVIOUS
    <3> QED
      BY <1>1, <2>1, <3>1 DEF CoreType
  <2> DEFINE S == {i \in DOMAIN queue[l] : queue[l][i] = f}
  <2>3. IsFiniteSet(S)
    BY <2>2, CopiesNat
  <2>4. Cardinality(S) = 0
    BY <2>2 DEF Copies
  <2>5. S = {}
    BY <2>3, <2>4, FS_EmptySet
  <2> QED
    BY <2>5 DEF Carries
<1>4. Holders(f) = {}
  <2>1. Holders(f) \subseteq Workers
    BY DEF Holders
  <2>2. IsFiniteSet(Holders(f))
    BY <2>1, TaskAssumption, FS_Subset
  <2> QED
    BY <1>2, <2>2, FS_EmptySet
<1> QED
  BY <1>2, <1>3, <1>4 DEF Holders

(* Every step that touches a future has a clone, a waker or a message of it, *)
(* or makes it.                                                             *)
LEMMA FreedUntouched ==
    ASSUME RefIInv, [Next]_vars, NEW f \in Futures, Freed(f)
    PROVE  /\ strong'[f] = 0 /\ locked'[f] = locked[f]
           /\ phase'[f] = phase[f] /\ clones'[f] = clones[f]
<1>0. /\ strong[f] = 0 /\ phase[f] # "absent" /\ clones[f] = 0
      /\ \A w \in Workers : held[w] # f
  BY FreedIsUnowned DEF Freed
<1>1. /\ strong \in [Futures -> Nat] /\ clones \in [Futures -> 0..MaxClones]
      /\ locked \in [Futures -> BOOLEAN]
      /\ phase \in [Futures -> {"absent", "pending", "ready", "aborted"}]
      /\ ~(clones[f] > 0)
  BY <1>0 DEF RefIInv, RefInv, TypeOK
<1>2. CASE UNCHANGED vars
  BY <1>0, <1>2 DEF vars
<1>3. ASSUME NEW g \in Futures, Spawn(g) \/ Wake(g) \/ WakeByRef(g) \/ DropClone(g)
      PROVE  /\ strong'[f] = 0 /\ locked'[f] = locked[f]
             /\ phase'[f] = phase[f] /\ clones'[f] = clones[f]
  <2>1. g # f
    BY <1>0, <1>1, <1>3 DEF Spawn, Wake, WakeByRef, DropClone
  <2> QED
    BY <1>0, <1>1, <1>3, <2>1 DEF Spawn, Wake, WakeByRef, DropClone, Count
<1>4. ASSUME NEW w \in Workers, Clone(w) \/ WorkerStep(w)
      PROVE  /\ strong'[f] = 0 /\ locked'[f] = locked[f]
             /\ phase'[f] = phase[f] /\ clones'[f] = clones[f]
  <2>1. held[w] # f
    BY <1>0
  <2>2. CASE Clone(w) \/ (\E l \in 0..1 : Take(w, l)) \/ Retry(w)
    BY <1>0, <1>1, <2>1, <2>2 DEF Clone, Take, Retry, Count
  <2>3. CASE TryLock(w)
    BY <1>0, <1>1, <2>1, <2>3 DEF TryLock
  <2>4. CASE PollReturns(w) \/ PollPanics(w)
    BY <1>0, <1>1, <2>1, <2>4 DEF PollReturns, PollPanics, Count
  <2>5. CASE Unlock(w) \/ DropWaker(w)
    BY <1>0, <1>1, <2>1, <2>5 DEF Unlock, DropWaker, Count
  <2> QED
    BY <1>4, <2>2, <2>3, <2>4, <2>5 DEF WorkerStep
<1> QED
  BY <1>2, <1>3, <1>4 DEF Next

(* A future that has been freed is never touched again (bin.rs:123-160): no *)
(* late wake, retry or drop of a clone finds its Arc gone.                  *)
THEOREM NeverUsedAfterFree == Spec => NoUseAfterFree
<1> DEFINE Body == \A f \in Futures : Freed(f) =>
                      /\ strong'[f] = 0 /\ locked'[f] = locked[f]
                      /\ phase'[f] = phase[f] /\ clones'[f] = clones[f]
                      /\ \A l \in 0..1 : ~Carries(l, f)'
                      /\ \A w \in Workers : held'[w] # f
<1> DEFINE Unowned == \A f \in Futures : strong[f] = 0 =>
                         /\ \A l \in 0..1 : ~Carries(l, f)
                         /\ \A w \in Workers : held[w] # f
<1>1. RefIInv => Unowned
  BY FreedIsUnowned
<1> HIDE DEF Unowned
<1>2. RefIInv' => Unowned'
  BY <1>1, PTL
<1>3. RefIInv /\ RefIInv' /\ [Next]_vars => Body
  BY <1>2, FreedUntouched DEF Unowned
<1>4. RefIInv /\ RefIInv' /\ [Next]_vars => [Body]_vars
  BY <1>3
<1> QED
  BY <1>4, RefInvariance, PTL DEF Spec, NoUseAfterFree
-----------------------------------------------------------------------------
(* A worker has a step to take: the guards of WorkerStep. *)
CanStep(w) ==
    \/ pc[w] = "idle" /\ \E l \in 0..1 : queue[l] # <<>>
    \/ pc[w] \in {"try", "retry", "unlock", "drop"}
    \/ pc[w] = "polling" /\ phase[held[w]] \in {"pending", "ready"}

(* While a wake is unanswered some worker can move, or all of them have     *)
(* died.                                                                    *)
NeverStuck == woken # {} => AllDead \/ \E w \in Workers : CanStep(w)

(* The workers never block one another with a wake unanswered (bin.rs:114): *)
(* a lock that is taken is held by a worker that goes on, and a message is  *)
(* there for the others.  What fairness adds is only that somebody does.    *)
THEOREM WorkersNeverStuck == Spec => []NeverStuck
<1>1. RefIInv => NeverStuck
  <2> SUFFICES ASSUME RefIInv, NEW f \in woken, NEW w \in Workers, pc[w] # "dead"
               PROVE  \E v \in Workers : CanStep(v)
    BY DEF NeverStuck, AllDead
  <2>1. CoreType /\ LockInv /\ NoLostWake
    BY DEF RefIInv, IInv
  <2>2. CASE pc[w] = "polling"
    <3>1. held[w] \in Futures /\ phase[held[w]] \in {"absent", "pending", "ready", "aborted"}
      BY <2>1, <2>2 DEF CoreType
    <3>2. phase[held[w]] # "aborted"
      BY <2>1, <2>2, <3>1 DEF LockInv, Inside
    <3>3. phase[held[w]] # "absent"
      BY <3>1, OwnedIsSpawned
    <3> QED
      BY <2>2, <3>1, <3>2, <3>3 DEF CanStep
  <2>3. CASE pc[w] = "idle"
    <3>1. CASE \E l \in 0..1 : Carries(l, f)
      <4>1. PICK l \in 0..1 : Carries(l, f)
        BY <3>1
      <4>2. queue[l] # <<>>
        BY <4>1 DEF Carries
      <4> QED
        BY <2>3, <4>2 DEF CanStep
    <3>2. CASE \E v \in Workers : held[v] = f /\ pc[v] \in {"try", "retry"}
      BY <3>2 DEF CanStep
    <3> QED
      BY <2>1, <3>1, <3>2 DEF NoLostWake
  <2>4. CASE pc[w] \in {"try", "retry", "unlock", "drop"}
    BY <2>4 DEF CanStep
  <2> QED
    BY <2>1, <2>2, <2>3, <2>4 DEF CoreType
<1> QED
  BY <1>1, RefInvariance, PTL
=============================================================================
