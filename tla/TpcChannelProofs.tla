-------------------------- MODULE TpcChannelProofs --------------------------
(***************************************************************************)
(* No receive of TpcChannel panics, for any finite set of threads, any     *)
(* messages and any capacity.  The inductive invariant is the permit       *)
(* accounting of TpcChannel: each action moves one thread in or out of at  *)
(* most two of the counted sets, and changes one counter to match.         *)
(***************************************************************************)
EXTENDS TpcChannel, FiniteSetTheorems, TLAPS

\* Until its scan starts, a receiver is working on level 0.
PreferredFirst ==
    \A t \in Threads : pc[t] \in {"try_preferred", "restore", "wait"} => at[t] = 0

IInv == TypeOK /\ PermitsAccounted /\ PreferredFirst /\ NoReceivePanic

-----------------------------------------------------------------------------
(* A thread that joins a counted set makes it one larger. *)
LEMMA Joins ==
    ASSUME NEW S, NEW R, NEW t, IsFiniteSet(S), t \notin S, R = S \cup {t}
    PROVE  Cardinality(R) = Cardinality(S) + 1 /\ Cardinality(S) \in Nat
BY FS_AddElement, FS_CardinalityType

(* A thread that leaves a counted set makes it one smaller. *)
LEMMA Leaves ==
    ASSUME NEW S, NEW R, NEW t, IsFiniteSet(S), t \in S, R = S \ {t}
    PROVE  /\ Cardinality(R) = Cardinality(S) - 1
           /\ Cardinality(S) \in Nat \ {0}
<1>1. Cardinality(S) \in Nat
  BY FS_CardinalityType
<1>2. Cardinality(S) # 0
  BY FS_EmptySet
<1> QED
  BY <1>1, <1>2, FS_RemoveElement

(* The counted sets are finite, and a late scanner is a holder. *)
LEMMA CountedSets ==
    /\ \A l \in Levels : IsFiniteSet(Claims(l)) /\ Cardinality(Claims(l)) \in Nat
    /\ IsFiniteSet(Holders) /\ Cardinality(Holders) \in Nat
    /\ IsFiniteSet(LateScanners) /\ Cardinality(LateScanners) \in Nat
    /\ Cardinality(LateScanners) <= Cardinality(Holders)
<1>1. IsFiniteSet(Threads)
  BY ChannelAssumption, FS_Union DEF Threads
<1>2. /\ \A l \in Levels : Claims(l) \subseteq Threads
      /\ Holders \subseteq Threads
      /\ LateScanners \subseteq Holders
  BY DEF Claims, Holders, LateScanners
<1>3. IsFiniteSet(Holders) /\ IsFiniteSet(LateScanners)
  BY <1>1, <1>2, FS_Subset
<1>4. Cardinality(LateScanners) <= Cardinality(Holders)
  BY <1>2, <1>3, FS_Subset
<1> QED
  BY <1>1, <1>2, <1>3, <1>4, FS_Subset, FS_CardinalityType

-----------------------------------------------------------------------------
(* Every state the channel starts in satisfies the invariant. *)
LEMMA InitIInv == Init => IInv
<1> SUFFICES ASSUME Init PROVE IInv
  OBVIOUS
<1>1. TypeOK /\ PreferredFirst /\ NoReceivePanic
  BY DEF Init, TypeOK, PreferredFirst, NoReceivePanic, Levels
<1>2. (\A l \in Levels : Claims(l) = {}) /\ Holders = {} /\ LateScanners = {}
  BY DEF Init, Claims, Holders, LateScanners
<1>3. PermitsAccounted
  <2>1. Cardinality({}) = 0
    BY FS_EmptySet
  <2>2. /\ \A l \in Levels : Len(queue[l]) = 0 /\ local[l] = 0
        /\ global = 0 /\ local[0] = 0 /\ local[1] = 0
    BY DEF Init, Levels
  <2> QED
    <3>1. ASSUME NEW l \in Levels PROVE Len(queue[l]) = local[l] + Cardinality(Claims(l))
      <4>1. Claims(l) = {} /\ Len(queue[l]) = 0 /\ local[l] = 0
        BY <1>2, <2>2
      <4>2. Cardinality(Claims(l)) = 0
        BY <2>1, <4>1
      <4> QED
        BY <4>1, <4>2
    <3>2. Cardinality(Holders) = 0 /\ Cardinality(LateScanners) = 0
      BY <1>2, <2>1
    <3> QED
      BY <2>2, <3>1, <3>2 DEF PermitsAccounted
<1> QED
  BY <1>1, <1>3 DEF IInv

(* Every step of the channel keeps its variables in their types, and a     *)
(* receiver on level 0 until its scan.                                     *)
LEMMA TypeStep == TypeOK /\ PreferredFirst /\ [Next]_vars => TypeOK' /\ PreferredFirst'
<1> SUFFICES ASSUME TypeOK, PreferredFirst, [Next]_vars
             PROVE  TypeOK' /\ PreferredFirst'
  OBVIOUS
<1> USE DEF TypeOK, PreferredFirst, Levels, Sending, Receiving, Panicked, Go
<1>1. CASE UNCHANGED vars
  BY <1>1 DEF vars
<1>2. ASSUME NEW t \in Threads, NEW m \in Messages, NEW l \in Levels, Push(t, m, l)
      PROVE  TypeOK' /\ PreferredFirst'
  <2>1. queue' \in [Levels -> Seq(Messages)]
    BY <1>2 DEF Push
  <2> QED
    BY <1>2, <2>1 DEF Push
<1>3. ASSUME NEW t \in Threads, NEW m \in Messages, NEW l \in Levels, PushRefused(t, m, l)
      PROVE  TypeOK' /\ PreferredFirst'
  BY <1>3 DEF PushRefused
<1>4. ASSUME NEW t \in Threads, SignalLocal(t) PROVE TypeOK' /\ PreferredFirst'
  BY <1>4 DEF SignalLocal
<1>5. ASSUME NEW t \in Threads, SignalGlobal(t) PROVE TypeOK' /\ PreferredFirst'
  BY <1>5 DEF SignalGlobal
<1>6. ASSUME NEW t \in Threads, TakeGlobal(t) PROVE TypeOK' /\ PreferredFirst'
  <2>1. global' \in Nat
    BY <1>6 DEF TakeGlobal
  <2>2. /\ at' = [at EXCEPT ![t] = 0] /\ UNCHANGED <<queue, local, unsent, received>>
        /\ pc' = [pc EXCEPT ![t] = "try_preferred"] \/ pc' = [pc EXCEPT ![t] = "wait"]
    BY <1>6 DEF TakeGlobal
  <2> QED
    BY <2>1, <2>2
<1>7. ASSUME NEW t \in Threads, TryPreferred(t) PROVE TypeOK' /\ PreferredFirst'
  <2>1. CASE local[0] > 0
    <3>1. local[0] - 1 \in Nat
      BY <2>1
    <3>2. local' = [local EXCEPT ![0] = @ - 1]
      BY <1>7, <2>1 DEF TryPreferred
    <3>3. local' \in [Levels -> Nat]
      BY <3>1, <3>2
    <3> QED
      BY <1>7, <2>1, <3>3 DEF TryPreferred
  <2>2. CASE local[0] = 0
    BY <1>7, <2>2 DEF TryPreferred
  <2> QED
    BY <2>1, <2>2
<1>8. ASSUME NEW t \in Threads, Restore(t) PROVE TypeOK' /\ PreferredFirst'
  BY <1>8 DEF Restore
<1>9. ASSUME NEW t \in Threads, WaitForever(t) PROVE TypeOK' /\ PreferredFirst'
  BY <1>9 DEF WaitForever
<1>10. ASSUME NEW t \in Threads, Scan(t) PROVE TypeOK' /\ PreferredFirst'
  BY <1>10 DEF Scan
<1>11. ASSUME NEW t \in Threads, Pop(t) PROVE TypeOK' /\ PreferredFirst'
  <2>1. CASE queue[at[t]] # <<>>
    <3>1. /\ Head(queue[at[t]]) \in Messages
          /\ Tail(queue[at[t]]) \in Seq(Messages)
      BY <2>1
    <3> QED
      BY <1>11, <2>1, <3>1 DEF Pop
  <2>2. CASE queue[at[t]] = <<>>
    BY <1>11, <2>2 DEF Pop
  <2> QED
    BY <2>1, <2>2
<1> QED
  BY <1>1, <1>2, <1>3, <1>4, <1>5, <1>6, <1>7, <1>8, <1>9, <1>10, <1>11
  DEF Next, Send, Step

-----------------------------------------------------------------------------
(* Each action preserves the accounting: the counted sets it changes, then  *)
(* the arithmetic.                                                          *)

(* Push: the element is counted by the claim of its sender. *)
LEMMA PushAccounted ==
    ASSUME IInv, NEW t \in Threads, NEW m \in Messages, NEW l \in Levels,
           Push(t, m, l)
    PROVE  PermitsAccounted'
<1> USE DEF IInv, TypeOK, Levels
<1>1. /\ Claims(l)' = Claims(l) \cup {t} /\ t \notin Claims(l)
      /\ \A k \in Levels \ {l} : Claims(k)' = Claims(k)
      /\ Holders' = Holders /\ LateScanners' = LateScanners
  BY DEF Push, Go, Claims, Holders, LateScanners
<1>2. Cardinality(Claims(l)') = Cardinality(Claims(l)) + 1
  BY <1>1, CountedSets, Joins
<1>3. /\ Len(queue'[l]) = Len(queue[l]) + 1
      /\ \A k \in Levels \ {l} : queue'[k] = queue[k]
      /\ local' = local /\ global' = global
  BY DEF Push
<1>4. ASSUME NEW k \in Levels
      PROVE  Len(queue'[k]) = local'[k] + Cardinality(Claims(k)')
  <2>1. Len(queue[k]) = local[k] + Cardinality(Claims(k))
    BY DEF PermitsAccounted
  <2>2. local[k] \in Nat /\ Cardinality(Claims(k)) \in Nat
    BY CountedSets
  <2>3. CASE k = l
    BY <1>2, <1>3, <2>1, <2>2, <2>3
  <2>4. CASE k # l
    BY <1>1, <1>3, <2>1, <2>2, <2>4
  <2> QED
    BY <2>3, <2>4
<1> QED
  BY <1>1, <1>3, <1>4 DEF PermitsAccounted

(* A refused push leaves every counter alone. *)
LEMMA PushRefusedAccounted ==
    ASSUME IInv, NEW t \in Threads, NEW m \in Messages, NEW l \in Levels,
           PushRefused(t, m, l)
    PROVE  PermitsAccounted'
<1>1. /\ \A k \in Levels : Claims(k)' = Claims(k)
      /\ Holders' = Holders /\ LateScanners' = LateScanners
  BY DEF IInv, TypeOK, PushRefused, Go, Claims, Holders, LateScanners
<1> QED
  BY <1>1 DEF PushRefused, IInv, PermitsAccounted

(* The level's permit replaces the sender's claim, and the sender now owes  *)
(* the global one.                                                          *)
LEMMA SignalLocalAccounted ==
    ASSUME IInv, NEW t \in Threads, SignalLocal(t)
    PROVE  PermitsAccounted'
<1> USE DEF IInv, TypeOK, Levels
<1>1. /\ Claims(at[t])' = Claims(at[t]) \ {t} /\ t \in Claims(at[t])
      /\ \A k \in Levels \ {at[t]} : Claims(k)' = Claims(k)
      /\ Holders' = Holders \cup {t} /\ t \notin Holders
      /\ LateScanners' = LateScanners
  BY DEF SignalLocal, Go, Claims, Holders, LateScanners
<1>2. Cardinality(Claims(at[t])') = Cardinality(Claims(at[t])) - 1
  BY <1>1, CountedSets, Leaves
<1>3. Cardinality(Holders') = Cardinality(Holders) + 1
  BY <1>1, CountedSets, Joins
<1>4. /\ local'[at[t]] = local[at[t]] + 1
      /\ \A k \in Levels \ {at[t]} : local'[k] = local[k]
      /\ queue' = queue /\ global' = global /\ at' = at
  BY DEF SignalLocal
<1>5. ASSUME NEW k \in Levels
      PROVE  Len(queue'[k]) = local'[k] + Cardinality(Claims(k)')
  <2>1. Len(queue[k]) = local[k] + Cardinality(Claims(k))
    BY DEF PermitsAccounted
  <2>2. local[k] \in Nat /\ Cardinality(Claims(k)) \in Nat
    BY CountedSets
  <2>3. CASE k = at[t]
    BY <1>2, <1>4, <2>1, <2>2, <2>3
  <2>4. CASE k # at[t]
    BY <1>1, <1>4, <2>1, <2>2, <2>4
  <2> QED
    BY <2>3, <2>4
<1>6. local'[0] + local'[1] = local[0] + local[1] + 1 /\ local'[1] >= local[1]
  BY <1>4
<1>7. global' + Cardinality(Holders') = local'[0] + local'[1]
  BY <1>3, <1>4, <1>6, CountedSets DEF PermitsAccounted
<1>8. Cardinality(LateScanners') <= local'[1]
  <2>1. Cardinality(LateScanners') = Cardinality(LateScanners)
    BY <1>1
  <2>2. Cardinality(LateScanners) <= local[1] /\ Cardinality(LateScanners) \in Nat
    BY CountedSets DEF PermitsAccounted
  <2>3. local[1] \in Nat /\ local'[1] \in Nat
    BY <1>4
  <2> QED
    BY <1>6, <2>1, <2>2, <2>3
<1> QED
  BY <1>5, <1>7, <1>8 DEF PermitsAccounted

(* The sender pays the global permit it owed. *)
LEMMA SignalGlobalAccounted ==
    ASSUME IInv, NEW t \in Threads, SignalGlobal(t)
    PROVE  PermitsAccounted'
<1> USE DEF IInv, TypeOK, Levels
<1>1. /\ \A k \in Levels : Claims(k)' = Claims(k)
      /\ Holders' = Holders \ {t} /\ t \in Holders
      /\ LateScanners' = LateScanners
  BY DEF SignalGlobal, Go, Claims, Holders, LateScanners
<1>2. Cardinality(Holders') = Cardinality(Holders) - 1
  BY <1>1, CountedSets, Leaves
<1> QED
  BY <1>1, <1>2, CountedSets DEF SignalGlobal, PermitsAccounted

(* A receiver that takes a global permit holds it. *)
LEMMA TakeGlobalAccounted ==
    ASSUME IInv, NEW t \in Threads, TakeGlobal(t)
    PROVE  PermitsAccounted'
<1> USE DEF IInv, TypeOK, Levels
<1>1. /\ \A k \in Levels : Claims(k)' = Claims(k)
      /\ LateScanners' = LateScanners
      /\ local' = local /\ queue' = queue
  BY DEF TakeGlobal, Go, Claims, LateScanners
<1>2. CASE global > 0
  <2>1. Holders' = Holders \cup {t} /\ t \notin Holders
    BY <1>2 DEF TakeGlobal, Go, Holders
  <2>2. Cardinality(Holders') = Cardinality(Holders) + 1
    BY <2>1, CountedSets, Joins
  <2> QED
    BY <1>1, <1>2, <2>2, CountedSets DEF TakeGlobal, PermitsAccounted
<1>3. CASE global = 0
  <2>1. Holders' = Holders
    BY <1>3 DEF TakeGlobal, Go, Holders
  <2> QED
    BY <1>1, <1>3, <2>1 DEF TakeGlobal, PermitsAccounted
<1> QED
  BY <1>2, <1>3

(* A thread that takes level k's permit turns from a holder into a claim. *)
LEMMA TakeLocalAccounted ==
    ASSUME IInv, NEW t \in Threads, pc[t] \in {"try_preferred", "scan"},
           local[at[t]] > 0, local' = [local EXCEPT ![at[t]] = @ - 1],
           Go(t, "pop"), UNCHANGED <<queue, global, at>>
    PROVE  PermitsAccounted'
<1> USE DEF IInv, TypeOK, Levels
<1>1. /\ Claims(at[t])' = Claims(at[t]) \cup {t} /\ t \notin Claims(at[t])
      /\ \A k \in Levels \ {at[t]} : Claims(k)' = Claims(k)
      /\ Holders' = Holders \ {t} /\ t \in Holders
  BY DEF Go, Claims, Holders
<1>2. Cardinality(Claims(at[t])') = Cardinality(Claims(at[t])) + 1
  BY <1>1, CountedSets, Joins
<1>3. Cardinality(Holders') = Cardinality(Holders) - 1
  BY <1>1, CountedSets, Leaves
<1>4. /\ local'[at[t]] = local[at[t]] - 1
      /\ \A k \in Levels \ {at[t]} : local'[k] = local[k]
  OBVIOUS
<1>5. ASSUME NEW k \in Levels
      PROVE  Len(queue'[k]) = local'[k] + Cardinality(Claims(k)')
  <2>1. Len(queue[k]) = local[k] + Cardinality(Claims(k))
    BY DEF PermitsAccounted
  <2>2. local[k] \in Nat /\ Cardinality(Claims(k)) \in Nat
    BY CountedSets
  <2>3. CASE k = at[t]
    BY <1>2, <1>4, <2>1, <2>2, <2>3
  <2>4. CASE k # at[t]
    BY <1>1, <1>4, <2>1, <2>2, <2>4
  <2> QED
    BY <2>3, <2>4
<1>6. local'[0] + local'[1] = local[0] + local[1] - 1
  BY <1>4
<1>7. global' + Cardinality(Holders') = local'[0] + local'[1]
  <2>1. global + Cardinality(Holders) = local[0] + local[1]
    BY DEF PermitsAccounted
  <2>2. Cardinality(Holders) \in Nat /\ local[0] \in Nat /\ local[1] \in Nat
    BY CountedSets
  <2>3. global \in Nat /\ global' = global
    OBVIOUS
  <2> DEFINE h == Cardinality(Holders)
             a == local[0]
             b == local[1]
  <2>4. global + h = a + b /\ h \in Nat /\ a \in Nat /\ b \in Nat
    BY <2>1, <2>2
  <2> HIDE DEF h, a, b
  <2>5. global + (h - 1) = a + b - 1
    BY <2>3, <2>4
  <2> QED
    BY <1>3, <1>6, <2>3, <2>5 DEF h, a, b
<1>8. Cardinality(LateScanners') <= local'[1]
  <2>1. CASE at[t] = 1
    <3>1. LateScanners' = LateScanners \ {t} /\ t \in LateScanners
      BY <2>1 DEF Go, LateScanners, PreferredFirst
    <3>2. Cardinality(LateScanners') = Cardinality(LateScanners) - 1
      BY <3>1, CountedSets, Leaves
    <3> QED
      BY <1>4, <2>1, <3>2, CountedSets DEF PermitsAccounted
  <2>2. CASE at[t] = 0
    <3>1. LateScanners' = LateScanners
      BY <2>2 DEF Go, LateScanners
    <3> QED
      BY <1>4, <2>2, <3>1 DEF PermitsAccounted
  <2> QED
    BY <2>1, <2>2
<1> QED
  BY <1>5, <1>7, <1>8 DEF PermitsAccounted

(* recv_immediate finds a permit of level 0, or leaves the accounting alone. *)
LEMMA TryPreferredAccounted ==
    ASSUME IInv, NEW t \in Threads, TryPreferred(t)
    PROVE  PermitsAccounted'
<1> USE DEF IInv, TypeOK, Levels
<1>1. at[t] = 0
  BY DEF TryPreferred, PreferredFirst
<1>2. CASE local[0] > 0
  BY <1>1, <1>2, TakeLocalAccounted DEF TryPreferred
<1>3. CASE local[0] = 0
  <2>1. /\ \A k \in Levels : Claims(k)' = Claims(k)
        /\ Holders' = Holders /\ LateScanners' = LateScanners
    BY <1>3 DEF TryPreferred, Go, Claims, Holders, LateScanners
  <2> QED
    BY <1>3, <2>1 DEF TryPreferred, PermitsAccounted
<1> QED
  BY <1>2, <1>3 DEF TryPreferred

(* The restored permit was held. *)
LEMMA RestoreAccounted ==
    ASSUME IInv, NEW t \in Threads, Restore(t)
    PROVE  PermitsAccounted'
<1> USE DEF IInv, TypeOK, Levels
<1>1. /\ \A k \in Levels : Claims(k)' = Claims(k)
      /\ Holders' = Holders \ {t} /\ t \in Holders
      /\ LateScanners' = LateScanners
  BY DEF Restore, Go, Claims, Holders, LateScanners
<1>2. Cardinality(Holders') = Cardinality(Holders) - 1
  BY <1>1, CountedSets, Leaves
<1> QED
  BY <1>1, <1>2, CountedSets DEF Restore, PermitsAccounted

(* A receiver released from wait_forever holds the permit it was given. *)
LEMMA WaitForeverAccounted ==
    ASSUME IInv, NEW t \in Threads, WaitForever(t)
    PROVE  PermitsAccounted'
<1> USE DEF IInv, TypeOK, Levels
<1>1. /\ \A k \in Levels : Claims(k)' = Claims(k)
      /\ Holders' = Holders \cup {t} /\ t \notin Holders
      /\ LateScanners' = LateScanners
  BY DEF WaitForever, Go, Claims, Holders, LateScanners, PreferredFirst
<1>2. Cardinality(Holders') = Cardinality(Holders) + 1
  BY <1>1, CountedSets, Joins
<1> QED
  BY <1>1, <1>2, CountedSets DEF WaitForever, PermitsAccounted

(* The scan.  A receiver leaves level 0 only when level 0 has no permit: the *)
(* permits of level 1 then cover every holder, and so every late scanner.    *)
(* It never leaves level 1 empty-handed.                                     *)
LEMMA ScanAccounted ==
    ASSUME IInv, NEW t \in Threads, Scan(t)
    PROVE  PermitsAccounted' /\ pc'[t] # "no_element"
<1> USE DEF IInv, TypeOK, Levels
<1>1. CASE local[at[t]] > 0
  <2>1. PermitsAccounted'
    BY <1>1, TakeLocalAccounted DEF Scan
  <2> QED
    BY <1>1, <2>1 DEF Scan, Go
<1>2. CASE local[at[t]] = 0 /\ at[t] = 0
  <2>1. /\ \A k \in Levels : Claims(k)' = Claims(k)
        /\ Holders' = Holders /\ local' = local /\ queue' = queue
        /\ global' = global /\ pc' = pc
    BY <1>2 DEF Scan, Claims, Holders
  <2>2. Cardinality(LateScanners)' <= Cardinality(Holders)
    <3>1. LateScanners' \subseteq Holders
      BY <1>2 DEF Scan, LateScanners, Holders
    <3> QED
      BY <3>1, CountedSets, FS_Subset
  <2>3. Cardinality(Holders) <= local[1]
    BY <1>2, CountedSets DEF PermitsAccounted
  <2>4. Cardinality(LateScanners)' \in Nat
    <3>1. LateScanners' \subseteq Holders
      BY <1>2 DEF Scan, LateScanners, Holders
    <3> QED
      BY <3>1, CountedSets, FS_Subset, FS_CardinalityType
  <2>5. Cardinality(LateScanners)' <= local'[1]
    BY <2>1, <2>2, <2>3, <2>4, CountedSets
  <2>6. pc'[t] # "no_element"
    BY <2>1 DEF NoReceivePanic
  <2> QED
    BY <2>1, <2>5, <2>6 DEF PermitsAccounted
<1>3. CASE local[at[t]] = 0 /\ at[t] = 1
  <2>1. LateScanners # {}
    BY <1>3 DEF Scan, LateScanners
  <2>2. Cardinality(LateScanners) # 0
    BY <2>1, CountedSets, FS_EmptySet
  <2>3. Cardinality(LateScanners) <= 0
    BY <1>3 DEF PermitsAccounted
  <2> QED
    BY <2>2, <2>3, CountedSets
<1> QED
  BY <1>1, <1>2, <1>3 DEF Scan

(* Whoever took a permit of a level finds that level's queue non-empty. *)
LEMMA PopAccounted ==
    ASSUME IInv, NEW t \in Threads, Pop(t)
    PROVE  PermitsAccounted' /\ pc'[t] # "no_element"
<1> USE DEF IInv, TypeOK, Levels
<1>1. /\ Claims(at[t])' = Claims(at[t]) \ {t} /\ t \in Claims(at[t])
      /\ \A k \in Levels \ {at[t]} : Claims(k)' = Claims(k)
      /\ Holders' = Holders /\ LateScanners' = LateScanners
  BY DEF Pop, Go, Claims, Holders, LateScanners
<1>2. /\ Cardinality(Claims(at[t])') = Cardinality(Claims(at[t])) - 1
      /\ Cardinality(Claims(at[t])) > 0
  <2>1. IsFiniteSet(Claims(at[t]))
    BY CountedSets
  <2>2. /\ Cardinality(Claims(at[t])') = Cardinality(Claims(at[t])) - 1
        /\ Cardinality(Claims(at[t])) \in Nat \ {0}
    BY <1>1, <2>1, Leaves
  <2> QED
    BY <2>2
<1>3. queue[at[t]] # <<>>
  <2>1. Len(queue[at[t]]) = local[at[t]] + Cardinality(Claims(at[t]))
    BY DEF PermitsAccounted
  <2>2. Len(queue[at[t]]) > 0
    BY <1>2, <2>1, CountedSets
  <2> QED
    BY <2>2
<1>4. /\ local' = local /\ global' = global /\ at' = at
      /\ \A k \in Levels \ {at[t]} : queue'[k] = queue[k]
      /\ queue'[at[t]] = Tail(queue[at[t]])
      /\ pc'[t] = "idle"
  BY <1>3 DEF Pop, Go
<1>5. Len(queue'[at[t]]) = Len(queue[at[t]]) - 1
  BY <1>3, <1>4
<1>6. ASSUME NEW k \in Levels
      PROVE  Len(queue'[k]) = local'[k] + Cardinality(Claims(k)')
  <2>1. Len(queue[k]) = local[k] + Cardinality(Claims(k))
    BY DEF PermitsAccounted
  <2>2. local[k] \in Nat /\ Cardinality(Claims(k)) \in Nat
    BY CountedSets
  <2>3. CASE k = at[t]
    <3>1. Len(queue'[k]) = Len(queue[k]) - 1 /\ local'[k] = local[k]
      BY <1>4, <1>5, <2>3
    <3>2. Cardinality(Claims(k)') = Cardinality(Claims(k)) - 1
      BY <1>2, <1>4, <2>3
    <3> QED
      BY <2>1, <2>2, <3>1, <3>2
  <2>4. CASE k # at[t]
    BY <1>1, <1>4, <2>1, <2>2, <2>4
  <2> QED
    BY <2>3, <2>4
<1> QED
  BY <1>1, <1>4, <1>6 DEF PermitsAccounted

-----------------------------------------------------------------------------
(* The invariant is inductive: one action per step, each accounted for by   *)
(* its lemma.                                                               *)
LEMMA StepIInv == IInv /\ [Next]_vars => IInv'
<1> SUFFICES ASSUME IInv, [Next]_vars PROVE IInv'
  OBVIOUS
<1>1. TypeOK' /\ PreferredFirst'
  BY TypeStep DEF IInv
<1>2. PermitsAccounted' /\ NoReceivePanic'
  <2> USE DEF NoReceivePanic
  <2>1. CASE UNCHANGED vars
    <3>1. /\ \A l \in Levels : Claims(l)' = Claims(l)
          /\ Holders' = Holders /\ LateScanners' = LateScanners
      BY <2>1 DEF vars, Claims, Holders, LateScanners
    <3> QED
      BY <2>1, <3>1 DEF vars, IInv, PermitsAccounted
  <2>2. ASSUME NEW t \in Threads, NEW m \in Messages, NEW l \in Levels,
               Push(t, m, l) \/ PushRefused(t, m, l)
        PROVE  PermitsAccounted' /\ NoReceivePanic'
    BY <2>2, PushAccounted, PushRefusedAccounted
    DEF IInv, TypeOK, Push, PushRefused, Go
  <2>3. ASSUME NEW t \in Threads, Step(t)
        PROVE  PermitsAccounted' /\ NoReceivePanic'
    <3>1. PermitsAccounted' /\ pc'[t] # "no_element"
      <4>1. CASE SignalLocal(t)
        BY <4>1, SignalLocalAccounted DEF IInv, TypeOK, SignalLocal, Go
      <4>2. CASE SignalGlobal(t)
        BY <4>2, SignalGlobalAccounted DEF IInv, TypeOK, SignalGlobal, Go
      <4>3. CASE TakeGlobal(t)
        BY <4>3, TakeGlobalAccounted DEF IInv, TypeOK, TakeGlobal, Go
      <4>4. CASE TryPreferred(t)
        BY <4>4, TryPreferredAccounted DEF IInv, TypeOK, TryPreferred, Go
      <4>5. CASE Restore(t)
        BY <4>5, RestoreAccounted DEF IInv, TypeOK, Restore, Go
      <4>6. CASE WaitForever(t)
        BY <4>6, WaitForeverAccounted DEF IInv, TypeOK, WaitForever, Go
      <4>7. CASE Scan(t)
        BY <4>7, ScanAccounted
      <4>8. CASE Pop(t)
        BY <4>8, PopAccounted
      <4> QED
        BY <2>3, <4>1, <4>2, <4>3, <4>4, <4>5, <4>6, <4>7, <4>8 DEF Step
    <3>2. \A u \in Threads \ {t} : pc'[u] = pc[u]
      BY <2>3 DEF Step, SignalLocal, SignalGlobal, TakeGlobal, TryPreferred,
                  Restore, WaitForever, Scan, Pop, Go, IInv, TypeOK
    <3> QED
      BY <3>1, <3>2 DEF IInv
  <2> QED
    BY <2>1, <2>2, <2>3 DEF Next, Send
<1> QED
  BY <1>1, <1>2 DEF IInv

(* When nobody is inside a send or a recv_immediate, nobody holds or claims  *)
(* a permit, so the accounting is an equality of permits and elements.       *)
LEMMA IInvNoLostPermit == IInv => NoLostPermit
<1> SUFFICES ASSUME IInv,
                    \A t \in Threads : pc[t] \in {"idle", "wait"} \cup Panicked
             PROVE  global = Len(queue[0]) + Len(queue[1])
  BY DEF NoLostPermit
<1>1. Holders = {} /\ \A l \in Levels : Claims(l) = {}
  BY DEF Holders, Claims, Panicked
<1>2. /\ Cardinality(Holders) = 0
      /\ \A l \in Levels : Cardinality(Claims(l)) = 0
  BY <1>1, FS_EmptySet
<1>3. global \in Nat /\ local[0] \in Nat /\ local[1] \in Nat
  BY DEF IInv, TypeOK, Levels
<1>4. /\ Len(queue[0]) = local[0] + Cardinality(Claims(0))
      /\ Len(queue[1]) = local[1] + Cardinality(Claims(1))
      /\ global + Cardinality(Holders) = local[0] + local[1]
  BY DEF IInv, PermitsAccounted, Levels
<1> QED
  BY <1>2, <1>3, <1>4 DEF Levels

-----------------------------------------------------------------------------
(* The invariant holds in every state of every behaviour. *)
THEOREM Invariance == Spec => []IInv
<1> QED
  BY InitIInv, StepIInv, PTL DEF Spec

(* Every variable keeps its type and every element has its permits: the      *)
(* counts of queue, levels and channel agree up to the threads in the middle *)
(* of a send or a receive.                                                   *)
THEOREM Accounting == Spec => []ChannelInv
<1>1. IInv => ChannelInv
  BY DEF IInv, ChannelInv
<1> QED
  BY <1>1, Invariance, PTL

(* Neither "No element found" (channel.rs:122) nor the unwrap of an empty    *)
(* queue (channel.rs:58) is reachable, with any number of threads.           *)
THEOREM ReceiveNeverPanics == Spec => []NoReceivePanic
<1>1. IInv => NoReceivePanic
  BY DEF IInv
<1> QED
  BY <1>1, Invariance, PTL

(* No permit is lost: with nobody in the middle of an operation, the global  *)
(* semaphore releases exactly as many workers as there are elements.         *)
THEOREM PermitsNeverLost == Spec => []NoLostPermit
<1> QED
  BY IInvNoLostPermit, Invariance, PTL
-----------------------------------------------------------------------------
(* What becomes of a message: it is received once, and only from a queue.    *)

InQueue(m)    == \E l \in Levels : \E i \in DOMAIN queue[l] : queue[l][i] = m
QueuedOnce(m) == \A l, k \in Levels : \A i \in DOMAIN queue[l], j \in DOMAIN queue[k] :
                    queue[l][i] = m /\ queue[k][j] = m => l = k /\ i = j

\* A message is unsent, in one place of one queue, or received: never two of
\* these, so that no recv returns it again and no send repeats it.
OncePlaced ==
    \A m \in Messages :
        /\ m \in unsent => ~InQueue(m) /\ m \notin received
        /\ InQueue(m) => m \notin received
        /\ QueuedOnce(m)

\* A queued message stays queued until the step that returns it to a receiver.
KeptUntilReceived ==
    \A m \in Messages : InQueue(m) => InQueue(m)' \/ m \in received'

(* A push puts the message at one place and moves no other. *)
LEMMA PushPlaces ==
    ASSUME TypeOK, OncePlaced, NEW t \in Threads, NEW m \in Messages, NEW l \in Levels, Push(t, m, l)
    PROVE  OncePlaced' /\ KeptUntilReceived
<1>0. /\ m \in unsent /\ unsent' = unsent \ {m} /\ received' = received
      /\ queue' = [queue EXCEPT ![l] = Append(queue[l], m)]
  BY DEF Push
<1>1. queue[l] \in Seq(Messages) /\ Len(queue[l]) \in Nat /\ DOMAIN queue = Levels
  BY DEF TypeOK
<1>2. \A k \in Levels : k # l => queue'[k] = queue[k]
  BY <1>0, <1>1
<1>3. queue'[l] = Append(queue[l], m)
  BY <1>0, <1>1
<1>4. /\ DOMAIN queue'[l] = DOMAIN queue[l] \cup {Len(queue[l]) + 1}
      /\ queue'[l][Len(queue[l]) + 1] = m
      /\ \A i \in DOMAIN queue[l] : queue'[l][i] = queue[l][i]
  <2>1. /\ DOMAIN queue[l] = 1..Len(queue[l])
        /\ DOMAIN queue'[l] = 1..(Len(queue[l]) + 1)
        /\ queue'[l][Len(queue[l]) + 1] = m
        /\ \A i \in 1..Len(queue[l]) : queue'[l][i] = queue[l][i]
    BY <1>1, <1>3
  <2>2. 1..(Len(queue[l]) + 1) = (1..Len(queue[l])) \cup {Len(queue[l]) + 1}
    BY <1>1
  <2> QED
    BY <2>1, <2>2
<1>5. ~InQueue(m) /\ m \notin received
  BY <1>0 DEF OncePlaced
<1>6. ASSUME NEW x \in Messages
      PROVE  (InQueue(x)' <=> InQueue(x) \/ x = m) /\ QueuedOnce(x)'
  <2>1. InQueue(x)' <=> InQueue(x) \/ x = m
    BY <1>2, <1>4 DEF InQueue
  <2>2. QueuedOnce(x)
    BY DEF OncePlaced
  <2>3. QueuedOnce(x)'
    BY <1>2, <1>4, <1>5, <2>2 DEF QueuedOnce, InQueue
  <2> QED
    BY <2>1, <2>3
<1>7. OncePlaced'
  BY <1>0, <1>5, <1>6 DEF OncePlaced
<1> QED
  BY <1>6, <1>7 DEF KeptUntilReceived

(* A pop returns the head of a queue, and moves no other message. *)
LEMMA PopPlaces ==
    ASSUME TypeOK, OncePlaced, NEW l \in Levels, queue[l] # <<>>, UNCHANGED unsent,
           received' = received \cup {Head(queue[l])},
           queue' = [queue EXCEPT ![l] = Tail(@)]
    PROVE  OncePlaced' /\ KeptUntilReceived
<1>1. queue[l] \in Seq(Messages) /\ Len(queue[l]) \in Nat /\ DOMAIN queue = Levels
  BY DEF TypeOK
<1>2. (\A k \in Levels : k # l => queue'[k] = queue[k]) /\ queue'[l] = Tail(queue[l])
  BY <1>1
<1>3. Len(queue[l]) >= 1 /\ Head(queue[l]) = queue[l][1] /\ DOMAIN queue[l] = 1..Len(queue[l])
  <2>1. Len(queue[l]) # 0
    BY <1>1
  <2> QED
    BY <1>1, <2>1
<1>4. /\ DOMAIN queue'[l] = 1..(Len(queue[l]) - 1)
      /\ \A i \in 1..(Len(queue[l]) - 1) : queue'[l][i] = queue[l][i + 1]
  BY <1>1, <1>2, <1>3
<1>5. \A i \in DOMAIN queue'[l] :
         i \in Nat /\ i + 1 \in DOMAIN queue[l] /\ i + 1 # 1 /\ queue'[l][i] = queue[l][i + 1]
  BY <1>1, <1>3, <1>4
<1>6. \A i \in DOMAIN queue[l] :
         i # 1 => i \in Nat /\ i - 1 \in DOMAIN queue'[l] /\ queue'[l][i - 1] = queue[l][i]
  BY <1>1, <1>3, <1>4
<1>7. 1 \in DOMAIN queue[l] /\ queue[l][1] = Head(queue[l])
  BY <1>1, <1>3
<1>8. ASSUME NEW x \in Messages
      PROVE  (InQueue(x)' => InQueue(x) /\ x # Head(queue[l])) /\ QueuedOnce(x)'
  <2>0. QueuedOnce(x)
    BY DEF OncePlaced
  <2>1. ASSUME NEW k \in Levels, NEW i \in DOMAIN queue'[k], queue'[k][i] = x
        PROVE  InQueue(x) /\ x # Head(queue[l])
    <3>1. CASE k = l
      BY <1>5, <1>7, <2>0, <2>1, <3>1 DEF InQueue, QueuedOnce
    <3>2. CASE k # l
      BY <1>2, <1>7, <2>0, <2>1, <3>2 DEF InQueue, QueuedOnce
    <3> QED
      BY <3>1, <3>2
  <2>2. ASSUME NEW a \in Levels, NEW b \in Levels,
               NEW i \in DOMAIN queue'[a], NEW j \in DOMAIN queue'[b],
               queue'[a][i] = x, queue'[b][j] = x
        PROVE  a = b /\ i = j
    <3>1. a = b
      BY <1>2, <1>5, <2>0, <2>2 DEF QueuedOnce
    <3>2. CASE a = l
      BY <1>5, <2>0, <2>2, <3>1, <3>2 DEF QueuedOnce
    <3>3. CASE a # l
      BY <1>2, <2>0, <2>2, <3>1, <3>3 DEF QueuedOnce
    <3> QED
      BY <3>1, <3>2, <3>3
  <2> QED
    BY <2>1, <2>2 DEF InQueue, QueuedOnce
<1>9. ASSUME NEW x \in Messages, InQueue(x), x # Head(queue[l]) PROVE InQueue(x)'
  <2>1. PICK k \in Levels : \E i \in DOMAIN queue[k] : queue[k][i] = x
    BY <1>9 DEF InQueue
  <2>2. CASE k = l
    BY <1>6, <1>7, <1>9, <2>1, <2>2 DEF InQueue
  <2>3. CASE k # l
    BY <1>2, <2>1, <2>3 DEF InQueue
  <2> QED
    BY <2>2, <2>3
<1>10. InQueue(Head(queue[l]))
  BY <1>7 DEF InQueue
<1>11. OncePlaced'
  <2> SUFFICES ASSUME NEW x \in Messages
               PROVE  /\ x \in unsent' => ~InQueue(x)' /\ x \notin received'
                      /\ InQueue(x)' => x \notin received'
                      /\ QueuedOnce(x)'
    BY DEF OncePlaced
  <2> QED
    BY <1>8, <1>10 DEF OncePlaced
<1> QED
  BY <1>9, <1>11 DEF KeptUntilReceived

(* Every step keeps every message in one place. *)
LEMMA StepPlaces == ASSUME TypeOK, OncePlaced, [Next]_vars PROVE OncePlaced' /\ KeptUntilReceived
<1>1. ASSUME UNCHANGED <<queue, received>>, unsent' \subseteq unsent
      PROVE  OncePlaced' /\ KeptUntilReceived
  <2>1. \A m \in Messages : (InQueue(m)' <=> InQueue(m)) /\ (QueuedOnce(m)' <=> QueuedOnce(m))
    BY <1>1 DEF InQueue, QueuedOnce
  <2> QED
    BY <1>1, <2>1 DEF OncePlaced, KeptUntilReceived
<1>2. ASSUME NEW t \in Threads, Send(t) PROVE OncePlaced' /\ KeptUntilReceived
  BY <1>1, <1>2, PushPlaces DEF Send, PushRefused
<1>3. ASSUME NEW t \in Threads, Pop(t) PROVE OncePlaced' /\ KeptUntilReceived
  <2>0. at[t] \in Levels
    BY DEF TypeOK
  <2>1. CASE queue[at[t]] # <<>>
    BY <1>3, <2>0, <2>1, PopPlaces DEF Pop
  <2>2. CASE queue[at[t]] = <<>>
    BY <1>1, <1>3, <2>2 DEF Pop
  <2> QED
    BY <2>1, <2>2
<1>4. ASSUME NEW t \in Threads, Step(t), ~Pop(t) PROVE OncePlaced' /\ KeptUntilReceived
  BY <1>1, <1>4 DEF Step, SignalLocal, SignalGlobal, TakeGlobal, TryPreferred, Restore, WaitForever, Scan
<1>5. CASE UNCHANGED vars
  BY <1>1, <1>5 DEF vars
<1> QED
  BY <1>2, <1>3, <1>4, <1>5 DEF Next

(* A message that send has pushed is returned by one recv and by no other:   *)
(* no thread loses it, drops it or sees it a second time (channel.rs:49-124).*)
THEOREM DeliveredOnce == Spec => []OncePlaced /\ [][KeptUntilReceived]_vars
<1>1. Init => OncePlaced
  BY DEF Init, OncePlaced, InQueue, QueuedOnce
<1>2. IInv /\ OncePlaced /\ [Next]_vars => OncePlaced' /\ [KeptUntilReceived]_vars
  BY StepPlaces DEF IInv
<1> QED
  BY <1>1, <1>2, Invariance, PTL DEF Spec

-----------------------------------------------------------------------------
(* The safety core of Delivery. *)

\* What a thread can go on with: the guards of Step.
CanStep(t) ==
    \/ pc[t] \in {"signal_local", "signal_global", "try_preferred", "restore", "scan", "pop"}
    \/ pc[t] = "idle" /\ t \in Workers
    \/ pc[t] = "wait" /\ global > 0

\* While an element is queued a thread can take a step, unless all workers
\* have died of the assertion in send.
NeverStuck ==
    (\E l \in Levels : queue[l] # <<>>) =>
        (\E t \in Threads : CanStep(t)) \/ \A w \in Workers : pc[w] = "refused"

(* The workers never all sleep beside an element (channel.rs:89-124): a      *)
(* thread that is about to signal goes on, and with no such thread the       *)
(* global semaphore has a permit for the first that waits.                   *)
THEOREM ReceiversNeverStuck == Spec => []NeverStuck
<1>1. IInv => NeverStuck
  <2> SUFFICES ASSUME IInv, NEW l \in Levels, queue[l] # <<>>,
                      \A t \in Threads : ~CanStep(t),
                      NEW w \in Workers
               PROVE  pc[w] = "refused"
    BY DEF NeverStuck
  <2>1. \A t \in Threads : pc[t] \in {"idle", "wait"} \cup Panicked
    <3> SUFFICES ASSUME NEW t \in Threads PROVE pc[t] \in {"idle", "wait"} \cup Panicked
      OBVIOUS
    <3>1. pc[t] \in {"idle", "wait", "signal_local", "signal_global", "try_preferred", "restore",
                     "scan", "pop"} \cup Panicked
      BY DEF IInv, TypeOK, Sending, Receiving
    <3> QED
      BY <3>1 DEF CanStep
  <2>2. global = Len(queue[0]) + Len(queue[1])
    BY <2>1, IInvNoLostPermit DEF NoLostPermit
  <2>3. Len(queue[0]) \in Nat /\ Len(queue[1]) \in Nat /\ Len(queue[l]) # 0 /\ l \in 0..1
    <3>1. queue[0] \in Seq(Messages) /\ queue[1] \in Seq(Messages) /\ queue[l] \in Seq(Messages)
      BY DEF IInv, TypeOK, Levels
    <3> QED
      BY <3>1 DEF Levels
  <2>4. global > 0
    <3>1. l = 0 \/ l = 1
      BY <2>3
    <3>2. Len(queue[0]) # 0 \/ Len(queue[1]) # 0
      BY <2>3, <3>1
    <3>3. \A a, b \in Nat : a # 0 \/ b # 0 => a + b > 0
      OBVIOUS
    <3>4. Len(queue[0]) + Len(queue[1]) > 0
      BY <2>3, <3>2, <3>3, Zenon
    <3> QED
      BY <2>2, <3>4, Zenon
  <2>5. w \in Threads /\ pc[w] \notin {"idle", "wait", "no_element"}
    BY <2>4 DEF Threads, CanStep, IInv, NoReceivePanic
  <2> QED
    BY <2>1, <2>5 DEF Panicked
<1> QED
  BY <1>1, Invariance, PTL
=============================================================================
