----------------------------- MODULE TpcChannel -----------------------------
(***************************************************************************)
(* The two-level channel of the tpc executor (tpc/src/channel.rs): one     *)
(* bounded queue and one semaphore per level, and one global semaphore.    *)
(* Every atomic operation on a queue or a semaphore is a step of its own,  *)
(* because the guarantee the channel is built for (a thread that owns a    *)
(* global permit always finds an element) is about their interleaving.     *)
(*                                                                         *)
(* Workers receive the way bin.rs:183-189 does, recv_immediate(0) and then *)
(* recv_all; every thread may send, a worker from inside the task it runs. *)
(***************************************************************************)
EXTENDS Integers, Sequences, FiniteSets

CONSTANTS
    Workers,    \* threads that run the worker loop, and may send
    Clients,    \* threads that only send
    Messages,   \* every message is sent at most once
    Capacity    \* the ArrayQueue's bound, 1_000_000 in bin.rs:283

ASSUME ChannelAssumption ==
    /\ IsFiniteSet(Workers) /\ IsFiniteSet(Clients)
    /\ Capacity \in Nat \ {0}

Threads == Workers \cup Clients
Levels  == 0..1

VARIABLES
    queue,      \* queue[l]: the ArrayQueue of level l
    local,      \* local[l]: permits of level l's semaphore
    global,     \* permits of the global semaphore
    pc,         \* where each thread is inside the channel
    at,         \* the level each thread is working on
    unsent,     \* messages nobody has sent yet
    received    \* messages a recv has returned

vars == <<queue, local, global, pc, at, unsent, received>>

Sending   == {"signal_local", "signal_global"}
Receiving == {"try_preferred", "restore", "wait", "scan", "pop"}
Panicked  == {"refused", "no_element"}

Init ==
    /\ queue = [l \in Levels |-> <<>>]
    /\ local = [l \in Levels |-> 0]
    /\ global = 0
    /\ pc = [t \in Threads |-> "idle"]
    /\ at = [t \in Threads |-> 0]
    /\ unsent = Messages
    /\ received = {}

Go(t, to) == pc' = [pc EXCEPT ![t] = to]

-----------------------------------------------------------------------------
\* Channel::send: push, signal the level, signal the whole channel.

Push(t, m, l) ==
    /\ pc[t] = "idle"
    /\ m \in unsent
    /\ Len(queue[l]) < Capacity
    /\ queue' = [queue EXCEPT ![l] = Append(@, m)]
    /\ unsent' = unsent \ {m}
    /\ at' = [at EXCEPT ![t] = l]
    /\ Go(t, "signal_local")
    /\ UNCHANGED <<local, global, received>>

\* assert!(q.is_ok()): the sending thread unwinds and the message is dropped.
PushRefused(t, m, l) ==
    /\ pc[t] = "idle"
    /\ m \in unsent
    /\ Len(queue[l]) >= Capacity
    /\ unsent' = unsent \ {m}
    /\ Go(t, "refused")
    /\ UNCHANGED <<queue, local, global, at, received>>

SignalLocal(t) ==
    /\ pc[t] = "signal_local"
    /\ local' = [local EXCEPT ![at[t]] = @ + 1]
    /\ Go(t, "signal_global")
    /\ UNCHANGED <<queue, global, at, unsent, received>>

SignalGlobal(t) ==
    /\ pc[t] = "signal_global"
    /\ global' = global + 1
    /\ Go(t, "idle")
    /\ UNCHANGED <<queue, local, at, unsent, received>>

-----------------------------------------------------------------------------
\* recv_immediate(0): take a global permit, look at level 0, else put it back.

\* A recv_immediate that looks at the level without taking a permit.
TakeGlobal_NoPermit(t) ==
    /\ pc[t] = "idle" /\ t \in Workers
    /\ at' = [at EXCEPT ![t] = 0]
    /\ Go(t, IF global > 0 THEN "try_preferred" ELSE "wait")
    /\ UNCHANGED <<queue, local, global, unsent, received>>

TakeGlobal(t) ==
    /\ pc[t] = "idle" /\ t \in Workers
    /\ at' = [at EXCEPT ![t] = 0]
    /\ \/ global > 0 /\ global' = global - 1 /\ Go(t, "try_preferred")
       \/ global = 0 /\ UNCHANGED global /\ Go(t, "wait")
    /\ UNCHANGED <<queue, local, unsent, received>>

\* A recv_immediate that forgets to restore the permit.
TryPreferred_NoRestore(t) ==
    /\ pc[t] = "try_preferred"
    /\ \/ local[0] > 0 /\ local' = [local EXCEPT ![0] = @ - 1] /\ Go(t, "pop")
       \/ local[0] = 0 /\ UNCHANGED local /\ Go(t, "wait")
    /\ UNCHANGED <<queue, global, at, unsent, received>>

TryPreferred(t) ==
    /\ pc[t] = "try_preferred"
    /\ \/ local[0] > 0 /\ local' = [local EXCEPT ![0] = @ - 1] /\ Go(t, "pop")
       \/ local[0] = 0 /\ UNCHANGED local /\ Go(t, "restore")
    /\ UNCHANGED <<queue, global, at, unsent, received>>

Restore(t) ==
    /\ pc[t] = "restore"
    /\ global' = global + 1
    /\ Go(t, "wait")
    /\ UNCHANGED <<queue, local, at, unsent, received>>

-----------------------------------------------------------------------------
\* recv_all: block for a global permit, then scan the levels in order.

WaitForever(t) ==
    /\ pc[t] = "wait"
    /\ global > 0
    /\ global' = global - 1
    /\ Go(t, "scan")
    /\ UNCHANGED <<queue, local, at, unsent, received>>

Scan(t) ==
    /\ pc[t] = "scan"
    /\ \/ /\ local[at[t]] > 0
          /\ local' = [local EXCEPT ![at[t]] = @ - 1]
          /\ Go(t, "pop") /\ UNCHANGED at
       \/ /\ local[at[t]] = 0 /\ at[t] = 0
          /\ at' = [at EXCEPT ![t] = 1]
          /\ UNCHANGED <<pc, local>>
       \/ /\ local[at[t]] = 0 /\ at[t] = 1
          /\ Go(t, "no_element") /\ UNCHANGED <<at, local>>
    /\ UNCHANGED <<queue, global, unsent, received>>

\* The queue.pop().unwrap() of recv_nonblock.
Pop(t) ==
    /\ pc[t] = "pop"
    /\ \/ /\ queue[at[t]] # <<>>
          /\ received' = received \cup {Head(queue[at[t]])}
          /\ queue' = [queue EXCEPT ![at[t]] = Tail(@)]
          /\ Go(t, "idle")
       \/ /\ queue[at[t]] = <<>>
          /\ Go(t, "no_element") /\ UNCHANGED <<queue, received>>
    /\ UNCHANGED <<local, global, at, unsent>>

-----------------------------------------------------------------------------
Send(t) == \E m \in Messages, l \in Levels : Push(t, m, l) \/ PushRefused(t, m, l)

\* What a thread does without a choice: finish a send, or receive.
Step(t) ==
    \/ SignalLocal(t) \/ SignalGlobal(t)
    \/ TakeGlobal(t) \/ TryPreferred(t) \/ Restore(t)
    \/ WaitForever(t) \/ Scan(t) \/ Pop(t)

Next == \E t \in Threads : Send(t) \/ Step(t)

\* The OS keeps scheduling every thread; nobody is obliged to send.
Spec == Init /\ [][Next]_vars /\ \A t \in Threads : WF_vars(Step(t))

-----------------------------------------------------------------------------
TypeOK ==
    /\ queue \in [Levels -> Seq(Messages)]
    /\ local \in [Levels -> Nat]
    /\ global \in Nat
    /\ pc \in [Threads -> {"idle"} \cup Sending \cup Receiving \cup Panicked]
    /\ at \in [Threads -> Levels]
    /\ unsent \subseteq Messages
    /\ received \subseteq Messages

\* The threads that owe level l a permit, or have taken one and not popped.
Claims(l) == {t \in Threads : pc[t] \in {"signal_local", "pop"} /\ at[t] = l}

\* The threads because of which a level has a permit the channel has not.
Holders == {t \in Threads :
              pc[t] \in {"signal_global", "try_preferred", "restore", "scan"}}

LateScanners == {t \in Threads : pc[t] = "scan" /\ at[t] = 1}

\* The accounting the code relies on: an element for every level permit, a
\* level permit for every global one, and a level-1 permit kept for every
\* thread whose scan has already given up on level 0.
PermitsAccounted ==
    /\ \A l \in Levels : Len(queue[l]) = local[l] + Cardinality(Claims(l))
    /\ global + Cardinality(Holders) = local[0] + local[1]
    /\ Cardinality(LateScanners) <= local[1]

\* Every variable has its type, so that no semaphore of channel.rs is ever
\* negative, and every semaphore holds the permits its accounting asks for.
ChannelInv == TypeOK /\ PermitsAccounted

\* Neither panic!("No element found") (channel.rs:122) nor the unwrap of
\* queue.pop() (channel.rs:58) is ever reached: whoever owns a permit finds
\* an element, however sends and receives interleave.
NoReceivePanic == \A t \in Threads : pc[t] # "no_element"

\* When no thread is inside send or recv_immediate, the global semaphore has
\* one permit per queued element: no worker sleeps in wait_forever beside work.
NoLostPermit ==
    (\A t \in Threads : pc[t] \in {"idle", "wait"} \cup Panicked)
        => global = Len(queue[0]) + Len(queue[1])

Queued(m) == \E l \in Levels, i \in 1..Capacity :
                i <= Len(queue[l]) /\ queue[l][i] = m

\* Every message pushed on either level is received, unless the workers have
\* all died of the assertion in send (channel.rs:52).
Delivery == \A m \in Messages :
    Queued(m) ~> (m \in received \/ \A w \in Workers : pc[w] = "refused")
=============================================================================
