-------------------------- MODULE BlockPartyProofs --------------------------
(***************************************************************************)
(* The invariants of BlockParty for any number of futures, hosts and       *)
(* worker threads: one worker at a time, the right mail for everyone, no   *)
(* task a waiting worker is not told of, no mail that goes unnoticed.      *)
(***************************************************************************)
EXTENDS BlockParty, SequenceTheorems, TLAPS

\* thread_launched covers the worker and the launch that is due; a worker that
\* is idle or gone has no task, and one that delivers has a letter.
Control ==
    /\ \A k \in Threads : pc[k] # "none" => launched
    /\ \A f \in Futures : fpc[f] = "launch" => launched
    /\ \A f, g \in Futures : fpc[f] = "launch" /\ fpc[g] = "launch" => f = g
    /\ \A k \in Threads : pc[k] \in {"none", "idle", "closing"} => tasks[k] = <<>>
    /\ \A k \in Threads : letter[k].box \in Futures <=> pc[k] \in {"mail", "notify"}

\* Where the task of a future can be: in the channel, with a worker, in the
\* worker's hand.
Queued(f)   == chan # <<>> /\ chan[1].task = f
Held(f)     == \E k \in Threads : \E i \in 1..Len(tasks[k]) : tasks[k][i] = f
Outbound(f) == \E k \in Threads : letter[k].box = f

\* It is in one of those places at most, once, and only from the send to the
\* mail.
Placed ==
    /\ \A f \in Futures :
        /\ Queued(f) \/ Held(f) \/ Outbound(f) \/ mail[f] # None =>
              fpc[f] \notin {"new", "send"}
        /\ Queued(f) => chan[1].box = f /\ ~Held(f) /\ ~Outbound(f) /\ mail[f] = None
        /\ Held(f) => ~Outbound(f) /\ mail[f] = None
    /\ \A k \in Threads :
        /\ \A i, j \in 1..Len(tasks[k]) : tasks[k][i] = tasks[k][j] => i = j
        /\ pc[k] = "notify" => mail[letter[k].box] # None

\* The sender of a task signals the side channel unless the worker reads the
\* channel first.
Told ==
    \A k \in Threads :
        pc[k] \in {"call", "wait"} /\ chan # <<>> =>
            side \/ \E f \in Futures : fpc[f] \in {"swap", "wake"}

Notifying(f) == \E k \in Threads : pc[k] = "notify" /\ letter[k].box = f

\* Until its host is notified a future that is not being polled has its host's
\* waker in the mailbox, and after that its host has been woken.
Noticed ==
    \A f \in Futures :
        /\ /\ fpc[f] \in {"send", "swap", "launch", "wake", "pending", "reread"}
           /\ mail[f] = None \/ Notifying(f)
           => waker[f] = host[f]
        /\ fpc[f] \in {"swap", "launch", "wake", "pending"} /\ mail[f] # None =>
              f \in woken \/ Notifying(f)

IInv == PartyInv /\ RightMail /\ Control /\ Placed /\ Told /\ Noticed

-----------------------------------------------------------------------------
Stages == {"new", "send", "swap", "launch", "wake", "pending", "register", "reread",
           "done", "dropped"}

(* Nobody has polled. *)
LEMMA InitIInv == Init => IInv
<1> SUFFICES ASSUME Init PROVE IInv
  OBVIOUS
<1>1. TypeOK
  <2>1. launched \in BOOLEAN /\ side \in BOOLEAN /\ oneWait \in BOOLEAN
    BY PartyAssumption DEF Init
  <2>2. chan \in Seq([task : Futures, box : Futures]) /\ Len(chan) <= 1
    BY DEF Init
  <2>3. letter \in [Threads -> [out : Futures \cup {None}, box : Futures \cup {None}]]
    BY DEF Init
  <2> QED
    BY <2>1, <2>2, <2>3 DEF Init, TypeOK
<1>2. SingleWorker /\ Control
  BY PartyAssumption DEF Init, SingleWorker, Control
<1>3. RightMail
  BY DEF Init, RightMail
<1>4. Placed
  BY PartyAssumption DEF Init, Placed, Queued, Held, Outbound
<1>5. Told /\ Noticed
  BY DEF Init, Told, Noticed
<1> QED
  BY <1>1, <1>2, <1>3, <1>4, <1>5 DEF IInv, PartyInv

(* The places that a step does not touch. *)
LEMMA SameHeld ==
    ASSUME UNCHANGED tasks PROVE \A f \in Futures : Held(f)' <=> Held(f)
BY DEF Held

LEMMA SameOutbound ==
    ASSUME UNCHANGED letter PROVE \A f \in Futures : Outbound(f)' <=> Outbound(f)
BY DEF Outbound

LEMMA SameQueued ==
    ASSUME UNCHANGED chan PROVE \A f \in Futures : Queued(f)' <=> Queued(f)
BY DEF Queued

LEMMA SameNotifying ==
    ASSUME UNCHANGED <<pc, letter>> PROVE \A f \in Futures : Notifying(f)' <=> Notifying(f)
BY DEF Notifying

(* A future that moves on past its send leaves the tasks where they are. *)
LEMMA StayPlaced ==
    ASSUME IInv, UNCHANGED <<chan, tasks, letter, mail, pc>>,
           \A g \in Futures : fpc'[g] \in {"new", "send"} => fpc[g] \in {"new", "send"}
    PROVE  Placed'
<1>1. \A f \in Futures : /\ (Held(f)' <=> Held(f)) /\ (Outbound(f)' <=> Outbound(f))
                         /\ (Queued(f)' <=> Queued(f))
  BY SameHeld, SameOutbound, SameQueued
<1> QED
  BY <1>1 DEF IInv, Placed

(* The worker's part of the invariant, when only futures move. *)
LEMMA StayRight ==
    ASSUME RightMail, UNCHANGED <<tasks, boxes, letter, mail, pc>> PROVE RightMail'
BY DEF RightMail

-----------------------------------------------------------------------------
(* The futures' steps, one by one. *)
LEMMA FirstPollIInv == ASSUME IInv, NEW f \in Futures, FirstPoll(f) PROVE IInv'
<1> USE DEF IInv, PartyInv
<1>0. /\ fpc[f] = "new" /\ fpc' = [fpc EXCEPT ![f] = "send"]
      /\ waker' = [waker EXCEPT ![f] = host[f]]
      /\ UNCHANGED <<chan, launched, side, fired, oneWait, mail, pc, tasks, boxes, letter, host, woken>>
  BY DEF FirstPoll, Moves, Register, taskVars, workerVars
<1>a. fpc \in [Futures -> Stages] /\ waker \in [Futures -> Hosts \cup {None}]
      /\ host \in [Futures -> Hosts]
  BY DEF TypeOK, Stages
<1>1. TypeOK'
  BY <1>0 DEF TypeOK
<1>2. SingleWorker' /\ Control'
  BY <1>0, <1>a DEF SingleWorker, Control
<1>3. RightMail'
  BY <1>0, StayRight
<1>4. Placed'
  BY <1>0, <1>a, StayPlaced
<1>5. Told'
  BY <1>0, <1>a DEF Told
<1>6. Noticed'
  <2>1. \A g \in Futures : Notifying(g)' <=> Notifying(g)
    BY <1>0, SameNotifying
  <2> QED
    BY <1>0, <1>a, <2>1 DEF Noticed
<1> QED
  BY <1>1, <1>2, <1>3, <1>4, <1>5, <1>6

LEMMA SendIInv == ASSUME IInv, NEW f \in Futures, Send(f) PROVE IInv'
<1> USE DEF IInv, PartyInv
<1>0. /\ fpc[f] = "send" /\ fpc' = [fpc EXCEPT ![f] = "swap"]
      /\ chan = <<>> /\ chan' = <<[task |-> f, box |-> f]>>
      /\ UNCHANGED <<launched, side, fired, oneWait, mail, pc, tasks, boxes, letter, waker, host, woken>>
  BY DEF Send, Moves, taskVars, workerVars
<1>a. fpc \in [Futures -> Stages]
  BY DEF TypeOK, Stages
<1>b. /\ chan' \in Seq([task : Futures, box : Futures]) /\ Len(chan') <= 1
      /\ chan' # <<>> /\ chan'[1].task = f /\ chan'[1].box = f
  BY <1>0
<1>1. TypeOK'
  BY <1>0, <1>b DEF TypeOK
<1>2. SingleWorker' /\ Control'
  BY <1>0, <1>a DEF SingleWorker, Control
<1>3. RightMail'
  BY <1>0, StayRight
<1>4. Placed'
  <2>1. \A g \in Futures : /\ (Held(g)' <=> Held(g)) /\ (Outbound(g)' <=> Outbound(g))
                           /\ (Queued(g)' <=> g = f)
    BY <1>0, <1>b, SameHeld, SameOutbound DEF Queued
  <2>2. ~Held(f) /\ ~Outbound(f) /\ mail[f] = None
    BY <1>0 DEF Placed
  <2>3. \A g \in Futures : fpc'[g] \in {"new", "send"} => fpc[g] \in {"new", "send"} /\ g # f
    BY <1>0, <1>a
  <2> QED
    BY <1>0, <1>b, <2>1, <2>2, <2>3 DEF Placed
<1>5. Told'
  BY <1>0, <1>a DEF Told
<1>6. Noticed'
  <2>1. \A g \in Futures : Notifying(g)' <=> Notifying(g)
    BY <1>0, SameNotifying
  <2>2. mail[f] = None
    BY <1>0 DEF Placed
  <2> QED
    BY <1>0, <1>a, <2>1, <2>2 DEF Noticed
<1> QED
  BY <1>1, <1>2, <1>3, <1>4, <1>5, <1>6

LEMMA SwapIInv == ASSUME IInv, NEW f \in Futures, Swap(f) PROVE IInv'
<1> USE DEF IInv, PartyInv
<1>0. /\ fpc[f] = "swap" /\ fpc' = [fpc EXCEPT ![f] = IF launched THEN "wake" ELSE "launch"]
      /\ launched' = TRUE
      /\ UNCHANGED <<chan, side, fired, oneWait, mail, pc, tasks, boxes, letter, waker, host, woken>>
  BY DEF Swap, Moves, taskVars, workerVars
<1>a. fpc \in [Futures -> Stages]
  BY DEF TypeOK, Stages
<1>1. TypeOK'
  <2>1. launched' \in BOOLEAN
    BY <1>0
  <2> QED
    BY <1>0, <2>1 DEF TypeOK
<1>2. SingleWorker' /\ Control'
  BY <1>0, <1>a DEF SingleWorker, Control
<1>3. RightMail'
  BY <1>0, StayRight
<1>4. Placed'
  BY <1>0, <1>a, StayPlaced
<1>5. Told'
  <2> SUFFICES ASSUME NEW k \in Threads, pc[k] \in {"call", "wait"}, chan # <<>>
               PROVE  side \/ \E g \in Futures : fpc'[g] \in {"swap", "wake"}
    BY <1>0 DEF Told
  <2>1. fpc'[f] = "wake"
    BY <1>0, <1>a DEF Control
  <2> QED
    BY <2>1
<1>6. Noticed'
  <2>1. \A g \in Futures : Notifying(g)' <=> Notifying(g)
    BY <1>0, SameNotifying
  <2> QED
    BY <1>0, <1>a, <2>1 DEF Noticed
<1> QED
  BY <1>1, <1>2, <1>3, <1>4, <1>5, <1>6

LEMMA LaunchIInv == ASSUME IInv, NEW f \in Futures, Launch(f) PROVE IInv'
<1> USE DEF IInv, PartyInv
<1>0. PICK k \in Threads :
      /\ fpc[f] = "launch" /\ fpc' = [fpc EXCEPT ![f] = "pending"]
      /\ pc[k] = "none" /\ pc' = [pc EXCEPT ![k] = "start"]
      /\ UNCHANGED <<chan, launched, side, fired, oneWait, mail, tasks, boxes, letter, waker, host, woken>>
  BY DEF Launch, Moves, Goes, taskVars
<1>a. fpc \in [Futures -> Stages] /\ DOMAIN pc = Threads
  BY DEF TypeOK, Stages
<1>b. \A m \in Threads : pc[m] = "none" /\ pc'[m] \in {"none", "start"} /\ (m # k => pc'[m] = "none")
  BY <1>0, <1>a DEF SingleWorker
<1>c. \A m \in Threads : letter[m].box \notin Futures
  BY <1>b DEF Control
<1>1. TypeOK'
  BY <1>0 DEF TypeOK
<1>2. SingleWorker'
  BY <1>0, <1>a, <1>b DEF SingleWorker, Control
<1>3. Control'
  BY <1>0, <1>a, <1>b, <1>c DEF Control
<1>4. RightMail'
  BY <1>0, <1>b DEF RightMail
<1>5. Placed'
  <2>1. \A g \in Futures : /\ (Held(g)' <=> Held(g)) /\ (Outbound(g)' <=> Outbound(g))
                           /\ (Queued(g)' <=> Queued(g))
    BY <1>0, SameHeld, SameOutbound, SameQueued
  <2>2. \A g \in Futures : fpc'[g] \in {"new", "send"} => fpc[g] \in {"new", "send"}
    BY <1>0, <1>a
  <2> QED
    BY <1>0, <1>b, <2>1, <2>2 DEF Placed
<1>6. Told'
  BY <1>b DEF Told
<1>7. Noticed'
  <2>1. \A g \in Futures : ~Notifying(g)' /\ ~Notifying(g)
    BY <1>0, <1>b, <1>c DEF Notifying
  <2> QED
    BY <1>0, <1>a, <2>1 DEF Noticed
<1> QED
  BY <1>1, <1>2, <1>3, <1>4, <1>5, <1>6, <1>7

LEMMA WakeIInv == ASSUME IInv, NEW f \in Futures, Wake(f) PROVE IInv'
<1> USE DEF IInv, PartyInv
<1>0. /\ fpc[f] = "wake" /\ fpc' = [fpc EXCEPT ![f] = "pending"] /\ side' = TRUE
      /\ UNCHANGED <<chan, launched, fired, oneWait, mail, pc, tasks, boxes, letter, waker, host, woken>>
  BY DEF Wake, Moves, taskVars, workerVars
<1>a. fpc \in [Futures -> Stages]
  BY DEF TypeOK, Stages
<1>1. TypeOK'
  <2>1. side' \in BOOLEAN
    BY <1>0
  <2> QED
    BY <1>0, <2>1 DEF TypeOK
<1>2. SingleWorker' /\ Control'
  BY <1>0, <1>a DEF SingleWorker, Control
<1>3. RightMail'
  BY <1>0, StayRight
<1>4. Placed'
  BY <1>0, <1>a, StayPlaced
<1>5. Told'
  BY <1>0 DEF Told
<1>6. Noticed'
  <2>1. \A g \in Futures : Notifying(g)' <=> Notifying(g)
    BY <1>0, SameNotifying
  <2> QED
    BY <1>0, <1>a, <2>1 DEF Noticed
<1> QED
  BY <1>1, <1>2, <1>3, <1>4, <1>5, <1>6

LEMMA PollIInv == ASSUME IInv, NEW f \in Futures, NEW h \in Hosts, Poll(f, h) PROVE IInv'
<1> USE DEF IInv, PartyInv
<1>0. /\ fpc[f] = "pending"
      /\ fpc' = [fpc EXCEPT ![f] = IF mail[f] # None THEN "done" ELSE "register"]
      /\ host' = [host EXCEPT ![f] = h] /\ woken' = woken \ {f}
      /\ UNCHANGED <<chan, launched, side, fired, oneWait, mail, pc, tasks, boxes, letter, waker>>
  BY DEF Poll, Read, taskVars, workerVars
<1>a. fpc \in [Futures -> Stages] /\ host \in [Futures -> Hosts]
  BY DEF TypeOK, Stages
<1>1. TypeOK'
  BY <1>0 DEF TypeOK
<1>2. SingleWorker' /\ Control'
  BY <1>0, <1>a DEF SingleWorker, Control
<1>3. RightMail'
  BY <1>0, StayRight
<1>4. Placed'
  BY <1>0, <1>a, StayPlaced
<1>5. Told'
  BY <1>0, <1>a DEF Told
<1>6. Noticed'
  <2>1. \A g \in Futures : Notifying(g)' <=> Notifying(g)
    BY <1>0, SameNotifying
  <2> QED
    BY <1>0, <1>a, <2>1 DEF Noticed
<1> QED
  BY <1>1, <1>2, <1>3, <1>4, <1>5, <1>6

LEMMA RegisterAgainIInv == ASSUME IInv, NEW f \in Futures, RegisterAgain(f) PROVE IInv'
<1> USE DEF IInv, PartyInv
<1>0. /\ fpc[f] = "register" /\ fpc' = [fpc EXCEPT ![f] = "reread"]
      /\ waker' = [waker EXCEPT ![f] = host[f]]
      /\ UNCHANGED <<chan, launched, side, fired, oneWait, mail, pc, tasks, boxes, letter, host, woken>>
  BY DEF RegisterAgain, Moves, Register, taskVars, workerVars
<1>a. fpc \in [Futures -> Stages] /\ waker \in [Futures -> Hosts \cup {None}]
  BY DEF TypeOK, Stages
<1>1. TypeOK'
  BY <1>0 DEF TypeOK
<1>2. SingleWorker' /\ Control'
  BY <1>0, <1>a DEF SingleWorker, Control
<1>3. RightMail'
  BY <1>0, StayRight
<1>4. Placed'
  BY <1>0, <1>a, StayPlaced
<1>5. Told'
  BY <1>0, <1>a DEF Told
<1>6. Noticed'
  <2>1. \A g \in Futures : Notifying(g)' <=> Notifying(g)
    BY <1>0, SameNotifying
  <2> QED
    BY <1>0, <1>a, <2>1 DEF Noticed
<1> QED
  BY <1>1, <1>2, <1>3, <1>4, <1>5, <1>6

LEMMA RereadIInv == ASSUME IInv, NEW f \in Futures, Reread(f) PROVE IInv'
<1> USE DEF IInv, PartyInv
<1>0. /\ fpc[f] = "reread"
      /\ fpc' = [fpc EXCEPT ![f] = IF mail[f] # None THEN "done" ELSE "pending"]
      /\ UNCHANGED <<chan, launched, side, fired, oneWait, mail, pc, tasks, boxes, letter, waker, host, woken>>
  BY DEF Reread, Read, taskVars, workerVars
<1>a. fpc \in [Futures -> Stages]
  BY DEF TypeOK, Stages
<1>1. TypeOK'
  BY <1>0 DEF TypeOK
<1>2. SingleWorker' /\ Control'
  BY <1>0, <1>a DEF SingleWorker, Control
<1>3. RightMail'
  BY <1>0, StayRight
<1>4. Placed'
  BY <1>0, <1>a, StayPlaced
<1>5. Told'
  BY <1>0, <1>a DEF Told
<1>6. Noticed'
  <2>1. \A g \in Futures : Notifying(g)' <=> Notifying(g)
    BY <1>0, SameNotifying
  <2> QED
    BY <1>0, <1>a, <2>1 DEF Noticed
<1> QED
  BY <1>1, <1>2, <1>3, <1>4, <1>5, <1>6

LEMMA CancelIInv == ASSUME IInv, NEW f \in Futures, Cancel(f) PROVE IInv'
<1> USE DEF IInv, PartyInv
<1>0. /\ fpc[f] = "pending" /\ fpc' = [fpc EXCEPT ![f] = "dropped"]
      /\ UNCHANGED <<chan, launched, side, fired, oneWait, mail, pc, tasks, boxes, letter, waker, host, woken>>
  BY DEF Cancel, Moves, taskVars, workerVars
<1>a. fpc \in [Futures -> Stages]
  BY DEF TypeOK, Stages
<1>1. TypeOK'
  BY <1>0 DEF TypeOK
<1>2. SingleWorker' /\ Control'
  BY <1>0, <1>a DEF SingleWorker, Control
<1>3. RightMail'
  BY <1>0, StayRight
<1>4. Placed'
  BY <1>0, <1>a, StayPlaced
<1>5. Told'
  BY <1>0, <1>a DEF Told
<1>6. Noticed'
  <2>1. \A g \in Futures : Notifying(g)' <=> Notifying(g)
    BY <1>0, SameNotifying
  <2> QED
    BY <1>0, <1>a, <2>1 DEF Noticed
<1> QED
  BY <1>1, <1>2, <1>3, <1>4, <1>5, <1>6

LEMMA FireIInv == ASSUME IInv, NEW f \in Futures, Fire(f) PROVE IInv'
<1> USE DEF IInv, PartyInv
<1>0. /\ fired' = fired \cup {f}
      /\ UNCHANGED <<chan, launched, side, oneWait, mail, pc, tasks, boxes, letter,
                     fpc, waker, host, woken>>
  BY DEF Fire, workerVars, futureVars
<1>a. fpc \in [Futures -> Stages]
  BY DEF TypeOK, Stages
<1>1. TypeOK'
  BY <1>0 DEF TypeOK
<1>2. SingleWorker' /\ Control'
  BY <1>0, <1>a DEF SingleWorker, Control
<1>3. RightMail'
  BY <1>0, StayRight
<1>4. Placed'
  BY <1>0, <1>a, StayPlaced
<1>5. Told'
  BY <1>0, <1>a DEF Told
<1>6. Noticed'
  <2>1. \A g \in Futures : Notifying(g)' <=> Notifying(g)
    BY <1>0, SameNotifying
  <2> QED
    BY <1>0, <1>a, <2>1 DEF Noticed
<1> QED
  BY <1>1, <1>2, <1>3, <1>4, <1>5, <1>6

-----------------------------------------------------------------------------
(* What RemoveAt leaves of a sequence. *)
LEMMA RemoveAtFacts ==
    ASSUME NEW S, NEW q \in Seq(S), NEW i \in 1..Len(q)
    PROVE  /\ RemoveAt(q, i) \in Seq(S) /\ Len(RemoveAt(q, i)) = Len(q) - 1
           /\ \A j \in 1..(Len(q) - 1) :
                 RemoveAt(q, i)[j] = IF j < i THEN q[j] ELSE q[j + 1]
<1> DEFINE a == SubSeq(q, 1, i - 1)
           b == SubSeq(q, i + 1, Len(q))
<1>1. a \in Seq(S) /\ Len(a) = i - 1 /\ \A j \in 1..(i - 1) : a[j] = q[j]
  OBVIOUS
<1>2. b \in Seq(S) /\ Len(b) = Len(q) - i /\ \A j \in 1..(Len(q) - i) : b[j] = q[i + j]
  OBVIOUS
<1>3. RemoveAt(q, i) = a \o b
  BY DEF RemoveAt
<1> HIDE DEF a, b
<1>4. a \o b \in Seq(S) /\ Len(a \o b) = Len(q) - 1
  <2>1. a \o b \in Seq(S) /\ Len(a \o b) = Len(a) + Len(b)
    BY <1>1, <1>2, ConcatProperties
  <2>2. Len(q) \in Nat /\ i \in Nat
    OBVIOUS
  <2>3. (i - 1) + (Len(q) - i) = Len(q) - 1
    BY <2>2
  <2> QED
    BY <1>1, <1>2, <2>1, <2>3
<1>5. ASSUME NEW j \in 1..(Len(q) - 1)
      PROVE  (a \o b)[j] = IF j < i THEN q[j] ELSE q[j + 1]
  <2>1. CASE j < i
    BY <1>1, <1>2, <2>1
  <2>2. CASE j >= i
    <3>1. (a \o b)[j] = b[j - (i - 1)]
      BY <1>1, <1>2, <2>2
    <3>2. b[j - (i - 1)] = q[i + (j - (i - 1))] /\ i + (j - (i - 1)) = j + 1
      BY <1>2, <2>2
    <3> QED
      BY <2>2, <3>1, <3>2
  <2>3. j < i \/ j >= i
    OBVIOUS
  <2> QED
    BY <2>1, <2>2, <2>3
<1> QED
  BY <1>3, <1>4, <1>5

(* A worker that exists is the only one, and nobody is about to launch. *)
LEMMA OnlyWorker ==
    ASSUME IInv, NEW k \in Threads, pc[k] # "none"
    PROVE  /\ launched /\ \A f \in Futures : fpc[f] # "launch"
           /\ \A m \in Threads : m # k =>
                 pc[m] = "none" /\ tasks[m] = <<>> /\ letter[m].box \notin Futures
BY DEF IInv, PartyInv, SingleWorker, Control

(* What a step of the worker k has to keep, when it is the only one. *)
LEMMA GoesControl ==
    ASSUME IInv, NEW k \in Threads, pc[k] # "none", NEW to, to # "none",
           pc' = [pc EXCEPT ![k] = to],
           UNCHANGED <<launched, fpc>>,
           \A m \in Threads : m # k => UNCHANGED <<tasks[m], letter[m]>>,
           to \in {"idle", "closing"} => tasks'[k] = <<>>,
           letter'[k].box \in Futures <=> to \in {"mail", "notify"}
    PROVE  /\ pc'[k] = to /\ (\A m \in Threads : m # k => pc'[m] = pc[m])
           /\ SingleWorker' /\ Control'
<1>1. pc'[k] = to /\ (\A m \in Threads : m # k => pc'[m] = "none" /\ pc[m] = "none")
  BY OnlyWorker DEF IInv, PartyInv, TypeOK
<1>2. SingleWorker'
  BY <1>1, OnlyWorker DEF SingleWorker
<1>3. Control'
  BY <1>1, OnlyWorker DEF IInv, Control
<1> QED
  BY <1>1, <1>2, <1>3

(* The futures' part, when a worker neither delivers nor notifies. *)
LEMMA StayNoticed ==
    ASSUME IInv, UNCHANGED <<fpc, mail, waker, host, woken>>,
           \A f \in Futures : Notifying(f)' <=> Notifying(f)
    PROVE  Noticed'
BY DEF IInv, Noticed

(* A step of the worker that moves no task: it looks at the channel only     *)
(* through the guard that lets it wait. *)
LEMMA PlainGoesIInv ==
    ASSUME IInv, NEW k \in Threads, pc[k] \notin {"none", "mail", "notify"},
           NEW to \in {"greedy", "call", "wait", "refresh", "idle", "closing"},
           pc' = [pc EXCEPT ![k] = to], side' \in BOOLEAN,
           UNCHANGED <<chan, launched, fired, oneWait, mail, tasks, boxes, letter,
                       fpc, waker, host, woken>>,
           to \in {"idle", "closing"} => tasks[k] = <<>>,
           to \in {"call", "wait"} => chan = <<>> \/ (pc[k] = "call" /\ side' = side)
    PROVE  IInv'
<1> USE DEF IInv, PartyInv
<1>0. letter[k].box \notin Futures
  BY DEF Control
<1>1. TypeOK'
  BY DEF TypeOK
<1>2. /\ pc'[k] = to /\ (\A m \in Threads : m # k => pc'[m] = pc[m])
      /\ SingleWorker' /\ Control'
  BY <1>0, GoesControl
<1>3. RightMail'
  BY <1>2 DEF RightMail
<1>4. Placed'
  <2>1. \A g \in Futures : /\ (Held(g)' <=> Held(g)) /\ (Outbound(g)' <=> Outbound(g))
                           /\ (Queued(g)' <=> Queued(g))
    BY SameHeld, SameOutbound, SameQueued
  <2> QED
    BY <1>2, <2>1 DEF Placed
<1>5. Told'
  BY <1>2, OnlyWorker DEF Told
<1>6. Noticed'
  <2>1. \A f \in Futures : Notifying(f)' <=> Notifying(f)
    BY <1>2 DEF Notifying
  <2> QED
    BY <2>1, StayNoticed
<1> QED
  BY <1>1, <1>2, <1>3, <1>4, <1>5, <1>6

LEMMA GreedyEndsIInv == ASSUME IInv, NEW k \in Threads, GreedyEnds(k) PROVE IInv'
<1>0. UNCHANGED <<chan, launched, side, fired, oneWait, mail, tasks, boxes, letter,
                  fpc, waker, host, woken>> /\ chan = <<>> /\ side' \in BOOLEAN
  BY DEF GreedyEnds, taskVars, futureVars, IInv, PartyInv, TypeOK
<1>1. CASE pc[k] = "start" /\ pc' = [pc EXCEPT ![k] = LoopWith(tasks[k])]
  <2>1. LoopWith(tasks[k]) \in {"greedy", "idle"} /\ (LoopWith(tasks[k]) = "idle" => tasks[k] = <<>>)
    BY DEF LoopWith
  <2> QED
    BY <1>0, <1>1, <2>1, PlainGoesIInv
<1>2. CASE pc[k] = "greedy" /\ pc' = [pc EXCEPT ![k] = "call"]
  BY <1>0, <1>2, PlainGoesIInv
<1> QED
  BY <1>1, <1>2 DEF GreedyEnds, Goes

LEMMA WaitingIInv ==
    ASSUME IInv, NEW k \in Threads, EnterWait(k) \/ WaitSide(k) \/ TimeOut(k) PROVE IInv'
<1>0. UNCHANGED <<chan, launched, side, fired, oneWait, mail, tasks, boxes, letter,
                  fpc, waker, host, woken>> /\ side' \in BOOLEAN
  BY DEF EnterWait, WaitSide, TimeOut, taskVars, futureVars, IInv, PartyInv, TypeOK
<1>1. CASE EnterWait(k)
  <2>1. pc[k] = "call" /\ pc' = [pc EXCEPT ![k] = "wait"]
    BY <1>1 DEF EnterWait, Goes
  <2> QED
    BY <1>0, <2>1, PlainGoesIInv
<1>2. CASE WaitSide(k)
  <2>1. pc[k] = "wait" /\ pc' = [pc EXCEPT ![k] = "refresh"]
    BY <1>2 DEF WaitSide, Goes
  <2> QED
    BY <1>0, <2>1, PlainGoesIInv
<1>3. CASE TimeOut(k)
  <2>1. pc[k] = "idle" /\ pc' = [pc EXCEPT ![k] = "closing"]
    BY <1>3 DEF TimeOut, Goes
  <2>2. tasks[k] = <<>>
    BY <2>1 DEF IInv, Control
  <2> QED
    BY <1>0, <2>1, <2>2, PlainGoesIInv
<1> QED
  BY <1>1, <1>2, <1>3

LEMMA RefreshIInv == ASSUME IInv, NEW k \in Threads, Refresh(k) PROVE IInv'
<1>0. /\ UNCHANGED <<chan, launched, fired, oneWait, mail, tasks, boxes, letter,
                     fpc, waker, host, woken>>
      /\ pc[k] = "refresh" /\ pc' = [pc EXCEPT ![k] = LoopWith(tasks[k])]
  BY DEF Refresh, Goes, taskVars, futureVars
<1>1. side' \in BOOLEAN
  BY DEF Refresh
<1>2. LoopWith(tasks[k]) \in {"greedy", "idle"} /\ (LoopWith(tasks[k]) = "idle" => tasks[k] = <<>>)
  BY DEF LoopWith
<1> QED
  BY <1>0, <1>1, <1>2, PlainGoesIInv

(* The worker is gone, and may be launched anew. *)
LEMMA CloseIInv == ASSUME IInv, NEW k \in Threads, Close(k) PROVE IInv'
<1> USE DEF IInv, PartyInv
<1>0. /\ pc[k] = "closing" /\ pc' = [pc EXCEPT ![k] = "none"] /\ launched' = FALSE
      /\ UNCHANGED <<chan, side, fired, oneWait, mail, tasks, boxes, letter, fpc, waker, host, woken>>
  BY DEF Close, Goes, taskVars, futureVars
<1>a. \A m \in Threads : pc'[m] = "none"
  BY <1>0, OnlyWorker DEF TypeOK
<1>b. (\A f \in Futures : fpc[f] # "launch")
      /\ \A m \in Threads : tasks[m] = <<>> /\ letter[m].box \notin Futures
  BY <1>0, OnlyWorker DEF Control
<1>1. TypeOK'
  <2>1. launched' \in BOOLEAN
    BY <1>0
  <2> QED
    BY <1>0, <2>1 DEF TypeOK
<1>2. SingleWorker' /\ Control'
  BY <1>0, <1>a, <1>b DEF SingleWorker, Control
<1>3. RightMail'
  BY <1>0, <1>a DEF RightMail
<1>4. Placed'
  <2>1. \A g \in Futures : /\ (Held(g)' <=> Held(g)) /\ (Outbound(g)' <=> Outbound(g))
                           /\ (Queued(g)' <=> Queued(g))
    BY <1>0, SameHeld, SameOutbound, SameQueued
  <2> QED
    BY <1>0, <1>a, <2>1 DEF Placed
<1>5. Told'
  BY <1>a DEF Told
<1>6. Noticed'
  <2>1. \A f \in Futures : ~Notifying(f)' /\ ~Notifying(f)
    BY <1>0, <1>a, <1>b DEF Notifying
  <2> QED
    BY <1>0, <2>1, StayNoticed
<1> QED
  BY <1>1, <1>2, <1>3, <1>4, <1>5, <1>6

(* A task passes from the channel to the worker. *)
LEMMA ReceiveIInv == ASSUME IInv, NEW k \in Threads, Receive(k) PROVE IInv'
<1> USE DEF IInv, PartyInv
<1> DEFINE to == IF pc[k] = "idle" THEN "greedy" ELSE pc[k]
<1>0. /\ pc[k] \in {"start", "greedy", "idle"} /\ chan # <<>> /\ chan' = <<>>
      /\ tasks' = [tasks EXCEPT ![k] = Append(tasks[k], Head(chan).task)]
      /\ boxes' = [boxes EXCEPT ![k] = Append(boxes[k], Head(chan).box)]
      /\ pc' = [pc EXCEPT ![k] = to]
      /\ UNCHANGED <<launched, side, fired, oneWait, letter, mail, fpc, waker, host, woken>>
  BY DEF Receive, taskVars, futureVars
<1>y. chan \in Seq([task : Futures, box : Futures]) /\ chan # <<>>
  BY <1>0 DEF TypeOK
<1>z. chan[1] \in [task : Futures, box : Futures] /\ Head(chan) = chan[1]
  <2>1. Len(chan) \in Nat /\ Len(chan) # 0
    BY <1>y
  <2>2. 1 \in 1..Len(chan)
    BY <2>1
  <2>3. chan[1] \in [task : Futures, box : Futures]
    BY <1>y, <2>2, ElementOfSeq
  <2>4. Head(chan) = chan[1]
    BY <1>y
  <2> QED
    BY <2>3, <2>4
<1>x. PICK f \in Futures : chan[1].task = f
  BY <1>z
<1>a. /\ f \in Futures /\ Head(chan).task = f /\ Queued(f)
  BY <1>x, <1>y, <1>z DEF Queued
<1>b. Head(chan).box = f
  BY <1>z, <1>a DEF Placed
<1>c. tasks \in [Threads -> Seq(Futures)] /\ boxes \in [Threads -> Seq(Futures)]
      /\ tasks[k] = boxes[k] /\ tasks[k] \in Seq(Futures)
  BY DEF TypeOK, RightMail
<1>d. to \in {"start", "greedy"}
  BY <1>0
<1> HIDE DEF to
<1>e. /\ tasks' = [tasks EXCEPT ![k] = Append(tasks[k], f)]
      /\ boxes' = [boxes EXCEPT ![k] = Append(boxes[k], f)]
  BY <1>0, <1>a, <1>b
<1>f. /\ tasks'[k] = Append(tasks[k], f) /\ boxes'[k] = Append(tasks[k], f)
      /\ \A m \in Threads : m # k => tasks'[m] = tasks[m] /\ boxes'[m] = boxes[m]
  BY <1>c, <1>e
<1>g. /\ Len(tasks[k]) \in Nat /\ Len(tasks'[k]) = Len(tasks[k]) + 1
      /\ tasks'[k][Len(tasks[k]) + 1] = f
      /\ \A i \in 1..Len(tasks[k]) : tasks'[k][i] = tasks[k][i]
  BY <1>a, <1>c, <1>f
<1>h. \A i \in 1..Len(tasks'[k]) : i \in 1..Len(tasks[k]) \/ i = Len(tasks[k]) + 1
  BY <1>g
<1>1. TypeOK'
  <2>1. Append(tasks[k], f) \in Seq(Futures)
    BY <1>a, <1>c
  <2>2. tasks' \in [Threads -> Seq(Futures)] /\ boxes' \in [Threads -> Seq(Futures)]
    BY <1>c, <1>e, <2>1
  <2>3. chan' \in Seq([task : Futures, box : Futures]) /\ Len(chan') <= 1
    BY <1>0
  <2> QED
    BY <1>0, <1>d, <2>2, <2>3 DEF TypeOK
<1>2. /\ pc'[k] = to /\ (\A m \in Threads : m # k => pc'[m] = pc[m])
      /\ SingleWorker' /\ Control'
  <2>1. letter'[k].box \notin Futures
    BY <1>0 DEF Control
  <2> QED
    BY <1>0, <1>d, <1>f, <2>1, GoesControl
<1>3. RightMail'
  BY <1>0, <1>2, <1>d, <1>f DEF RightMail
<1>4. Placed'
  <2>1. \A g \in Futures : /\ (Outbound(g)' <=> Outbound(g)) /\ ~Queued(g)'
    BY <1>0, SameOutbound DEF Queued
  <2>2. \A g \in Futures : Held(g)' <=> Held(g) \/ g = f
    <3>1. ASSUME NEW g \in Futures, Held(g)' PROVE Held(g) \/ g = f
      <4>1. PICK m \in Threads : \E i \in 1..Len(tasks'[m]) : tasks'[m][i] = g
        BY <3>1 DEF Held
      <4>2. CASE m = k
        BY <1>g, <1>h, <4>1, <4>2 DEF Held
      <4>3. CASE m # k
        BY <1>f, <4>1, <4>3 DEF Held
      <4> QED
        BY <4>2, <4>3
    <3>2. ASSUME NEW g \in Futures, Held(g) PROVE Held(g)'
      <4>1. PICK m \in Threads : \E i \in 1..Len(tasks[m]) : tasks[m][i] = g
        BY <3>2 DEF Held
      <4>2. CASE m = k
        <5>1. PICK i \in 1..Len(tasks[k]) : tasks[k][i] = g
          BY <4>1, <4>2
        <5>2. i \in 1..Len(tasks'[k]) /\ tasks'[k][i] = g
          BY <1>g, <5>1
        <5> QED
          BY <5>2 DEF Held
      <4>3. CASE m # k
        BY <1>f, <4>1, <4>3 DEF Held
      <4> QED
        BY <4>2, <4>3
    <3>3. Held(f)'
      <4>1. Len(tasks[k]) + 1 \in 1..Len(tasks'[k])
        BY <1>g
      <4> QED
        BY <1>g, <4>1 DEF Held
    <3> QED
      BY <3>1, <3>2, <3>3
  <2>3. ~Held(f) /\ ~Outbound(f) /\ mail[f] = None /\ fpc[f] \notin {"new", "send"}
    BY <1>a DEF Placed
  <2>4. \A i \in 1..Len(tasks[k]) : tasks[k][i] # f
    BY <2>3 DEF Held
  <2>5. \A i, j \in 1..Len(tasks'[k]) : tasks'[k][i] = tasks'[k][j] => i = j
    <3>1. \A i, j \in 1..Len(tasks[k]) : tasks[k][i] = tasks[k][j] => i = j
      BY DEF Placed
    <3> SUFFICES ASSUME NEW i \in 1..Len(tasks'[k]), NEW j \in 1..Len(tasks'[k]),
                        tasks'[k][i] = tasks'[k][j]
                 PROVE  i = j
      OBVIOUS
    <3>2. CASE i \in 1..Len(tasks[k]) /\ j \in 1..Len(tasks[k])
      BY <1>g, <3>1, <3>2
    <3>3. CASE i = Len(tasks[k]) + 1 /\ j \in 1..Len(tasks[k])
      BY <1>g, <2>4, <3>3
    <3>4. CASE j = Len(tasks[k]) + 1 /\ i \in 1..Len(tasks[k])
      BY <1>g, <2>4, <3>4
    <3> QED
      BY <1>h, <3>2, <3>3, <3>4
  <2>6. \A m \in Threads : /\ \A i, j \in 1..Len(tasks'[m]) : tasks'[m][i] = tasks'[m][j] => i = j
                           /\ pc'[m] = "notify" => mail'[letter'[m].box] # None
    <3> SUFFICES ASSUME NEW m \in Threads
                 PROVE  /\ \A i, j \in 1..Len(tasks'[m]) : tasks'[m][i] = tasks'[m][j] => i = j
                        /\ pc'[m] = "notify" => mail'[letter'[m].box] # None
      OBVIOUS
    <3>1. CASE m = k
      BY <1>2, <1>d, <2>5, <3>1
    <3>2. CASE m # k
      <4>1. tasks'[m] = tasks[m] /\ pc'[m] = pc[m] /\ UNCHANGED <<letter, mail>>
        BY <1>0, <1>2, <1>f, <3>2
      <4>2. \A i, j \in 1..Len(tasks[m]) : tasks[m][i] = tasks[m][j] => i = j
        BY DEF Placed
      <4>3. pc[m] = "notify" => mail[letter[m].box] # None
        BY DEF Placed
      <4> QED
        BY <4>1, <4>2, <4>3
    <3> QED
      BY <3>1, <3>2
  <2>7. \A g \in Futures :
        /\ Queued(g)' \/ Held(g)' \/ Outbound(g)' \/ mail'[g] # None =>
              fpc'[g] \notin {"new", "send"}
        /\ Held(g)' => ~Outbound(g)' /\ mail'[g] = None
    BY <1>0, <2>1, <2>2, <2>3 DEF Placed
  <2> QED
    BY <2>1, <2>6, <2>7 DEF Placed
<1>5. Told'
  BY <1>0 DEF Told
<1>6. Noticed'
  <2>1. \A g \in Futures : Notifying(g)' <=> Notifying(g)
    BY <1>0, <1>2, <1>d DEF Notifying
  <2> QED
    BY <1>0, <2>1, StayNoticed
<1> QED
  BY <1>1, <1>2, <1>3, <1>4, <1>5, <1>6

(* A fired task leaves both vectors for the worker's hand. *)
LEMMA WaitTaskIInv == ASSUME IInv, NEW k \in Threads, NEW i, WaitTask(k, i) PROVE IInv'
<1> USE DEF IInv, PartyInv
<1> DEFINE q == tasks[k]
<1>0. /\ i \in DOMAIN q /\ pc[k] = "wait" /\ pc' = [pc EXCEPT ![k] = "mail"]
      /\ letter' = [letter EXCEPT ![k] = [out |-> tasks[k][i], box |-> boxes[k][i]]]
      /\ tasks' = [tasks EXCEPT ![k] = RemoveAt(tasks[k], i)]
      /\ boxes' = [boxes EXCEPT ![k] = RemoveAt(boxes[k], i)]
      /\ UNCHANGED <<chan, launched, side, fired, oneWait, mail, fpc, waker, host, woken>>
  BY DEF WaitTask, Goes, taskVars, futureVars
<1>a. tasks \in [Threads -> Seq(Futures)] /\ boxes \in [Threads -> Seq(Futures)]
      /\ tasks[k] = boxes[k] /\ q \in Seq(Futures)
      /\ letter \in [Threads -> [out : Futures \cup {None}, box : Futures \cup {None}]]
  BY DEF TypeOK, RightMail
<1>b. Len(q) \in Nat /\ i \in 1..Len(q)
  BY <1>0, <1>a
<1>c. PICK f \in Futures : q[i] = f
  BY <1>a, <1>b, ElementOfSeq
<1> DEFINE r == RemoveAt(q, i)
<1>d. /\ r \in Seq(Futures) /\ Len(r) = Len(q) - 1
      /\ \A j \in 1..(Len(q) - 1) : r[j] = IF j < i THEN q[j] ELSE q[j + 1]
  BY <1>a, <1>b, RemoveAtFacts
<1>e. /\ tasks'[k] = r /\ boxes'[k] = r
      /\ \A m \in Threads : m # k => tasks'[m] = tasks[m] /\ boxes'[m] = boxes[m]
  BY <1>0, <1>a
<1>f. /\ letter'[k].out = f /\ letter'[k].box = f
      /\ \A m \in Threads : m # k => letter'[m] = letter[m]
  BY <1>0, <1>a, <1>c
<1>g. tasks' \in [Threads -> Seq(Futures)] /\ boxes' \in [Threads -> Seq(Futures)]
  BY <1>0, <1>a, <1>d
<1>h. letter' \in [Threads -> [out : Futures \cup {None}, box : Futures \cup {None}]]
  <2>1. [out |-> tasks[k][i], box |-> boxes[k][i]] \in [out : Futures \cup {None}, box : Futures \cup {None}]
    BY <1>a, <1>c
  <2> QED
    BY <1>0, <1>a, <2>1
<1>i. \A x, y \in 1..Len(q) : q[x] = q[y] => x = y
  BY DEF Placed
<1> HIDE DEF r, q
<1>1. TypeOK'
  BY <1>0, <1>g, <1>h DEF TypeOK
<1>2. /\ pc'[k] = "mail" /\ (\A m \in Threads : m # k => pc'[m] = pc[m])
      /\ SingleWorker' /\ Control'
  <2>1. letter'[k].box \in Futures
    BY <1>f
  <2> QED
    BY <1>0, <1>e, <1>f, <2>1, GoesControl
<1>3. Held(f)
  BY <1>b, <1>c DEF Held, q
<1>4. mail[f] = None /\ fpc[f] \notin {"new", "send"} /\ ~Queued(f)
  BY <1>3 DEF Placed
<1>5. RightMail'
  <2>1. \A m \in Threads :
          /\ tasks'[m] = boxes'[m] /\ letter'[m].out = letter'[m].box
          /\ pc'[m] = "mail" => mail'[letter'[m].box] = None
    <3> SUFFICES ASSUME NEW m \in Threads
                 PROVE  /\ tasks'[m] = boxes'[m] /\ letter'[m].out = letter'[m].box
                        /\ pc'[m] = "mail" => mail'[letter'[m].box] = None
      OBVIOUS
    <3>1. CASE m = k
      BY <1>0, <1>4, <1>e, <1>f, <3>1
    <3>2. CASE m # k
      BY <1>0, <1>2, <1>e, <1>f, <3>2 DEF RightMail
    <3> QED
      BY <3>1, <3>2
  <2>2. \A g \in Futures : mail'[g] \in {None, g}
    BY <1>0 DEF RightMail
  <2> QED
    BY <2>1, <2>2 DEF RightMail
<1>6. Placed'
  <2>1. \A m \in Threads : m # k => tasks[m] = <<>> /\ letter[m].box \notin Futures
    BY <1>0, OnlyWorker
  <2>2. \A g \in Futures : Outbound(g)' <=> g = f
    BY <1>f, <2>1 DEF Outbound
  <2>3. \A g \in Futures : Queued(g)' <=> Queued(g)
    BY <1>0, SameQueued
  <2>4. \A g \in Futures : Held(g)' => Held(g) /\ g # f
    <3> SUFFICES ASSUME NEW g \in Futures, Held(g)' PROVE Held(g) /\ g # f
      OBVIOUS
    <3>1. PICK m \in Threads : \E j \in 1..Len(tasks'[m]) : tasks'[m][j] = g
      BY DEF Held
    <3>2. m = k
      <4>1. m # k => Len(tasks'[m]) = 0
        BY <1>e, <2>1
      <4> QED
        BY <3>1, <4>1
    <3>3. PICK j \in 1..Len(r) : r[j] = g
      BY <1>e, <3>1, <3>2
    <3>4. j \in 1..(Len(q) - 1) /\ j \in 1..Len(q) /\ j + 1 \in 1..Len(q)
      BY <1>b, <1>d, <3>3
    <3>5. PICK x \in 1..Len(q) : q[x] = g /\ x # i
      <4>1. CASE j < i
        <5>1. q[j] = g /\ j # i
          BY <1>b, <1>d, <3>3, <3>4, <4>1
        <5> QED
          BY <3>4, <5>1
      <4>2. CASE ~(j < i)
        <5>1. q[j + 1] = g
          BY <1>d, <3>3, <3>4, <4>2
        <5>2. j + 1 # i
          BY <1>b, <3>4, <4>2
        <5> QED
          BY <3>4, <5>1, <5>2
      <4> QED
        BY <4>1, <4>2
    <3>6. g # f
      BY <1>b, <1>c, <1>i, <3>5
    <3> QED
      BY <3>5, <3>6 DEF Held, q
  <2>5. \A x, y \in 1..Len(r) : r[x] = r[y] => x = y
    <3> SUFFICES ASSUME NEW x \in 1..Len(r), NEW y \in 1..Len(r), r[x] = r[y] PROVE x = y
      OBVIOUS
    <3> DEFINE at(j) == IF j < i THEN j ELSE j + 1
    <3>1. /\ x \in 1..(Len(q) - 1) /\ y \in 1..(Len(q) - 1)
          /\ at(x) \in 1..Len(q) /\ at(y) \in 1..Len(q)
      BY <1>b, <1>d
    <3>2. r[x] = q[at(x)] /\ r[y] = q[at(y)]
      BY <1>d, <3>1
    <3>3. at(x) = at(y)
      BY <1>i, <3>1, <3>2
    <3> QED
      BY <1>b, <3>1, <3>3
  <2>6. \A m \in Threads : \A x, y \in 1..Len(tasks'[m]) : tasks'[m][x] = tasks'[m][y] => x = y
    BY <1>e, <2>1, <2>5
  <2>7. \A m \in Threads : pc'[m] = "notify" => mail'[letter'[m].box] # None
    BY <1>0, <1>2, OnlyWorker
  <2>8. \A g \in Futures :
        /\ Queued(g)' \/ Held(g)' \/ Outbound(g)' \/ mail'[g] # None =>
              fpc'[g] \notin {"new", "send"}
        /\ Queued(g)' => chan'[1].box = g /\ ~Held(g)' /\ ~Outbound(g)' /\ mail'[g] = None
        /\ Held(g)' => ~Outbound(g)' /\ mail'[g] = None
    BY <1>0, <1>4, <2>2, <2>3, <2>4 DEF Placed
  <2> QED
    BY <2>6, <2>7, <2>8 DEF Placed
<1>7. Told'
  BY <1>0, <1>2, OnlyWorker DEF Told
<1>8. Noticed'
  <2>1. \A g \in Futures : ~Notifying(g)' /\ ~Notifying(g)
    BY <1>0, <1>2, OnlyWorker DEF Notifying
  <2> QED
    BY <1>0, <2>1, StayNoticed
<1> QED
  BY <1>1, <1>2, <1>5, <1>6, <1>7, <1>8

(* The output is in the mailbox; its host is to be notified. *)
LEMMA SendMailIInv == ASSUME IInv, NEW k \in Threads, SendMail(k) PROVE IInv'
<1> USE DEF IInv, PartyInv
<1>a. PICK f \in Futures : letter[k].box = f
  BY DEF SendMail, Goes, Control
<1>0. /\ pc[k] = "mail" /\ pc' = [pc EXCEPT ![k] = "notify"]
      /\ mail' = [mail EXCEPT ![f] = f]
      /\ UNCHANGED <<chan, launched, side, fired, oneWait, tasks, boxes, letter,
                     fpc, waker, host, woken>>
  BY <1>a DEF SendMail, Goes, RightMail, taskVars, futureVars
<1>b. mail \in [Futures -> Futures \cup {None}] /\ mail[f] = None /\ f # None
  BY <1>0, <1>a, PartyAssumption DEF TypeOK, RightMail
<1>c. mail'[f] = f /\ \A g \in Futures : g # f => mail'[g] = mail[g]
  BY <1>0, <1>b
<1>d. \A m \in Threads : m # k => pc[m] = "none" /\ tasks[m] = <<>> /\ letter[m].box \notin Futures
  BY <1>0, OnlyWorker
<1>1. TypeOK'
  BY <1>0 DEF TypeOK
<1>2. /\ pc'[k] = "notify" /\ (\A m \in Threads : m # k => pc'[m] = pc[m])
      /\ SingleWorker' /\ Control'
  BY <1>0, <1>a, GoesControl
<1>3. RightMail'
  BY <1>0, <1>2, <1>c, <1>d DEF RightMail
<1>4. Outbound(f)
  BY <1>a DEF Outbound
<1>5. Placed'
  <2>1. \A g \in Futures : /\ (Held(g)' <=> Held(g)) /\ (Outbound(g)' <=> Outbound(g))
                           /\ (Queued(g)' <=> Queued(g))
    BY <1>0, SameHeld, SameOutbound, SameQueued
  <2>2. ~Held(f) /\ ~Queued(f) /\ fpc[f] \notin {"new", "send"}
    BY <1>4 DEF Placed
  <2>3. \A g \in Futures :
        /\ Queued(g)' \/ Held(g)' \/ Outbound(g)' \/ mail'[g] # None =>
              fpc'[g] \notin {"new", "send"}
        /\ Queued(g)' => chan'[1].box = g /\ ~Held(g)' /\ ~Outbound(g)' /\ mail'[g] = None
        /\ Held(g)' => ~Outbound(g)' /\ mail'[g] = None
    BY <1>0, <1>c, <2>1, <2>2 DEF Placed
  <2>4. \A m \in Threads : /\ \A x, y \in 1..Len(tasks'[m]) : tasks'[m][x] = tasks'[m][y] => x = y
                           /\ pc'[m] = "notify" => mail'[letter'[m].box] # None
    BY <1>0, <1>2, <1>a, <1>b, <1>c, <1>d DEF Placed
  <2> QED
    BY <2>3, <2>4 DEF Placed
<1>6. Told'
  BY <1>0, <1>2, <1>d DEF Told
<1>7. Noticed'
  <2>1. Notifying(f)' /\ \A g \in Futures : g # f => (Notifying(g)' <=> Notifying(g))
    BY <1>0, <1>2, <1>a DEF Notifying
  <2> QED
    BY <1>0, <1>b, <1>c, <2>1 DEF Noticed
<1> QED
  BY <1>1, <1>2, <1>3, <1>5, <1>6, <1>7

(* The host whose waker is in the mailbox is woken. *)
LEMMA NotifyIInv == ASSUME IInv, NEW k \in Threads, Notify(k) PROVE IInv'
<1> USE DEF IInv, PartyInv
<1>a. PICK f \in Futures : letter[k].box = f
  BY DEF Notify, Goes, Control
<1> DEFINE to == IF oneWait THEN "refresh" ELSE LoopWith(tasks[k])
<1>0. /\ pc[k] = "notify" /\ pc' = [pc EXCEPT ![k] = to]
      /\ waker' = [waker EXCEPT ![f] = None]
      /\ woken' = IF waker[f] = host[f] THEN woken \cup {f} ELSE woken
      /\ letter' = [letter EXCEPT ![k] = [out |-> None, box |-> None]]
      /\ UNCHANGED <<chan, launched, side, fired, oneWait, mail, tasks, boxes, fpc, host>>
  BY <1>a DEF Notify, Goes, taskVars
<1>b. to \in {"refresh", "greedy", "idle"} /\ (to = "idle" => tasks[k] = <<>>)
  BY DEF LoopWith
<1> HIDE DEF to
<1>c. /\ letter \in [Threads -> [out : Futures \cup {None}, box : Futures \cup {None}]]
      /\ waker \in [Futures -> Hosts \cup {None}] /\ None \notin Futures
  BY PartyAssumption DEF TypeOK
<1>d. /\ letter'[k].out = None /\ letter'[k].box = None
      /\ \A m \in Threads : m # k => letter'[m] = letter[m]
  BY <1>0, <1>c
<1>e. \A m \in Threads : m # k => pc[m] = "none" /\ tasks[m] = <<>> /\ letter[m].box \notin Futures
  BY <1>0, OnlyWorker
<1>f. mail[f] # None /\ Notifying(f)
  BY <1>0, <1>a DEF Placed, Notifying
<1>1. TypeOK'
  <2>1. letter' \in [Threads -> [out : Futures \cup {None}, box : Futures \cup {None}]]
    BY <1>0, <1>c
  <2>2. waker' \in [Futures -> Hosts \cup {None}]
    BY <1>0, <1>c
  <2>3. woken' \subseteq Futures
    BY <1>0 DEF TypeOK
  <2> QED
    BY <1>0, <1>b, <2>1, <2>2, <2>3 DEF TypeOK
<1>2. /\ pc'[k] = to /\ (\A m \in Threads : m # k => pc'[m] = pc[m])
      /\ SingleWorker' /\ Control'
  <2>1. letter'[k].box \notin Futures
    BY <1>c, <1>d
  <2> QED
    BY <1>0, <1>b, <1>d, <2>1, GoesControl
<1>3. RightMail'
  BY <1>0, <1>2, <1>b, <1>d, <1>e DEF RightMail
<1>4. Placed'
  <2>1. \A g \in Futures : /\ (Held(g)' <=> Held(g)) /\ (Queued(g)' <=> Queued(g))
    BY <1>0, SameHeld, SameQueued
  <2>2. \A g \in Futures : ~Outbound(g)'
    BY <1>c, <1>d, <1>e DEF Outbound
  <2>3. \A m \in Threads : pc'[m] # "notify"
    BY <1>2, <1>b, <1>e
  <2> QED
    BY <1>0, <2>1, <2>2, <2>3 DEF Placed
<1>5. Told'
  BY <1>2, <1>b, <1>e DEF Told
<1>6. Noticed'
  <2>1. \A g \in Futures : ~Notifying(g)' /\ (g # f => ~Notifying(g))
    BY <1>2, <1>a, <1>b, <1>e DEF Notifying
  <2>2. \A g \in Futures : g # f => waker'[g] = waker[g]
    BY <1>0, <1>c
  <2>3. fpc[f] \in {"swap", "launch", "wake", "pending"} => waker[f] = host[f]
    BY <1>f DEF Noticed
  <2>4. \A g \in Futures :
          fpc[g] \in {"send", "swap", "launch", "wake", "pending", "reread"} /\ mail[g] = None
            => waker'[g] = host[g]
    BY <1>f, <2>2 DEF Noticed
  <2>5. \A g \in Futures :
          fpc[g] \in {"swap", "launch", "wake", "pending"} /\ mail[g] # None => g \in woken'
    BY <1>0, <2>1, <2>3 DEF Noticed
  <2> QED
    BY <1>0, <2>1, <2>4, <2>5 DEF Noticed
<1> QED
  BY <1>1, <1>2, <1>3, <1>4, <1>5, <1>6

-----------------------------------------------------------------------------
(* Every step keeps the invariant. *)
LEMMA StepIInv == ASSUME IInv, [Next]_vars PROVE IInv'
<1>1. ASSUME NEW f \in Futures,
             FirstPoll(f) \/ FutureStep(f) \/ (\E h \in Hosts : Poll(f, h)) \/ Cancel(f) \/ Fire(f)
      PROVE  IInv'
  BY <1>1, FirstPollIInv, SendIInv, SwapIInv, LaunchIInv, WakeIInv, RegisterAgainIInv,
     RereadIInv, PollIInv, CancelIInv, FireIInv DEF FutureStep
<1>2. ASSUME NEW k \in Threads, WorkerStep(k) \/ TimeOut(k) PROVE IInv'
  BY <1>2, ReceiveIInv, GreedyEndsIInv, WaitingIInv, WaitTaskIInv, SendMailIInv, NotifyIInv,
     RefreshIInv, CloseIInv DEF WorkerStep
<1>3. CASE UNCHANGED vars
  <2>0. UNCHANGED <<chan, launched, side, fired, oneWait, mail, pc, tasks, boxes, letter,
                    waker, fpc, host, woken>>
    BY <1>3 DEF vars, taskVars, workerVars, futureVars
  <2>1. PartyInv' /\ RightMail'
    BY <2>0 DEF IInv, PartyInv, TypeOK, SingleWorker, RightMail
  <2>2. Control' /\ Told'
    BY <2>0 DEF IInv, Control, Told
  <2>3. Placed'
    BY <2>0, StayPlaced
  <2>4. Noticed'
    BY <2>0, SameNotifying, StayNoticed
  <2> QED
    BY <2>1, <2>2, <2>3, <2>4 DEF IInv
<1> QED
  BY <1>1, <1>2, <1>3 DEF Next

(* The inductive invariant: thread_launched covers the worker and its launch,*)
(* a task is in one place at a time, and the waker in the mailbox is the     *)
(* host's until the host has been notified.                                  *)
THEOREM Invariance == Spec => []IInv
BY InitIInv, StepIInv, PTL DEF Spec

(* Whatever races with a launch or a shutdown, a pool has one worker thread. *)
THEOREM OneWorkerAtATime == Spec => []PartyInv
<1>1. IInv => PartyInv
  BY DEF IInv
<1> QED
  BY <1>1, Invariance, PTL

(* Outputs reach the future whose task produced them, once: the two vectors  *)
(* of the worker stay in step and the asserts of send_mail hold.             *)
THEOREM MailIsRight == Spec => []RightMail
<1>1. IInv => RightMail
  BY DEF IInv
<1> QED
  BY <1>1, Invariance, PTL

(* A worker in wait_any (pool.rs) is told of a task in the channel, or will  *)
(* be by the sender.                                                         *)
THEOREM WaiterAlwaysTold == Spec => []WaitIsTold
<1>1. IInv => WaitIsTold
  BY DEF IInv, Told, WaitIsTold
<1> QED
  BY <1>1, Invariance, PTL

(* Mail for a future between two polls has woken its host or is about to,    *)
(* however the second poll's register and reread (future.rs) interleave with *)
(* the delivery.                                                             *)
THEOREM MailAlwaysNoticed == Spec => []MailNoticed
<1>1. IInv => MailNoticed
  BY DEF IInv, Noticed, MailNoticed, Notifying
<1> QED
  BY <1>1, Invariance, PTL
-----------------------------------------------------------------------------
(* The safety core of Answered: no task is lost on its way, and the shutdown *)
(* race is the only way for a pool to come to rest before its futures have.  *)

\* The task of a future that has sent it is somewhere until its mail is there.
Located ==
    \A f \in Futures :
        fpc[f] \notin {"new", "send"} => Queued(f) \/ Held(f) \/ Outbound(f) \/ mail[f] # None

\* thread_launched says that there is a worker, or a future about to start one.
Manned ==
    launched => (\E k \in Threads : pc[k] # "none") \/ (\E f \in Futures : fpc[f] = "launch")

\* What a future in poll, a woken host and the worker can go on with: the
\* guards of their actions.
FutureCanStep(f) ==
    \/ fpc[f] = "send" /\ chan = <<>>
    \/ fpc[f] \in {"swap", "wake", "register", "reread"}
    \/ fpc[f] = "launch" /\ \E k \in Threads : pc[k] = "none"
HostCanStep(f) == f \in woken /\ fpc[f] = "pending"
WorkerCanStep(k) ==
    \/ pc[k] \in {"start", "greedy", "call", "mail", "notify", "refresh", "closing"}
    \/ pc[k] = "idle" /\ chan # <<>>
    \/ pc[k] = "wait" /\ (side \/ \E i \in 1..Len(tasks[k]) : tasks[k][i] \in fired)

\* While the task of a future has fired and the future is neither resolved nor
\* dropped, somebody can take a step that is due, or the pool is stranded.
NeverStuck ==
    \A f \in fired :
        fpc[f] \notin {"new", "done", "dropped"} =>
            \/ Stranded
            \/ \E g \in Futures : FutureCanStep(g) \/ HostCanStep(g)
            \/ \E k \in Threads : WorkerCanStep(k)

(* A step that moves no task. *)
LEMMA StayLocated ==
    ASSUME Located, UNCHANGED <<chan, tasks, letter, mail>>,
           \A g \in Futures : fpc[g] \in {"new", "send"} => fpc'[g] \in {"new", "send"}
    PROVE  Located'
<1>1. \A f \in Futures : /\ (Held(f)' <=> Held(f)) /\ (Outbound(f)' <=> Outbound(f))
                         /\ (Queued(f)' <=> Queued(f))
  BY SameHeld, SameOutbound, SameQueued
<1> QED
  BY <1>1 DEF Located

(* Of the futures' steps only the send moves a task. *)
LEMMA FutureLocated ==
    ASSUME IInv, Located, NEW f \in Futures,
           FirstPoll(f) \/ FutureStep(f) \/ (\E h \in Hosts : Poll(f, h)) \/ Cancel(f) \/ Fire(f)
    PROVE  Located'
<1>a. fpc \in [Futures -> Stages]
  BY DEF IInv, PartyInv, TypeOK, Stages
<1>1. CASE Send(f)
  <2>1. /\ fpc' = [fpc EXCEPT ![f] = "swap"] /\ chan = <<>> /\ chan' = <<[task |-> f, box |-> f]>>
        /\ UNCHANGED <<mail, tasks, letter>>
    BY <1>1 DEF Send, Moves, workerVars
  <2>2. Queued(f)' /\ \A g \in Futures : ~Queued(g)
    BY <2>1 DEF Queued
  <2>3. \A g \in Futures : (Held(g)' <=> Held(g)) /\ (Outbound(g)' <=> Outbound(g))
    BY <2>1, SameHeld, SameOutbound
  <2> QED
    BY <1>a, <2>1, <2>2, <2>3 DEF Located
<1>2. CASE FirstPoll(f) \/ Swap(f) \/ Launch(f) \/ Wake(f) \/ RegisterAgain(f) \/ Cancel(f)
  <2>1. /\ UNCHANGED <<chan, tasks, letter, mail>>
        /\ \E to \in Stages : fpc' = [fpc EXCEPT ![f] = to] /\ (fpc[f] = "new" => to = "send")
        /\ fpc[f] # "send"
    BY <1>2 DEF FirstPoll, Swap, Launch, Wake, RegisterAgain, Cancel, Moves, Stages, workerVars
  <2> QED
    BY <1>a, <2>1, StayLocated
<1>3. CASE Reread(f) \/ \E h \in Hosts : Poll(f, h)
  <2>1. /\ UNCHANGED <<chan, tasks, letter, mail>> /\ fpc[f] \in {"pending", "reread"}
        /\ \E to \in Stages : fpc' = [fpc EXCEPT ![f] = to]
    BY <1>3 DEF Reread, Poll, Read, Stages, workerVars
  <2> QED
    BY <1>a, <2>1, StayLocated
<1>4. CASE Fire(f)
  <2>1. UNCHANGED <<chan, tasks, letter, mail, fpc>>
    BY <1>4 DEF Fire, workerVars, futureVars
  <2> QED
    BY <2>1, StayLocated
<1> QED
  BY <1>1, <1>2, <1>3, <1>4 DEF FutureStep

(* From the channel to the worker's vector. *)
LEMMA ReceiveLocated == ASSUME IInv, Located, NEW k \in Threads, Receive(k) PROVE Located'
<1>0. /\ chan # <<>> /\ tasks' = [tasks EXCEPT ![k] = Append(tasks[k], Head(chan).task)]
      /\ UNCHANGED <<letter, mail, fpc>>
  BY DEF Receive, futureVars
<1>1. /\ chan \in Seq([task : Futures, box : Futures]) /\ Head(chan) = chan[1]
      /\ tasks \in [Threads -> Seq(Futures)]
  BY <1>0 DEF IInv, PartyInv, TypeOK
<1>2. PICK x \in Futures : chan[1].task = x
  <2>1. 1 \in 1..Len(chan)
    BY <1>0, <1>1
  <2>2. chan[1] \in [task : Futures, box : Futures]
    BY <1>1, <2>1, ElementOfSeq
  <2> QED
    BY <2>2
<1> DEFINE q == tasks[k]
<1>3. q \in Seq(Futures) /\ tasks'[k] = Append(q, x)
      /\ \A m \in Threads : m # k => tasks'[m] = tasks[m]
  BY <1>0, <1>1, <1>2
<1> HIDE DEF q
<1>5. /\ Len(q) \in Nat /\ Len(tasks'[k]) = Len(q) + 1 /\ tasks'[k][Len(q) + 1] = x
      /\ \A i \in 1..Len(q) : tasks'[k][i] = q[i]
  BY <1>3
<1>6. ASSUME NEW g \in Futures, Held(g) PROVE Held(g)'
  <2>1. PICK m \in Threads : \E i \in 1..Len(tasks[m]) : tasks[m][i] = g
    BY <1>6 DEF Held
  <2>2. CASE m = k
    <3>1. PICK i \in 1..Len(q) : q[i] = g
      BY <2>1, <2>2 DEF q
    <3>2. i \in 1..Len(tasks'[k]) /\ tasks'[k][i] = g
      BY <1>5, <3>1
    <3> QED
      BY <3>2 DEF Held
  <2>3. CASE m # k
    BY <1>3, <2>1, <2>3 DEF Held
  <2> QED
    BY <2>2, <2>3
<1>7. Held(x)'
  <2>1. Len(q) + 1 \in 1..Len(tasks'[k])
    BY <1>5
  <2> QED
    BY <1>5, <2>1 DEF Held
<1>8. \A g \in Futures : (Queued(g) => g = x) /\ (Outbound(g)' <=> Outbound(g))
  BY <1>0, <1>2, SameOutbound DEF Queued
<1> QED
  BY <1>0, <1>6, <1>7, <1>8 DEF Located

(* From the vector to the worker's hand. *)
LEMMA WaitTaskLocated ==
    ASSUME IInv, Located, NEW k \in Threads, NEW i, WaitTask(k, i) PROVE Located'
<1> DEFINE q == tasks[k]
<1>0. /\ i \in DOMAIN q /\ pc[k] = "wait"
      /\ letter' = [letter EXCEPT ![k] = [out |-> tasks[k][i], box |-> boxes[k][i]]]
      /\ tasks' = [tasks EXCEPT ![k] = RemoveAt(q, i)]
      /\ UNCHANGED <<chan, mail, fpc>>
  BY DEF WaitTask, Goes, futureVars
<1>1. /\ tasks \in [Threads -> Seq(Futures)] /\ tasks[k] = boxes[k] /\ q \in Seq(Futures)
      /\ DOMAIN letter = Threads
  BY DEF IInv, PartyInv, TypeOK, RightMail
<1>2. Len(q) \in Nat /\ i \in 1..Len(q)
  BY <1>0, <1>1
<1> DEFINE r == RemoveAt(q, i)
<1>3. /\ Len(r) = Len(q) - 1
      /\ \A j \in 1..(Len(q) - 1) : r[j] = IF j < i THEN q[j] ELSE q[j + 1]
  BY <1>1, <1>2, RemoveAtFacts
<1>4. /\ tasks'[k] = r /\ letter'[k].box = q[i]
      /\ \A m \in Threads : m # k => tasks'[m] = tasks[m] /\ letter'[m] = letter[m]
  BY <1>0, <1>1
<1>5. letter[k].box \notin Futures
  BY <1>0 DEF IInv, Control
<1>6. \A g \in Futures : Outbound(g) => Outbound(g)'
  BY <1>4, <1>5 DEF Outbound
<1>7. \A g \in Futures : g = q[i] => Outbound(g)'
  BY <1>4 DEF Outbound
<1> HIDE DEF q, r
<1>8. ASSUME NEW g \in Futures, Held(g), g # q[i] PROVE Held(g)'
  <2>1. PICK m \in Threads : \E j \in 1..Len(tasks[m]) : tasks[m][j] = g
    BY <1>8 DEF Held
  <2>2. CASE m = k
    <3>1. PICK j \in 1..Len(q) : q[j] = g
      BY <2>1, <2>2 DEF q
    <3>2. CASE j < i
      <4>1. j \in 1..(Len(q) - 1) /\ j \in 1..Len(r)
        BY <1>2, <1>3, <3>1, <3>2
      <4>2. r[j] = g
        BY <1>3, <3>1, <3>2, <4>1
      <4> QED
        BY <1>4, <4>1, <4>2 DEF Held
    <3>3. CASE j > i
      <4>1. j - 1 \in 1..(Len(q) - 1) /\ j - 1 \in 1..Len(r) /\ ~(j - 1 < i) /\ (j - 1) + 1 = j
        BY <1>2, <1>3, <3>1, <3>3
      <4>2. r[j - 1] = g
        BY <1>3, <3>1, <4>1
      <4> QED
        BY <1>4, <4>1, <4>2 DEF Held
    <3>4. j # i
      BY <1>8, <3>1
    <3> QED
      BY <1>2, <3>2, <3>3, <3>4
  <2>3. CASE m # k
    BY <1>4, <2>1, <2>3 DEF Held
  <2> QED
    BY <2>2, <2>3
<1>9. \A g \in Futures : Queued(g)' <=> Queued(g)
  BY <1>0, SameQueued
<1> QED
  BY <1>0, <1>6, <1>7, <1>8, <1>9 DEF Located

(* Every step keeps the tasks located. *)
LEMMA StepLocated == ASSUME IInv, Located, [Next]_vars PROVE Located'
<1> USE DEF taskVars, workerVars, futureVars
<1>1. ASSUME NEW k \in Threads,
             GreedyEnds(k) \/ EnterWait(k) \/ WaitSide(k) \/ Refresh(k) \/ TimeOut(k) \/ Close(k)
      PROVE  Located'
  <2>1. UNCHANGED <<chan, tasks, letter, mail, fpc>>
    BY <1>1 DEF GreedyEnds, EnterWait, WaitSide, Refresh, TimeOut, Close
  <2> QED
    BY <2>1, StayLocated
<1>2. ASSUME NEW k \in Threads, SendMail(k) PROVE Located'
  <2>1. PICK x \in Futures : letter[k].box = x
    BY <1>2 DEF SendMail, Goes, IInv, Control
  <2>2. mail' = [mail EXCEPT ![x] = x] /\ UNCHANGED <<chan, tasks, letter, fpc>>
    BY <1>2, <2>1 DEF SendMail, IInv, RightMail
  <2>3. \A g \in Futures : mail[g] # None => mail'[g] # None
    BY <2>2, PartyAssumption DEF IInv, PartyInv, TypeOK
  <2>4. \A f \in Futures : /\ (Held(f)' <=> Held(f)) /\ (Outbound(f)' <=> Outbound(f))
                           /\ (Queued(f)' <=> Queued(f))
    BY <2>2, SameHeld, SameOutbound, SameQueued
  <2> QED
    BY <2>2, <2>3, <2>4 DEF Located
<1>3. ASSUME NEW k \in Threads, Notify(k) PROVE Located'
  <2>1. PICK x \in Futures : letter[k].box = x /\ mail[x] # None
    BY <1>3 DEF Notify, Goes, IInv, Control, Placed
  <2>2. letter' = [letter EXCEPT ![k] = [out |-> None, box |-> None]] /\ UNCHANGED <<chan, tasks, mail, fpc>>
    BY <1>3 DEF Notify
  <2>3. \A g \in Futures : Outbound(g) => Outbound(g)' \/ g = x
    BY <2>1, <2>2 DEF Outbound, IInv, PartyInv, TypeOK
  <2>4. \A f \in Futures : (Held(f)' <=> Held(f)) /\ (Queued(f)' <=> Queued(f))
    BY <2>2, SameHeld, SameQueued
  <2> QED
    BY <2>1, <2>2, <2>3, <2>4 DEF Located
<1>4. CASE UNCHANGED vars
  BY <1>4, StayLocated DEF vars
<1> QED
  BY <1>1, <1>2, <1>3, <1>4, FutureLocated, ReceiveLocated, WaitTaskLocated DEF Next, WorkerStep

(* thread_launched is raised by the future that then launches, and lowered   *)
(* by the worker that leaves.                                                *)
LEMMA StepManned == ASSUME IInv, Manned, [Next]_vars PROVE Manned'
<1> USE DEF taskVars, workerVars, futureVars
<1>a. fpc \in [Futures -> Stages] /\ DOMAIN pc = Threads
  BY DEF IInv, PartyInv, TypeOK, Stages
<1>1. ASSUME NEW f \in Futures, Swap(f) PROVE Manned'
  <2>1. fpc[f] = "swap" /\ fpc' = [fpc EXCEPT ![f] = IF launched THEN "wake" ELSE "launch"]
        /\ UNCHANGED pc
    BY <1>1 DEF Swap, Moves
  <2>2. CASE launched
    BY <1>a, <2>1, <2>2 DEF Manned
  <2>3. CASE ~launched
    BY <1>a, <2>1, <2>3 DEF Manned
  <2> QED
    BY <2>2, <2>3
<1>2. ASSUME NEW f \in Futures, Launch(f) PROVE Manned'
  BY <1>2, <1>a DEF Launch, Goes, Manned
<1>3. ASSUME NEW f \in Futures,
             \/ FirstPoll(f) \/ Send(f) \/ Wake(f) \/ RegisterAgain(f) \/ Reread(f)
             \/ (\E h \in Hosts : Poll(f, h)) \/ Cancel(f) \/ Fire(f)
      PROVE  Manned'
  <2>1. UNCHANGED <<launched, pc>> /\ (UNCHANGED fpc \/ fpc[f] # "launch")
    BY <1>3 DEF FirstPoll, Send, Wake, RegisterAgain, Reread, Poll, Cancel, Fire, Moves
  <2>2. \A g \in Futures : fpc[g] = "launch" => fpc'[g] = "launch"
    BY <1>3, <1>a, <2>1 DEF FirstPoll, Send, Wake, RegisterAgain, Reread, Poll, Read, Cancel, Fire, Moves
  <2> QED
    BY <2>1, <2>2 DEF Manned
<1>4. ASSUME NEW k \in Threads, Close(k) PROVE Manned'
  BY <1>4 DEF Close, Manned
<1>5. ASSUME NEW k \in Threads, (WorkerStep(k) /\ ~Close(k)) \/ TimeOut(k) PROVE Manned'
  <2>1. UNCHANGED <<launched, fpc>> /\ \E to : to # "none" /\ pc' = [pc EXCEPT ![k] = to]
    BY <1>5 DEF WorkerStep, Receive, GreedyEnds, EnterWait, WaitSide, WaitTask, SendMail, Notify,
                Refresh, TimeOut, Goes, LoopWith
  <2>2. \A m \in Threads : pc[m] # "none" => pc'[m] # "none"
    BY <1>a, <2>1
  <2> QED
    BY <2>1, <2>2 DEF Manned
<1>6. CASE UNCHANGED vars
  BY <1>6 DEF vars, Manned
<1> QED
  BY <1>1, <1>2, <1>3, <1>4, <1>5, <1>6 DEF Next, FutureStep

(* A task in the channel is received, or somebody is on the way to see to    *)
(* it, unless the pool is stranded.                                          *)
LEMMA ChannelServed ==
    ASSUME IInv, Manned, chan # <<>>, ~Stranded
    PROVE  (\E g \in Futures : FutureCanStep(g)) \/ (\E k \in Threads : WorkerCanStep(k))
<1>1. CASE \E k \in Threads : pc[k] # "none"
  <2>1. PICK k \in Threads : pc[k] # "none"
    BY <1>1
  <2>2. pc[k] \in {"start", "greedy", "call", "wait", "mail", "notify", "refresh", "idle", "closing"}
    BY <2>1 DEF IInv, PartyInv, TypeOK
  <2>3. CASE pc[k] = "wait"
    BY <2>3 DEF IInv, Told, WorkerCanStep, FutureCanStep
  <2> QED
    BY <2>2, <2>3 DEF WorkerCanStep
<1>2. CASE \A k \in Threads : pc[k] = "none"
  <2>1. \E g \in Futures : fpc[g] \in {"swap", "launch"}
    BY <1>2 DEF Stranded, Manned
  <2> QED
    BY <1>2, <2>1, PartyAssumption DEF FutureCanStep
<1> QED
  BY <1>1, <1>2

(* Wherever the task of an unresolved future is, there is a step to take. *)
LEMMA LocatedNotStuck == IInv /\ Located /\ Manned => NeverStuck
<1> SUFFICES ASSUME IInv, Located, Manned, ~Stranded, NEW f \in fired,
                    fpc[f] \notin {"new", "done", "dropped"}
             PROVE  \/ \E g \in Futures : FutureCanStep(g) \/ HostCanStep(g)
                    \/ \E k \in Threads : WorkerCanStep(k)
  BY DEF NeverStuck
<1>0. f \in Futures /\ fpc[f] \in {"send", "swap", "launch", "wake", "pending", "register", "reread"}
  BY DEF IInv, PartyInv, TypeOK
<1>1. CASE chan # <<>>
  BY <1>1, ChannelServed
<1>2. CASE chan = <<>> /\ fpc[f] \in {"send", "swap", "wake", "register", "reread"}
  BY <1>0, <1>2 DEF FutureCanStep
<1>3. CASE fpc[f] = "launch"
  BY <1>0, <1>3, PartyAssumption DEF IInv, PartyInv, SingleWorker, FutureCanStep
<1>4. CASE chan = <<>> /\ fpc[f] = "pending"
  <2>1. Held(f) \/ Outbound(f) \/ mail[f] # None
    BY <1>0, <1>4 DEF Located, Queued
  <2>2. CASE Held(f)
    <3>1. PICK k \in Threads : \E i \in 1..Len(tasks[k]) : tasks[k][i] = f
      BY <2>2 DEF Held
    <3>2. tasks[k] # <<>>
      BY <3>1
    <3>3. pc[k] \in {"start", "greedy", "call", "wait", "mail", "notify", "refresh"}
      BY <3>2 DEF IInv, PartyInv, TypeOK, Control
    <3> QED
      BY <3>1, <3>3 DEF WorkerCanStep
  <2>3. CASE Outbound(f)
    BY <1>0, <2>3 DEF Outbound, IInv, Control, WorkerCanStep
  <2>4. CASE mail[f] # None
    BY <1>0, <1>4, <2>4 DEF IInv, Noticed, Notifying, WorkerCanStep, HostCanStep
  <2> QED
    BY <2>1, <2>2, <2>3, <2>4
<1> QED
  BY <1>0, <1>1, <1>2, <1>3, <1>4

(* A pool with a fired task whose future waits always has a step that is     *)
(* due, of a future in poll, of a woken host or of the worker, unless a      *)
(* shutdown has crossed a send (pool.rs:150-151): that race is the only way  *)
(* for the pool to stop.                                                     *)
THEOREM OnlyShutdownStrands == Spec => []NeverStuck
<1>1. Init => Located /\ Manned
  BY DEF Init, Located, Manned
<1>2. IInv /\ Located /\ Manned /\ [Next]_vars => (Located /\ Manned)'
  BY StepLocated, StepManned
<1>3. Spec => [](Located /\ Manned)
  BY <1>1, <1>2, Invariance, PTL DEF Spec
<1> QED
  BY <1>3, LocatedNotStuck, Invariance, PTL
=============================================================================
