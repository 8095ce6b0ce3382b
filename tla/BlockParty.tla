----------------------------- MODULE BlockParty -----------------------------
(***************************************************************************)
(* One pool of block_party (block_party/src/pool.rs, future.rs): futures   *)
(* hand their blocking task to a single worker thread, which waits on all  *)
(* the tasks it has at once and mails each output back.  The thread is     *)
(* launched by whoever finds none, told of new tasks through a side        *)
(* channel, and dies when it has had nothing to do for a second.           *)
(*                                                                         *)
(* External: the implementation of the Task and Sidechannel traits         *)
(* (lib.rs:37-72).  A task fires at any time; wait_any returns a fired     *)
(* task or a signal of the side channel.  The side channel keeps a wake    *)
(* that meets no active wait_any for the next one, which the pool relies   *)
(* on and lib.rs:39 does not ask: EnterWait_Forgets is one that does not.  *)
(***************************************************************************)
EXTENDS Naturals, Sequences, SequencesExt

CONSTANTS
    Futures,    \* futures of the pool; a future's task and its output share its name
    Threads,    \* identities for the worker threads
    None,
    Hosts,      \* async tasks a future may be polled from, each with its waker
    OneWaits    \* what Sidechannel::one_wait_only() may be

ASSUME PartyAssumption ==
    OneWaits \subseteq BOOLEAN /\ None \notin Futures \cup Hosts /\ Threads # {}

VARIABLES
    chan,       \* the bounded(1) channel of WorkerSideInfo: [task, box]
    launched,   \* thread_launched
    side,       \* the current side channel object is signalled
    oneWait,    \* it is replaced after every wait
    fired,      \* tasks whose blocking operation has finished
    pc, tasks, boxes,   \* the worker's place and its two parallel vectors
    letter,     \* the output and the mailbox wait_any_one is working on
    mail,       \* MailboxShared.output, None while has_output is FALSE
    waker,      \* the host whose waker is in the mailbox's AtomicWaker
    fpc,        \* where the future is in poll
    host,       \* the host that polls the future
    woken       \* its host has been woken for it since the last poll began

taskVars   == <<fired, oneWait>>
workerVars == <<pc, tasks, boxes, letter>>
futureVars == <<waker, fpc, host, woken>>
vars == <<chan, launched, side, taskVars, mail, workerVars, futureVars>>

Init ==
    /\ chan = <<>> /\ launched = FALSE /\ side = FALSE /\ fired = {} /\ oneWait \in OneWaits
    /\ pc = [k \in Threads |-> "none"]
    /\ tasks = [k \in Threads |-> <<>>] /\ boxes = [k \in Threads |-> <<>>]
    /\ letter = [k \in Threads |-> [out |-> None, box |-> None]]
    /\ mail = [f \in Futures |-> None]
    /\ waker = [f \in Futures |-> None]
    /\ fpc = [f \in Futures |-> "new"]
    /\ host \in [Futures -> Hosts]
    /\ woken = {}

Moves(f, from, to) == fpc[f] = from /\ fpc' = [fpc EXCEPT ![f] = to]
Goes(k, from, to)  == pc[k] = from /\ pc' = [pc EXCEPT ![k] = to]

-----------------------------------------------------------------------------
\* Future::poll, the first time: register, send, launch or wake, Pending.

Register(f) == waker' = [waker EXCEPT ![f] = host[f]]

FirstPoll(f) ==
    /\ Moves(f, "new", "send")
    /\ Register(f)
    /\ UNCHANGED <<chan, launched, side, taskVars, mail, workerVars, host, woken>>

\* The send blocks, inside poll, while the channel holds another task.
Send(f) ==
    /\ Moves(f, "send", "swap")
    /\ chan = <<>>
    /\ chan' = <<[task |-> f, box |-> f]>>
    /\ UNCHANGED <<launched, side, taskVars, mail, workerVars, waker, host, woken>>

Swap(f) ==
    /\ Moves(f, "swap", IF launched THEN "wake" ELSE "launch")
    /\ launched' = TRUE
    /\ UNCHANGED <<chan, side, taskVars, mail, workerVars, waker, host, woken>>

Launch(f) ==
    /\ Moves(f, "launch", "pending")
    /\ \E k \in Threads : Goes(k, "none", "start")
    /\ UNCHANGED <<chan, launched, side, taskVars, mail, tasks, boxes, letter, waker, host, woken>>

Wake(f) ==
    /\ Moves(f, "wake", "pending")
    /\ side' = TRUE
    /\ UNCHANGED <<chan, launched, taskVars, mail, workerVars, waker, host, woken>>

\* Later polls: read the mail, else register and look once more.  The host may
\* be another one than the last, and may poll without having been woken.
Read(f, otherwise) == fpc' = [fpc EXCEPT ![f] = IF mail[f] # None THEN "done" ELSE otherwise]

Poll(f, h) ==
    /\ fpc[f] = "pending"
    /\ Read(f, "register")
    /\ host' = [host EXCEPT ![f] = h]
    /\ woken' = woken \ {f}
    /\ UNCHANGED <<chan, launched, side, taskVars, mail, workerVars, waker>>

RegisterAgain(f) ==
    /\ Moves(f, "register", "reread")
    /\ Register(f)
    /\ UNCHANGED <<chan, launched, side, taskVars, mail, workerVars, host, woken>>

\* A poll that does not look again once it has registered.
Reread_Skipped(f) ==
    /\ Moves(f, "reread", "pending")
    /\ UNCHANGED <<chan, launched, side, taskVars, mail, workerVars, waker, host, woken>>

Reread(f) ==
    /\ fpc[f] = "reread"
    /\ Read(f, "pending")
    /\ UNCHANGED <<chan, launched, side, taskVars, mail, workerVars, waker, host, woken>>

\* The program drops the future; its task stays with the pool.
Cancel(f) ==
    /\ Moves(f, "pending", "dropped")
    /\ UNCHANGED <<chan, launched, side, taskVars, mail, workerVars, waker, host, woken>>

Fire(f) ==
    /\ f \notin fired
    /\ fired' = fired \cup {f}
    /\ UNCHANGED <<chan, launched, side, oneWait, mail, workerVars, futureVars>>

-----------------------------------------------------------------------------
\* The worker thread.

\* Where the loop goes with these tasks.
LoopWith(ts) == IF ts # <<>> THEN "greedy" ELSE "idle"

\* A receive takes the task and the mailbox of the next WorkerSideInfo.
Receive(k) ==
    /\ pc[k] \in {"start", "greedy", "idle"}
    /\ chan # <<>>
    /\ chan' = <<>>
    /\ tasks' = [tasks EXCEPT ![k] = Append(@, Head(chan).task)]
    /\ boxes' = [boxes EXCEPT ![k] = Append(@, Head(chan).box)]
    /\ pc' = [pc EXCEPT ![k] = IF @ = "idle" THEN "greedy" ELSE @]
    /\ UNCHANGED <<launched, side, taskVars, letter, mail, futureVars>>

\* read_greedy finds the channel empty.
GreedyEnds(k) ==
    /\ chan = <<>>
    /\ \/ Goes(k, "start", LoopWith(tasks[k]))
       \/ Goes(k, "greedy", "call")
    /\ UNCHANGED <<chan, launched, side, taskVars, mail, tasks, boxes, letter, futureVars>>

\* A side channel that only wakes a wait_any that is active.
EnterWait_Forgets(k) ==
    /\ Goes(k, "call", "wait")
    /\ side' = FALSE
    /\ UNCHANGED <<chan, launched, taskVars, mail, tasks, boxes, letter, futureVars>>

\* wait_any is active: it can be woken from now on.
EnterWait(k) ==
    /\ Goes(k, "call", "wait")
    /\ UNCHANGED <<chan, launched, side, taskVars, mail, tasks, boxes, letter, futureVars>>

\* A removal that takes the mailbox from the end.
WaitTask_PopsBox(k, i) ==
    /\ i \in DOMAIN tasks[k] /\ tasks[k][i] \in fired
    /\ Goes(k, "wait", "mail")
    /\ letter' = [letter EXCEPT ![k] = [out |-> tasks[k][i], box |-> Last(boxes[k])]]
    /\ tasks' = [tasks EXCEPT ![k] = RemoveAt(@, i)]
    /\ boxes' = [boxes EXCEPT ![k] = Front(@)]
    /\ UNCHANGED <<chan, launched, side, taskVars, mail, futureVars>>

\* wait_any returns a task: it leaves both vectors.
WaitTask(k, i) ==
    /\ i \in DOMAIN tasks[k] /\ tasks[k][i] \in fired
    /\ Goes(k, "wait", "mail")
    /\ letter' = [letter EXCEPT ![k] = [out |-> tasks[k][i], box |-> boxes[k][i]]]
    /\ tasks' = [tasks EXCEPT ![k] = RemoveAt(@, i)]
    /\ boxes' = [boxes EXCEPT ![k] = RemoveAt(@, i)]
    /\ UNCHANGED <<chan, launched, side, taskVars, mail, futureVars>>

\* wait_any returns the side channel, which one_wait_only or not is replaced.
WaitSide(k) ==
    /\ side
    /\ Goes(k, "wait", "refresh")
    /\ UNCHANGED <<chan, launched, side, taskVars, mail, tasks, boxes, letter, futureVars>>

SendMail(k) ==
    /\ Goes(k, "mail", "notify")
    /\ mail' = [mail EXCEPT ![letter[k].box] = letter[k].out]
    /\ UNCHANGED <<chan, launched, side, taskVars, tasks, boxes, letter, futureVars>>

\* AtomicWaker::wake, for the host registered last.
Notify(k) ==
    LET f == letter[k].box
    IN  /\ Goes(k, "notify", IF oneWait THEN "refresh" ELSE LoopWith(tasks[k]))
        /\ waker' = [waker EXCEPT ![f] = None]
        /\ woken' = IF waker[f] = host[f] THEN woken \cup {f} ELSE woken
        /\ letter' = [letter EXCEPT ![k] = [out |-> None, box |-> None]]
        /\ UNCHANGED <<chan, launched, side, taskVars, mail, tasks, boxes, fpc, host>>

Refresh(k) ==
    /\ Goes(k, "refresh", LoopWith(tasks[k]))
    /\ side' = FALSE
    /\ UNCHANGED <<chan, launched, taskVars, mail, tasks, boxes, letter, futureVars>>

\* A worker that announces its shutdown and gives the channel a last look.
TimeOut_AnnouncesFirst(k) ==
    /\ chan = <<>>
    /\ Goes(k, "idle", "closing")
    /\ launched' = FALSE
    /\ UNCHANGED <<chan, side, taskVars, mail, tasks, boxes, letter, futureVars>>

\* recv_timeout expires.
TimeOut(k) ==
    /\ chan = <<>>
    /\ Goes(k, "idle", "closing")
    /\ UNCHANGED <<chan, launched, side, taskVars, mail, tasks, boxes, letter, futureVars>>

\* A worker that dies without a word.
Close_Silent(k) ==
    /\ Goes(k, "closing", "none")
    /\ UNCHANGED <<chan, launched, side, taskVars, mail, tasks, boxes, letter, futureVars>>

Close(k) ==
    /\ Goes(k, "closing", "none")
    /\ launched' = FALSE
    /\ UNCHANGED <<chan, side, taskVars, mail, tasks, boxes, letter, futureVars>>

-----------------------------------------------------------------------------
FutureStep(f) == Send(f) \/ Swap(f) \/ Launch(f) \/ Wake(f) \/ RegisterAgain(f) \/ Reread(f)
AnswerWake(f) == f \in woken /\ Poll(f, host[f])
WorkerStep(k) ==
    \/ Receive(k) \/ GreedyEnds(k) \/ EnterWait(k)
    \/ WaitSide(k) \/ (\E i \in DOMAIN tasks[k] : WaitTask(k, i))
    \/ SendMail(k) \/ Notify(k) \/ Refresh(k) \/ Close(k)

Next ==
    \/ \E f \in Futures :
          FirstPoll(f) \/ FutureStep(f) \/ (\E h \in Hosts : Poll(f, h)) \/ Cancel(f) \/ Fire(f)
    \/ \E k \in Threads : WorkerStep(k) \/ TimeOut(k)

\* A poll that has begun goes on, a host that is woken polls, and the worker
\* thread runs.  Nothing has to fire, to be polled first, or to time out.
Spec == Init /\ [][Next]_vars
        /\ \A f \in Futures : WF_vars(FutureStep(f)) /\ WF_vars(AnswerWake(f))
        /\ \A k \in Threads : WF_vars(WorkerStep(k))

-----------------------------------------------------------------------------
TypeOK ==
    /\ chan \in Seq([task : Futures, box : Futures]) /\ Len(chan) <= 1
    /\ launched \in BOOLEAN /\ side \in BOOLEAN /\ fired \subseteq Futures
    /\ oneWait \in BOOLEAN
    /\ pc \in [Threads -> {"none", "start", "greedy", "call", "wait", "mail", "notify",
                           "refresh", "idle", "closing"}]
    /\ tasks \in [Threads -> Seq(Futures)] /\ boxes \in [Threads -> Seq(Futures)]
    /\ letter \in [Threads -> [out : Futures \cup {None}, box : Futures \cup {None}]]
    /\ mail \in [Futures -> Futures \cup {None}]
    /\ waker \in [Futures -> Hosts \cup {None}]
    /\ fpc \in [Futures -> {"new", "send", "swap", "launch", "wake", "pending",
                            "register", "reread", "done", "dropped"}]
    /\ host \in [Futures -> Hosts]
    /\ woken \subseteq Futures

\* One worker owns the tasks of a pool at a time, from its launch to the store
\* that lets the next one be launched.
SingleWorker ==
    /\ \A k, m \in Threads : pc[k] # "none" /\ pc[m] # "none" => k = m
    /\ (\E f \in Futures : fpc[f] = "launch") => \A k \in Threads : pc[k] = "none"

PartyInv == TypeOK /\ SingleWorker

\* Every output goes to the future whose task produced it, and the vectors of
\* tasks and mailboxes never get out of step (pool.rs:104-106); the asserts of
\* send_mail (future.rs:54 and 62) hold.
RightMail ==
    /\ \A k \in Threads :
          /\ tasks[k] = boxes[k]
          /\ letter[k].out = letter[k].box
          /\ pc[k] = "mail" => mail[letter[k].box] = None
    /\ \A f \in Futures : mail[f] \in {None, f}

\* A worker does not sleep beside a task it has not been told of: while one is
\* in the channel of a waiting worker, the side channel is signalled or the
\* sender is still on its way to signal it.
WaitIsTold ==
    \A k \in Threads :
        pc[k] = "wait" /\ chan # <<>> =>
            side \/ \E f \in Futures : fpc[f] \in {"swap", "wake"}

\* Mail never waits for a future that nobody will poll: its host has been
\* woken, or the worker is about to wake it.
MailNoticed ==
    \A f \in Futures :
        fpc[f] = "pending" /\ mail[f] # None =>
            f \in woken \/ \E k \in Threads : pc[k] = "notify" /\ letter[k].box = f

\* A task is in the channel of a pool without a worker, and no sender is left
\* that would launch one.
Stranded ==
    /\ chan # <<>> /\ ~launched
    /\ \A k \in Threads : pc[k] = "none"
    /\ \A f \in Futures : fpc[f] \notin {"swap", "launch"}

\* A task that fires is answered and its future resolves, unless the future is
\* dropped or the shutdown race below has stranded the pool.
Answered ==
    \A f \in Futures :
        (fpc[f] # "new" /\ f \in fired) ~> (fpc[f] \in {"done", "dropped"} \/ Stranded)

\* "inform everyone we're shutting down" (pool.rs:150): whoever has not been
\* informed has been served, so a task in the channel has a worker, or a sender
\* that is about to launch one.
NeverStranded == ~Stranded
=============================================================================
