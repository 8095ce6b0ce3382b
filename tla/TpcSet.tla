------------------------------- MODULE TpcSet -------------------------------
(***************************************************************************)
(* A set of tasks that run in parallel (tpc/src/set.rs): the guard its host*)
(* awaits, and the children that run on tpc's workers.  There are two      *)
(* kinds: "scoped", futures behind an InternalGuard, and "simple",         *)
(* closures behind a SimpleGuard.  They differ in when the guard registers *)
(* its waker, in the memory orderings, and in what a drop looks at.        *)
(*                                                                         *)
(* A child is started by some worker once it is spawned (TpcPool), its     *)
(* polls do not overlap (TpcTask), and a child future may be polled once   *)
(* more after its completion (TpcTask's NoPollAfterReady fails).           *)
(*                                                                         *)
(* The orderings are modelled by views: what the host is certain to see of *)
(* the children's writes.  Children are on workers of their own, so that   *)
(* nothing else passes their writes on.  External: the AtomicWaker, whose  *)
(* register and wake are atomic, acquire and release.                      *)
(***************************************************************************)
EXTENDS Naturals, FiniteSets

CONSTANTS
    Children,       \* the tasks a set may have
    Kinds,          \* the kinds of sets considered
    CounterSize     \* 2^32: children_remaining is a u32

ASSUME SetAssumption ==
    /\ IsFiniteSet(Children)
    /\ Kinds \subseteq {"scoped", "simple"}
    /\ CounterSize \in Nat /\ Cardinality(Children) < CounterSize

VARIABLES
    kind, members,  \* of this set
    guard,          \* new, spawning, idle (between polls), look, register,
                    \* recheck, ready, and gone: left, panicked
    remaining,      \* SharedSet.children_remaining
    registered,     \* SharedSet.waker holds the host's waker
    woken,          \* the host has been woken since its last poll began
    child,          \* absent, queued, running, waking, returning, finished,
                    \* dropped, lost (its thread has panicked)
    repolled,       \* history: children polled after their completion
    carried,        \* children whose writes come with an acquire of remaining
    wakerView,      \* the same for the AtomicWaker and the wake it makes
    seen            \* children whose writes the host is certain to see

hostVars == <<guard, registered, woken, seen>>
viewVars == <<carried, wakerView>>
setVars  == <<kind, members>>
vars == <<setVars, hostVars, remaining, child, repolled, viewVars>>

Init ==
    /\ kind \in Kinds /\ members \in SUBSET Children
    /\ guard = "new"
    /\ remaining = IF kind = "simple" THEN Cardinality(members) ELSE 0
    /\ registered = FALSE /\ woken = FALSE
    /\ child = [c \in Children |-> "absent"]
    /\ repolled = {} /\ carried = {} /\ wakerView = {} /\ seen = {}

Goes(c, from, to) == child[c] = from /\ child' = [child EXCEPT ![c] = to]

-----------------------------------------------------------------------------
\* The host polls the guard.

\* A first poll that leaves the waker for later, in a scoped guard.
FirstPoll_NoRegister ==
    /\ guard = "new" /\ guard' = "spawning"
    /\ remaining' = Cardinality(members)
    /\ UNCHANGED <<setVars, registered, woken, seen, child, repolled, viewVars>>

\* A scoped guard registers its waker and sets the counter before it spawns.
FirstPoll ==
    /\ guard = "new" /\ guard' = "spawning"
    /\ remaining' = Cardinality(members)
    /\ registered' = (kind = "scoped")
    /\ UNCHANGED <<setVars, woken, seen, child, repolled, viewVars>>

SpawnChild(c) ==
    /\ guard = "spawning" /\ c \in members
    /\ Goes(c, "absent", "queued")
    /\ UNCHANGED <<setVars, hostVars, remaining, repolled, viewVars>>

SpawnsEnd ==
    /\ guard = "spawning" /\ \A c \in members : child[c] # "absent"
    /\ guard' = IF kind = "scoped" THEN "recheck" ELSE "register"
    /\ UNCHANGED <<setVars, registered, woken, seen, remaining, child, repolled, viewVars>>

\* The host polls again, because it was woken or for no reason.
Poll ==
    /\ guard = "idle"
    /\ guard' = IF kind = "scoped" THEN "look" ELSE "register"
    /\ woken' = FALSE
    /\ seen' = IF woken THEN seen \cup wakerView ELSE seen
    /\ UNCHANGED <<setVars, registered, remaining, child, repolled, viewVars>>

Register ==
    /\ guard = "register" /\ guard' = "recheck"
    /\ registered' = TRUE
    /\ seen' = seen \cup wakerView
    /\ UNCHANGED <<setVars, woken, remaining, child, repolled, viewVars>>

\* A scoped guard that reads the counter with Relaxed.
Look_Relaxed ==
    /\ guard \in {"look", "recheck"}
    /\ guard' = CASE remaining = 0 -> "ready"
                  [] remaining # 0 /\ guard = "look" -> "register"
                  [] OTHER -> "idle"
    /\ UNCHANGED <<setVars, registered, woken, seen, remaining, child, repolled, viewVars>>

\* The load of the counter: Acquire in a scoped guard, Relaxed in a simple one.
Look ==
    /\ guard \in {"look", "recheck"}
    /\ guard' = CASE remaining = 0 -> "ready"
                  [] remaining # 0 /\ guard = "look" -> "register"
                  [] OTHER -> "idle"
    /\ seen' = IF kind = "scoped" THEN seen \cup carried ELSE seen
    /\ UNCHANGED <<setVars, registered, woken, remaining, child, repolled, viewVars>>

\* The host goes on with the result, or drops the guard between two polls: a
\* drop that finds the set active panics.  Either way the scope ends.
Leave ==
    /\ guard = "ready" /\ guard' = "left"
    /\ UNCHANGED <<setVars, registered, woken, seen, remaining, child, repolled, viewVars>>

DropGuard ==
    /\ guard \in {"new", "idle"}
    /\ guard' = IF (kind = "scoped" /\ guard = "idle") \/ (kind = "simple" /\ remaining # 0)
                  THEN "panicked" ELSE "left"
    /\ UNCHANGED <<setVars, registered, woken, seen, remaining, child, repolled, viewVars>>

-----------------------------------------------------------------------------
\* The children.

Start(c) ==
    /\ Goes(c, "queued", "running")
    /\ UNCHANGED <<setVars, hostVars, remaining, repolled, viewVars>>

\* A child that counts itself off however it ends, as a Drop would.
BodyFails_CountsDown(c) ==
    /\ Goes(c, "running", "lost")
    /\ remaining' = (remaining + CounterSize - 1) % CounterSize
    /\ UNCHANGED <<setVars, hostVars, repolled, viewVars>>

\* A child future returns Pending, which is todo!(), or either kind panics.
BodyFails(c) ==
    /\ Goes(c, "running", "lost")
    /\ UNCHANGED <<setVars, hostVars, remaining, repolled, viewVars>>

\* A child that leaves the wake to whoever finds the counter at zero later.
CountDown_WakesOnZero(c) ==
    /\ Goes(c, "running", IF remaining = 0 THEN "waking" ELSE "returning")
    /\ remaining' = (remaining + CounterSize - 1) % CounterSize
    /\ carried' = IF kind = "scoped" THEN carried \cup {c} ELSE carried
    /\ UNCHANGED <<setVars, hostVars, repolled, wakerView>>

\* fetch_sub: Release in a child future, Relaxed in a closure.
CountDown(c) ==
    /\ Goes(c, "running", IF remaining = 1 THEN "waking" ELSE "returning")
    /\ remaining' = (remaining + CounterSize - 1) % CounterSize
    /\ carried' = IF kind = "scoped" THEN carried \cup {c} ELSE carried
    /\ UNCHANGED <<setVars, hostVars, repolled, wakerView>>

WakeHost(c) ==
    /\ Goes(c, "waking", "returning")
    /\ woken' = (woken \/ registered)
    /\ registered' = FALSE
    /\ wakerView' = wakerView \cup {c}
    /\ UNCHANGED <<setVars, guard, seen, remaining, repolled, carried>>

\* assert!(!done): a second poll has already counted when it gets here.
Finish(c) ==
    /\ Goes(c, "returning", IF c \in repolled THEN "lost" ELSE "finished")
    /\ UNCHANGED <<setVars, hostVars, remaining, repolled, viewVars>>

\* A late wake has the worker loop poll a future that has completed.
Repoll(c) ==
    /\ kind = "scoped"
    /\ Goes(c, "finished", "queued")
    /\ repolled' = repolled \cup {c}
    /\ UNCHANGED <<setVars, hostVars, remaining, viewVars>>

\* The last owner of the child's Arc, or the worker that ran the closure.
DropChild(c) ==
    /\ Goes(c, "finished", "dropped")
    /\ UNCHANGED <<setVars, hostVars, remaining, repolled, viewVars>>

-----------------------------------------------------------------------------
HostStep == (\E c \in Children : SpawnChild(c)) \/ SpawnsEnd \/ Register \/ Look
AnswerWake == woken /\ Poll
ChildStep(c) == Start(c) \/ CountDown(c) \/ BodyFails(c) \/ WakeHost(c) \/ Finish(c)

Next ==
    \/ FirstPoll \/ HostStep \/ Poll \/ Leave \/ DropGuard
    \/ \E c \in Children : ChildStep(c) \/ Repoll(c) \/ DropChild(c)

\* A poll that has begun goes on, a woken host polls, and children run.
Spec == Init /\ [][Next]_vars
        /\ WF_vars(HostStep) /\ WF_vars(AnswerWake)
        /\ \A c \in Children : WF_vars(ChildStep(c))

-----------------------------------------------------------------------------
TypeOK ==
    /\ kind \in {"scoped", "simple"} /\ members \subseteq Children
    /\ guard \in {"new", "spawning", "idle", "look", "register", "recheck", "ready",
                  "left", "panicked"}
    /\ remaining \in 0..(CounterSize - 1)
    /\ registered \in BOOLEAN /\ woken \in BOOLEAN
    /\ child \in [Children -> {"absent", "queued", "running", "waking", "returning",
                               "finished", "dropped", "lost"}]
    /\ \A c \in Children \ members : child[c] = "absent"
    /\ repolled \subseteq members /\ carried \subseteq members
    /\ wakerView \subseteq members /\ seen \subseteq members

\* Children whose body has not run to its end.
Unfinished == {c \in members : child[c] \in {"absent", "queued", "running", "lost"}}

\* The counter is the number of children still to finish, from the first poll
\* on, as long as no child is polled after its completion.
CountExact ==
    (repolled = {} /\ (guard \notin {"new", "left", "panicked"} \/ kind = "simple"))
        => remaining = Cardinality(Unfinished)

\* "when the Guard becomes Poll::Ready, the entire set has completed"
\* (set.rs:6), short of a second poll of a child.
ReadyMeansComplete == guard = "ready" /\ repolled = {} => Unfinished = {}

\* The host never sleeps beside a set that is complete: it has been woken, or
\* the last child is about to wake it, with a waker that is there.
HostIsWoken ==
    guard = "idle" /\ remaining = 0
        => woken \/ (registered /\ \E c \in members : child[c] = "waking")

\* What the children wrote is visible to the host that goes on: it came with the
\* counter, which the scoped guard reads with Acquire (the simple one, Relaxed,
\* has it only by luck).
ResultsVisible == guard = "ready" /\ repolled = {} => seen = members
ScopedResultsVisible == kind = "scoped" => ResultsVisible

\* A guard that has been polled becomes Ready, unless it is dropped or a child
\* is lost to a panic.
Resolves ==
    guard = "spawning" ~> (guard \in {"ready", "left", "panicked"}
                           \/ \E c \in members : child[c] = "lost")

\* "Future is valid for 'a ... We will do something safe on drop"
\* (set.rs:132-135): when the scope the children borrow from has ended, none
\* of them is going to run or running.
ChildrenInScope ==
    guard \in {"left", "panicked"} => \A c \in members : child[c] \notin {"queued", "running"}
=============================================================================
