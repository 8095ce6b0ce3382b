---------------------------- MODULE TaskContract ----------------------------
(***************************************************************************)
(* What an executor of this repository owes the futures it is given: polls *)
(* of a task never overlap, every poll is on account of a wake (a spawn is *)
(* one), and a wake is spent only by a poll that starts after it.  The     *)
(* executors differ in what a wake means to a task that has completed:     *)
(* Repolls says whether it is polled once more (and aborts) or the wake is *)
(* ignored.                                                                *)
(***************************************************************************)
EXTENDS Naturals

CONSTANTS Tasks, Repolls

VARIABLES
    phase,  \* absent, waiting, running, done, aborted
    wakes   \* wakes no poll has been started for

vars == <<phase, wakes>>

Init == phase = [t \in Tasks |-> "absent"] /\ wakes = [t \in Tasks |-> 0]

Move(t, from, to) == phase[t] = from /\ phase' = [phase EXCEPT ![t] = to]

Woken(t) == wakes' = [wakes EXCEPT ![t] = @ + 1]

\* One poll may answer several wakes.
Spend(t) == \E n \in 0..(wakes[t] - 1) : wakes' = [wakes EXCEPT ![t] = n]

Spawn(t)    == Move(t, "absent", "waiting") /\ Woken(t)
Wake(t)     == phase[t] # "absent" /\ Woken(t) /\ UNCHANGED phase
Start(t)    == Move(t, "waiting", "running") /\ Spend(t)
Pend(t)     == Move(t, "running", "waiting") /\ UNCHANGED wakes
Complete(t) == Move(t, "running", "done") /\ UNCHANGED wakes

\* A wake that comes too late: the two answers of the repository's executors.
Ignore(t) == ~Repolls /\ phase[t] = "done" /\ Spend(t) /\ UNCHANGED phase
Repoll(t) == Repolls /\ Move(t, "done", "aborted") /\ Spend(t)

Next == \E t \in Tasks :
    \/ Spawn(t) \/ Wake(t) \/ Start(t) \/ Pend(t) \/ Complete(t)
    \/ Ignore(t) \/ Repoll(t)

Spec == Init /\ [][Next]_vars
=============================================================================
