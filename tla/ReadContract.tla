---------------------------- MODULE ReadContract ----------------------------
(***************************************************************************)
(* What a read to the end of a stream promises, on either platform         *)
(* ("Reads the entire fd into memory", stream/src/windows/read.rs:130 and  *)
(* stream/src/macos/read.rs:93): one answer, which is Ok only with all the *)
(* pieces the peer has sent, and only once the peer has closed its end.    *)
(***************************************************************************)
EXTENDS Naturals

CONSTANT Readers

VARIABLES
    sent, open,     \* pieces the peer of each read has written; its end
    answer, got     \* none, ok, error; pieces in the answer

vars == <<sent, open, answer, got>>

Init ==
    /\ sent = [r \in Readers |-> 0] /\ open = [r \in Readers |-> TRUE]
    /\ answer = [r \in Readers |-> "none"] /\ got = [r \in Readers |-> 0]

Send(r) ==
    /\ open[r] /\ sent' = [sent EXCEPT ![r] = @ + 1]
    /\ UNCHANGED <<open, answer, got>>

Close(r) ==
    /\ open[r] /\ open' = [open EXCEPT ![r] = FALSE]
    /\ UNCHANGED <<sent, answer, got>>

Succeed(r) ==
    /\ answer[r] = "none" /\ ~open[r]
    /\ answer' = [answer EXCEPT ![r] = "ok"] /\ got' = [got EXCEPT ![r] = sent[r]]
    /\ UNCHANGED <<sent, open>>

\* An error comes without what was read before it.
Fail(r) ==
    /\ answer[r] = "none" /\ answer' = [answer EXCEPT ![r] = "error"]
    /\ UNCHANGED <<sent, open, got>>

Next == \E r \in Readers : Send(r) \/ Close(r) \/ Succeed(r) \/ Fail(r)

Spec == Init /\ [][Next]_vars
=============================================================================
