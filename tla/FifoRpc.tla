------------------------------- MODULE FifoRpc -------------------------------
(***************************************************************************)
(* What a control connection promises its caller, and no more: calls on it  *)
(* are made one at a time, answers come back in the order of the requests,  *)
(* each is read at most once, any of them may be lost, and closing the      *)
(* connection discards those under way.  It does NOT promise that a call    *)
(* reads the answer to its own request: it reads the oldest one under way.  *)
(***************************************************************************)
EXTENDS Naturals

VARIABLES
    calls,    \* requests made so far, on any connection; they are numbered
    busy,     \* the call in progress, 0: none
    sent,     \* whether its request has left
    underway, \* the requests whose answers are under way
    res       \* the last return: the request and the answer (0: none)

vars == <<calls, busy, sent, underway, res>>

Init ==
    /\ calls = 0 /\ busy = 0 /\ sent = FALSE
    /\ underway = {} /\ res = <<0, 0>>

\* The connection is opened or closed.
Reset ==
    /\ busy = 0
    /\ underway' = {}
    /\ res' = <<0, 0>>
    /\ UNCHANGED <<calls, busy, sent>>

Call ==
    /\ busy = 0
    /\ calls' = calls + 1
    /\ busy' = calls + 1
    /\ UNCHANGED <<sent, underway, res>>

Send ==
    /\ busy # 0 /\ ~sent
    /\ sent' = TRUE
    /\ underway' = underway \cup {busy}
    /\ UNCHANGED <<calls, busy, res>>

\* The answer to a is the oldest under way, and is taken.
Take(a) ==
    /\ a \in underway /\ \A b \in underway : a <= b
    /\ underway' = underway \ {a}

\* The call returns the oldest answer.
Return ==
    /\ busy # 0 /\ sent
    /\ \E a \in underway : Take(a) /\ res' = <<busy, a>>
    /\ busy' = 0 /\ sent' = FALSE
    /\ UNCHANGED calls

\* The call returns an error; its answer may still come.
Fail ==
    /\ busy # 0
    /\ res' = <<busy, 0>>
    /\ busy' = 0 /\ sent' = FALSE
    /\ UNCHANGED <<calls, underway>>

\* An answer is read between calls.
Skip ==
    /\ busy = 0
    /\ \E a \in underway : Take(a)
    /\ UNCHANGED <<calls, busy, sent, res>>

\* Some answers are lost.
Lose ==
    /\ underway' \in SUBSET underway
    /\ UNCHANGED <<calls, busy, sent, res>>

Next == Reset \/ Call \/ Send \/ Return \/ Fail \/ Skip \/ Lose

Spec == Init /\ [][Next]_vars
=============================================================================
