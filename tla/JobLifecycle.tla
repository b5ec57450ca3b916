---------------------------- MODULE JobLifecycle ----------------------------
(***************************************************************************)
(* What the delivery core promises about a job, as the state diagram and   *)
(* the two-counters rule of the repository's docs state it: four statuses, *)
(* a budget of MaxAttempts worker attempts per automatic cycle, and replay *)
(* as the only way out of a finished cycle.  `spent' is the number of      *)
(* worker attempts recorded in the current cycle.                          *)
(***************************************************************************)
EXTENDS Integers

CONSTANTS Jobs, MaxAttempts

VARIABLES status, spent

vars == <<status, spent>>

Init ==
    /\ status = [j \in Jobs |-> "absent"]
    /\ spent = [j \in Jobs |-> 0]

\* The jobs of a set move from one status to another in one transaction.
Shift(S, from, to) ==
    /\ \A j \in S : status[j] = from
    /\ status' = [j \in Jobs |-> IF j \in S THEN to ELSE status[j]]

Accept(j) == Shift({j}, "absent", "pending") /\ UNCHANGED spent

Claim(S) == Shift(S, "pending", "processing") /\ UNCHANGED spent

Recover(S) == Shift(S, "processing", "pending") /\ UNCHANGED spent

\* A worker completes its attempt: one more is spent.
Complete(j, to) ==
    /\ Shift({j}, "processing", to)
    /\ spent' = [spent EXCEPT ![j] = @ + 1]

Succeed(j) == Complete(j, "succeeded")

Retry(j) == spent[j] + 1 < MaxAttempts /\ Complete(j, "pending")

GiveUp(j) == spent[j] + 1 = MaxAttempts /\ Complete(j, "dead_letter")

Replay(j) ==
    /\ Shift({j}, "succeeded", "pending") \/ Shift({j}, "dead_letter", "pending")
    /\ spent' = [spent EXCEPT ![j] = 0]

Next ==
    \/ \E S \in SUBSET Jobs : Claim(S) \/ Recover(S)
    \/ \E j \in Jobs :
           Accept(j) \/ Succeed(j) \/ Retry(j) \/ GiveUp(j) \/ Replay(j)

Spec == Init /\ [][Next]_vars
=============================================================================
