--------------------------- MODULE RetrySchedule ---------------------------
(***************************************************************************)
(* One automatic cycle of one job under the retry policy: attempts are     *)
(* made when they are due and every decision is taken by RetryPolicy.      *)
(***************************************************************************)
EXTENDS RetryPolicy, Sequences

CONSTANTS
    Bases, MaxDelays, Budgets,   \* the settings considered
    MaxLateness                  \* how late an attempt is decided, at most

ASSUME SchedulesAssumption ==
    /\ Bases \subseteq Nat \ {0} /\ MaxDelays \subseteq Nat \ {0}
    /\ Budgets \subseteq Nat \ {0} /\ MaxLateness \in Nat
    /\ \A m \in MaxDelays : m <= FloatMax

VARIABLES
    settings,        \* base_delay, max_delay and max_attempts of the worker
    status, due,     \* the job row
    attempt_count,   \* the job row's count of completed attempts
    delays           \* the waits the policy has imposed so far (history)

vars == <<settings, status, due, attempt_count, delays>>

\* worker_loop and config only accept a base delay not above the maximum.
Init ==
    /\ settings \in {s \in [base : Bases, max : MaxDelays, budget : Budgets] :
                         s.base <= s.max}
    /\ status = "pending" /\ due = 0 /\ attempt_count = 0
    /\ delays = <<>>

\* A due attempt completes at some instant and the policy decides.
Attempt(outcome, at) ==
    LET n == attempt_count + 1
        decision == DecideWebhookRetry(outcome, n, at, settings.budget,
                                       settings.base, settings.max)
    IN  /\ status = "pending" /\ decision # None
        /\ status' = decision.status
        /\ due' = decision.next_attempt_at
        /\ attempt_count' = n
        /\ delays' = IF decision.status = "pending"
                     THEN Append(delays, decision.next_attempt_at - at)
                     ELSE delays
        /\ UNCHANGED settings

\* The ValueError of an unrepresentable instant rolls the attempt back and
\* ends the worker; the job stays claimed.
Overflow(at) ==
    /\ status = "pending"
    /\ DecideWebhookRetry("failed", attempt_count + 1, at, settings.budget,
                          settings.base, settings.max) = None
    /\ status' = "processing"
    /\ UNCHANGED <<settings, due, attempt_count, delays>>

Next ==
    \E late \in 0..MaxLateness :
        \/ \E outcome \in {"succeeded", "failed"} : Attempt(outcome, due + late)
        \/ Overflow(due + late)

Spec == Init /\ [][Next]_vars

-----------------------------------------------------------------------------
\* The waits are the documented backoff: the first is the base delay, each
\* later one doubles its predecessor until the maximum, also when the doubling
\* is not representable (retry_policy.py:61-78).
BackoffDoubles ==
    \A i \in 1..Len(delays) :
        LET doubled == IF i = 1 THEN settings.base ELSE 2 * delays[i - 1]
        IN  delays[i] = IF doubled > settings.max THEN settings.max ELSE doubled

\* A cycle is exactly its budget long: it dead-letters on the attempt that
\* exhausts the budget, having waited between all of them, and never later.
BudgetIsExact ==
    /\ attempt_count <= settings.budget
    /\ status = "dead_letter" =>
           attempt_count = settings.budget /\ Len(delays) = settings.budget - 1
    /\ status = "pending" => Len(delays) = attempt_count

\* The policy refuses to decide only when a retry is really needed and its
\* instant may be out of range: never for a success, nor for the last attempt of
\* the budget, however late the clock is (retry_policy.py:105-122).
CutShortOnlyByRange ==
    status = "processing" =>
        /\ attempt_count + 1 < settings.budget
        /\ due + MaxLateness + settings.max > DatetimeMax
=============================================================================
