---------------------------- MODULE RetryPolicy ----------------------------
(***************************************************************************)
(* The pure retry policy of retry_policy.py: an exponential backoff with a *)
(* cap, and the decision taken after each completed worker attempt.        *)
(* Delays and instants are natural numbers of one time unit; the code's    *)
(* floats only differ from them in rounding.                               *)
(***************************************************************************)
EXTENDS Integers

CONSTANTS
    FloatMax,       \* largest delay math.ldexp can represent
    DatetimeMax,    \* largest representable instant (datetime.max)
    None            \* Python's None

\* The two representation limits are what they are on the host; the policy
\* only needs them to be numbers.
ASSUME LimitsAssumption == FloatMax \in Nat /\ DatetimeMax \in Nat

\* None is neither a number nor a decision.
ASSUME DecisionsAssumption ==
    /\ None \notin Nat
    /\ None \notin [status : {"pending", "succeeded", "dead_letter"},
                    next_attempt_at : Nat \cup {None}]

\* math.ldexp(base, exponent), which raises OverflowError past the largest
\* float.
Ldexp(base, exponent) ==
    IF base * 2^exponent > FloatMax THEN None ELSE base * 2^exponent

\* Plausible bug: the exponent is one too large.
CalculateRetryDelayOffByOne(attempt_number, base, max) ==
    LET delay == Ldexp(base, attempt_number)
    IN  IF delay = None \/ delay > max THEN max ELSE delay

\* calculate_retry_delay_seconds: base * 2^(attempt_number - 1), capped.
CalculateRetryDelay(attempt_number, base, max) ==
    LET delay == Ldexp(base, attempt_number - 1)
    IN  IF delay = None \/ delay > max THEN max ELSE delay

\* Plausible bugs of the decision: one attempt too many, and the retry instant
\* computed before the budget is looked at.
DecideWebhookRetryLate(outcome, attempt_number, at, max_attempts, base, max) ==
    LET next == at + CalculateRetryDelay(attempt_number, base, max)
        Decision(status, due) == [status |-> status, next_attempt_at |-> due]
    IN  CASE outcome = "succeeded"            -> Decision("succeeded", None)
          [] outcome = "failed" /\ attempt_number > max_attempts
                                              -> Decision("dead_letter", None)
          [] outcome = "failed" /\ attempt_number <= max_attempts
                                              -> IF next > DatetimeMax
                                                 THEN None
                                                 ELSE Decision("pending", next)

DecideWebhookRetryRangeFirst(outcome, attempt_number, at, max_attempts, base, max) ==
    LET next == at + CalculateRetryDelay(attempt_number, base, max)
        Decision(status, due) == [status |-> status, next_attempt_at |-> due]
    IN  CASE next > DatetimeMax     -> None
          [] next <= DatetimeMax /\ outcome = "succeeded"
                                    -> Decision("succeeded", None)
          [] next <= DatetimeMax /\ outcome = "failed"
                                    -> IF attempt_number >= max_attempts
                                       THEN Decision("dead_letter", None)
                                       ELSE Decision("pending", next)

\* decide_webhook_retry: the RetryDecision, or None for the ValueError raised
\* when the retry instant is not representable.
DecideWebhookRetry(outcome, attempt_number, at, max_attempts, base, max) ==
    LET next == at + CalculateRetryDelay(attempt_number, base, max)
        Decision(status, due) == [status |-> status, next_attempt_at |-> due]
    IN  CASE outcome = "succeeded"           -> Decision("succeeded", None)
          [] outcome = "failed" /\ attempt_number >= max_attempts
                                             -> Decision("dead_letter", None)
          [] outcome = "failed" /\ attempt_number < max_attempts
                                             -> IF next > DatetimeMax
                                                THEN None
                                                ELSE Decision("pending", next)
=============================================================================
