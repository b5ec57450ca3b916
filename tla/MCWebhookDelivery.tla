------------------------- MODULE MCWebhookDelivery -------------------------
(* Instances of WebhookDelivery, with the operational summary, for TLC.     *)
EXTENDS OperationalSummary, TLC

CONSTANTS BaseDelay, MaxDelay

Policy == INSTANCE RetryPolicy WITH FloatMax <- 1000, DatetimeMax <- 1000

\* One endpoint for every event.
MCEndpointOf == [e \in Events |-> CHOOSE x \in Endpoints : TRUE]

\* The delays of the retry policy, cut at the clock's bound: a later instant
\* is never reached.
MCRetryDelay ==
    [n \in 1..MaxAttempts |-> Policy!CalculateRetryDelay(n, BaseDelay, MaxDelay)]

\* Processes of one kind are interchangeable.
Symmetry ==
    Permutations(Workers) \cup Permutations(Deliveries) \cup Permutations(Replays)
=============================================================================
