------------------------- MODULE MCDeliveryProgress -------------------------
(* Instances of DeliveryProgress for TLC.                                   *)
EXTENDS DeliveryProgress

CONSTANTS e1, e2, x1, x2

\* An endpoint for each event.
MCEndpointOf == [e \in {e1, e2} |-> IF e = e1 THEN x1 ELSE x2]

MCRetryDelay == [n \in 1..MaxAttempts |-> 1]
=============================================================================
