-------------------------- MODULE MCJobInspection --------------------------
(* Instances of JobInspection for TLC.                                      *)
EXTENDS JobInspection, SequencesExt

\* One endpoint for every event.
MCEndpointOf == [e \in Events |-> CHOOSE x \in Endpoints : TRUE]

\* Any order of the ids.
MCId == LET order == SetToSeq(Events)
        IN  [e \in Events |-> CHOOSE n \in DOMAIN order : order[n] = e]

MCRetryDelay == [n \in 1..MaxAttempts |-> 1]
=============================================================================
