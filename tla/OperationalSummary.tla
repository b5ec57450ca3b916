------------------------- MODULE OperationalSummary -------------------------
(***************************************************************************)
(* GET /operations/summary (operations_service.py): one aggregate          *)
(* statement over the committed job rows, a state function of the delivery *)
(* core.  Each count stands here as the set of jobs behind it, taken at    *)
(* now.                                                                    *)
(***************************************************************************)
EXTENDS WebhookDelivery

InStatus(s) == {e \in Events : Exists(e) /\ jobs[e].status = s}

\* Plausible bug: the boundary left out of the due jobs.
DuePendingStrict == {e \in InStatus("pending") : jobs[e].next_attempt_at < now}

DuePending == {e \in InStatus("pending") : jobs[e].next_attempt_at <= now}

\* Plausible bug: the age measured by created_at.
StaleProcessingByCreation ==
    {e \in InStatus("processing") : jobs[e].created_at < now - StaleTimeout}

StaleProcessing ==
    {e \in InStatus("processing") : jobs[e].updated_at < now - StaleTimeout}

\* While iterations are timely, the stale count raises no false alarm: no live
\* worker is working on a job it counts (operations_service.py:151).
StaleIsAbandoned ==
    \A w \in Workers : Range(ctx[w].batch) \cap StaleProcessing = {}

\* While iterations are timely, a summary without due and processing jobs means
\* that no worker has a delivery to make (operations_service.py:146-157).
DrainedIsQuiet ==
    DuePending \cup InStatus("processing") = {} =>
        \A w \in Workers : ctx[w].batch = <<>>
=============================================================================
