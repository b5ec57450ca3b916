--------------------------- MODULE JobInspection ---------------------------
(***************************************************************************)
(* A client that follows the cursors of GET /webhook-delivery-jobs         *)
(* (delivery_job_query_service.py) from the first page to the last, while  *)
(* workers and replays move the rows of the delivery core.  Each page is   *)
(* one statement over the committed rows; nothing is held between pages.   *)
(* The model ends with the scan.                                           *)
(***************************************************************************)
EXTENDS WebhookDelivery

CONSTANTS
    Id,         \* the job ids, in the order of the uuid column
    Filters,    \* status filters a client may ask for (None: all jobs)
    PageLimit   \* the client's limit

ASSUME InspectionAssumption ==
    /\ Id \in [Events -> Nat] /\ IsInjective(Id)
    /\ Filters \subseteq Statuses \cup {None}
    /\ PageLimit \in Nat \ {0}

VARIABLES
    scan,       \* "idle", "open" or "complete"
    cursor,     \* next_cursor of the last page, None before the first
    filter,     \* the status filter of the first page (history)
    times,      \* how often each job has been listed (history)
    rewritten,  \* jobs whose row was written since the first page (history)
    replayed    \* jobs that were replayed after they were listed (history)

scan_vars == <<scan, filter, cursor, times, rewritten, replayed>>
inspected_vars == <<vars, scan_vars>>

\* A position and the filter it belongs to, as encoded in next_cursor.
Cursor == [updated_at : Instants, id : Nat, status : Statuses \cup {None}]

\* No cursor is None.
ASSUME CursorAssumption == None \notin Cursor

CursorAt(e, s) == [updated_at |-> jobs[e].updated_at, id |-> Id[e], status |-> s]

\* ORDER BY updated_at DESC, id DESC.
Ahead(a, b) ==
    \/ a.updated_at > b.updated_at
    \/ a.updated_at = b.updated_at /\ a.id > b.id

ListedBefore(d, e) == Ahead(CursorAt(d, None), CursorAt(e, None))

\* Plausible bug: a cursor serves every filter.
AcceptedUnchecked(s) == TRUE

\* A cursor continues the filter it was made for; any other is refused (422).
Accepted(s) == cursor # None => cursor.status = s

\* Plausible bugs of the keyset condition: the tie-break left out, and the
\* boundary row included.
MatchingByTime(s) ==
    {e \in Events : /\ Exists(e)
                    /\ s = None \/ jobs[e].status = s
                    /\ cursor = None \/ cursor.updated_at > jobs[e].updated_at}

MatchingFromBoundary(s) ==
    {e \in Events : /\ Exists(e)
                    /\ s = None \/ jobs[e].status = s
                    /\ cursor = None \/ ~Ahead(CursorAt(e, s), cursor)}

\* Rows after the cursor that match the filter.
Matching(s) ==
    {e \in Events : /\ Exists(e)
                    /\ s = None \/ jobs[e].status = s
                    /\ cursor = None \/ Ahead(cursor, CursorAt(e, s))}

\* The first rows of the matching ones.
Page(s) ==
    {e \in Matching(s) :
        Cardinality({d \in Matching(s) : ListedBefore(d, e)}) < PageLimit}

\* The last row of the page becomes the next cursor.
NextCursor(s) ==
    \E last \in Page(s) :
        /\ \A e \in Page(s) \ {last} : ListedBefore(e, last)
        /\ cursor' = CursorAt(last, s)

InitInspected ==
    /\ Init
    /\ scan = "idle" /\ filter = None /\ cursor = None
    /\ times = [e \in Events |-> 0]
    /\ rewritten = {} /\ replayed = {}

\* list_webhook_delivery_jobs: limit + 1 rows are read to see whether there are
\* more; the last page has no cursor.
FetchPage(s) ==
    /\ scan # "complete" /\ Accepted(s)
    /\ filter' = IF cursor = None THEN s ELSE filter
    /\ times' = [e \in Events |-> IF e \in Page(s) THEN times[e] + 1 ELSE times[e]]
    /\ \/ Page(s) = Matching(s) /\ scan' = "complete" /\ UNCHANGED cursor
       \/ Page(s) # Matching(s) /\ scan' = "open" /\ NextCursor(s)
    /\ UNCHANGED <<vars, rewritten, replayed>>

\* A step of the core and what it does to the rows of an open scan.
CoreStep ==
    /\ scan # "complete"
    /\ Next
    /\ rewritten' = IF scan = "open"
                    THEN rewritten \cup {e \in Events : jobs'[e] # jobs[e]}
                    ELSE rewritten
    /\ replayed' = replayed \cup
           {e \in Events : times[e] > 0 /\ \E r \in Replays :
                pc[r] = "commit_replay" /\ pc'[r] = "done" /\ Current(r) = e}
    /\ UNCHANGED <<scan, filter, cursor, times>>

InspectedNext == CoreStep \/ \E s \in Filters : FetchPage(s)

InspectedSpec == InitInspected /\ [][InspectedNext]_inspected_vars

-----------------------------------------------------------------------------
InspectionTypeOK ==
    /\ scan \in {"idle", "open", "complete"}
    /\ filter \in Statuses \cup {None}
    /\ cursor \in Cursor \cup {None}
    /\ times \in [Events -> Nat]
    /\ rewritten \in SUBSET Events /\ replayed \in SUBSET Events

Admitted(e) == Exists(e) /\ (filter = None \/ jobs[e].status = filter)

\* A job whose row stayed as it was from the first page to the last is listed
\* exactly once if the filter admits it and never otherwise: no page boundary
\* loses or repeats it, however the rows around it move and whichever of them
\* tie, and no cursor changes the filter half way
\* (delivery_job_query_service.py:183, 236-269).
StableJobsListedOnce ==
    scan = "complete" =>
        \A e \in Events \ rewritten : times[e] = IF Admitted(e) THEN 1 ELSE 0

\* While iterations are timely, a job is listed a second time only if it was
\* replayed in between: recovery, claims and completions never set updated_at
\* back, a replay that waited for the row lock may (api.py:281).
RelistedOnlyAfterReplay == \A e \in Events : times[e] > 1 => e \in replayed

\* Every page but the last moves the cursor strictly on, however busy the system
\* is: a client that follows the cursors comes to an end
\* (delivery_job_query_service.py:250-259).
ScanAdvances ==
    [][times' # times =>
           scan' = "complete" \/ cursor = None \/ Ahead(cursor, cursor')]_inspected_vars
=============================================================================
