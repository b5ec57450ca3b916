--------------------------- MODULE EventIngestion ---------------------------
(***************************************************************************)
(* POST /webhook-events (event_service.py and its route): concurrent API   *)
(* requests that insert an event with its delivery job, or reuse the event *)
(* that already bears their idempotency key.  Each request is one READ     *)
(* COMMITTED transaction; one step is one SQL statement or the commit.     *)
(***************************************************************************)
EXTENDS Naturals, FiniteSets

CONSTANTS
    Requests,      \* HTTP requests; a client's retry is another request
    Endpoints,     \* endpoint ids that requests may name
    Headers,       \* raw values of the Idempotency-Key header
    Normalized,    \* the stripped key of each header, or Invalid
    Contents,      \* classes of equal (event_type, JSONB payload) pairs
    Absent,        \* a request without the header
    Invalid,       \* an empty or too long key
    None

Keys == {Normalized[h] : h \in Headers} \ {Invalid}

ASSUME IngestionAssumption ==
    /\ Absent \notin Headers /\ None \notin Requests
    /\ DOMAIN Normalized = Headers
    /\ None \notin Keys \cup {Invalid}

VARIABLES
    endpoints,   \* committed WebhookEndpoint rows
    events,      \* committed WebhookEvent rows
    jobs,        \* ids of the events with a committed WebhookDeliveryJob row
    pc,          \* the statement each request executes next
    input,       \* endpoint, header and content of each request
    found,       \* the event a request has resolved or inserted
    raced,       \* the request has lost an insert race
    answer       \* the HTTP status a request has been given, and its event

vars == <<endpoints, events, jobs, pc, input, found, raced, answer>>

PCs == {"idle", "normalize", "get_endpoint", "find_equivalent", "find_scoped",
        "insert_event", "insert_job", "commit_reused", "commit_created", "respond",
        "done"}

\* An event row.  The id of an event is the request that inserted it.
EventRow == [id : Requests, endpoint : Endpoints, key : Keys \cup {None},
             content : Contents]

\* The request, and the HTTP answer to it.
Input == [endpoint : Endpoints, header : Headers \cup {Absent}, content : Contents]

Answer == [status : {200, 201, 404, 409, 422, 500}, event : Requests \cup {None}]

\* What a request asks for, its header normalized.
Question == [endpoint : Endpoints, key : Keys \cup {None, Invalid}, content : Contents]

\* No record is None.
ASSUME RecordsAssumption == None \notin Input \cup Answer \cup Question

\* normalize_webhook_idempotency_key.
KeyOf(r) == IF input[r].header = Absent THEN None ELSE Normalized[input[r].header]

RowOf(r) == [id |-> r, endpoint |-> input[r].endpoint, key |-> KeyOf(r),
             content |-> input[r].content]

\* The committed events that bear r's scoped key.
Scoped(r) == {ev \in events : ev.endpoint = input[r].endpoint /\ ev.key = KeyOf(r)}

\* r has flushed an event that is not committed yet.
HasInserted(r) == pc[r] \in {"insert_job", "commit_created"}

Equivalent(r) == {ev \in Scoped(r) : ev.content = input[r].content}

\* Plausible bug: rows that are not committed yet are overlooked.
NeverPending(r) == FALSE

\* The unique constraint (endpoint_id, idempotency_key); keyless rows never
\* violate it.  An INSERT waits for the outcome of an uncommitted equal key.
KeyPending(r) ==
    /\ KeyOf(r) # None
    /\ \E q \in Requests \ {r} : /\ HasInserted(q) /\ KeyOf(q) = KeyOf(r)
                                 /\ input[q].endpoint = input[r].endpoint

\* Plausible bug: an uncommitted equal key is reported as a duplicate at once.
PendingIsTaken(r) == KeyOf(r) # None /\ (KeyPending(r) \/ Scoped(r) # {})

KeyTaken(r) == KeyOf(r) # None /\ Scoped(r) # {}

Goto(r, label) == pc' = [pc EXCEPT ![r] = label]

\* An exception: the transaction rolls back and the request is answered.
Refuse(r, status) ==
    /\ Goto(r, "done")
    /\ answer' = [answer EXCEPT ![r] = [status |-> status, event |-> None]]
    /\ UNCHANGED <<endpoints, events, jobs, input, found, raced>>

-----------------------------------------------------------------------------
Init ==
    /\ endpoints = {} /\ events = {} /\ jobs = {}
    /\ pc = [r \in Requests |-> "idle"]
    /\ input = [r \in Requests |-> None]
    /\ found = [r \in Requests |-> None]
    /\ raced = [r \in Requests |-> FALSE]
    /\ answer = [r \in Requests |-> None]

\* POST /webhook-endpoints, by one insert and commit.
CreateEndpoint(x) ==
    /\ x \notin endpoints
    /\ endpoints' = endpoints \cup {x}
    /\ UNCHANGED <<events, jobs, pc, input, found, raced, answer>>

Receive(r) ==
    /\ pc[r] = "idle"
    /\ \E x \in Endpoints, h \in Headers \cup {Absent}, c \in Contents :
           input' = [input EXCEPT ![r] = [endpoint |-> x, header |-> h, content |-> c]]
    /\ Goto(r, "normalize")
    /\ UNCHANGED <<endpoints, events, jobs, found, raced, answer>>

\* Plausible bug: an invalid key is let through.
NormalizeUnchecked(r) ==
    /\ pc[r] = "normalize"
    /\ Goto(r, "get_endpoint")
    /\ UNCHANGED <<endpoints, events, jobs, input, found, raced, answer>>

\* The key is validated before the endpoint is looked up.
Normalize(r) ==
    /\ pc[r] = "normalize" /\ KeyOf(r) # Invalid
    /\ Goto(r, "get_endpoint")
    /\ UNCHANGED <<endpoints, events, jobs, input, found, raced, answer>>

RefuseKey(r) == pc[r] = "normalize" /\ KeyOf(r) = Invalid /\ Refuse(r, 422)

\* session.get(WebhookEndpoint); is_active is not read.
GetEndpoint(r) ==
    /\ pc[r] = "get_endpoint" /\ input[r].endpoint \in endpoints
    /\ Goto(r, IF KeyOf(r) = None THEN "insert_event" ELSE "find_equivalent")
    /\ UNCHANGED <<endpoints, events, jobs, input, found, raced, answer>>

RefuseEndpoint(r) ==
    pc[r] = "get_endpoint" /\ input[r].endpoint \notin endpoints /\ Refuse(r, 404)

\* _find_equivalent_webhook_event.
FindEquivalent(r) ==
    /\ pc[r] = "find_equivalent"
    /\ \/ /\ Equivalent(r) = {}
          /\ Goto(r, "find_scoped")
          /\ UNCHANGED found
       \/ \E ev \in Equivalent(r) :
             /\ found' = [found EXCEPT ![r] = ev.id]
             /\ Goto(r, "commit_reused")
    /\ UNCHANGED <<endpoints, events, jobs, input, raced, answer>>

\* _find_webhook_event_by_scoped_key, a second statement: nothing bears the key
\* and the request goes on to insert; after a lost race it would re-raise.
FindScoped(r) ==
    /\ pc[r] = "find_scoped" /\ Scoped(r) = {} /\ ~raced[r]
    /\ Goto(r, "insert_event")
    /\ UNCHANGED <<endpoints, events, jobs, input, found, raced, answer>>

\* WebhookEventIdempotencyConflictError.
RefuseConflict(r) == pc[r] = "find_scoped" /\ Scoped(r) # {} /\ Refuse(r, 409)

\* The INSERT of the event, inside the savepoint for a keyed request.
InsertEvent(r) ==
    /\ pc[r] = "insert_event" /\ ~KeyPending(r) /\ ~KeyTaken(r)
    /\ found' = [found EXCEPT ![r] = r]
    /\ Goto(r, "insert_job")
    /\ UNCHANGED <<endpoints, events, jobs, input, raced, answer>>

\* Plausible bug: the insert is tried again without resolving the winner.
LoseRaceAndRetry(r) ==
    /\ pc[r] = "insert_event" /\ KeyTaken(r)
    /\ raced' = [raced EXCEPT ![r] = TRUE]
    /\ UNCHANGED <<endpoints, events, jobs, pc, input, found, answer>>

\* IntegrityError on the idempotency constraint: the savepoint rolls back and
\* the existing event is resolved again.
LoseRace(r) ==
    /\ pc[r] = "insert_event" /\ KeyTaken(r)
    /\ raced' = [raced EXCEPT ![r] = TRUE]
    /\ Goto(r, "find_equivalent")
    /\ UNCHANGED <<endpoints, events, jobs, input, found, answer>>

\* Plausible bug: the event is committed before its job is inserted.
InsertJobAfterCommit(r) ==
    /\ pc[r] = "insert_job"
    /\ events' = events \cup {RowOf(r)}
    /\ Goto(r, "commit_created")
    /\ UNCHANGED <<endpoints, jobs, input, found, raced, answer>>

\* The INSERT of the job of the flushed event.
InsertJob(r) ==
    /\ pc[r] = "insert_job"
    /\ Goto(r, "commit_created")
    /\ UNCHANGED <<endpoints, events, jobs, input, found, raced, answer>>

CommitCreated(r) ==
    /\ pc[r] = "commit_created"
    /\ events' = events \cup {RowOf(r)}
    /\ jobs' = jobs \cup {r}
    /\ Goto(r, "respond")
    /\ UNCHANGED <<endpoints, input, found, raced, answer>>

CommitReused(r) ==
    /\ pc[r] = "commit_reused"
    /\ Goto(r, "respond")
    /\ UNCHANGED <<endpoints, events, jobs, input, found, raced, answer>>

\* session.refresh, then 201 for a created event and 200 for a reused one.
Respond(r) ==
    /\ pc[r] = "respond"
    /\ answer' = [answer EXCEPT ![r] =
                     [status |-> IF found[r] = r THEN 201 ELSE 200, event |-> found[r]]]
    /\ Goto(r, "done")
    /\ UNCHANGED <<endpoints, events, jobs, input, found, raced>>

\* A lost connection, a killed process or any other exception.  Before the
\* commit everything rolls back; after it the event stays.
Fail(r) == pc[r] \notin {"idle", "done"} /\ Refuse(r, 500)

Handle(r) ==
    \/ Normalize(r) \/ RefuseKey(r) \/ GetEndpoint(r) \/ RefuseEndpoint(r)
    \/ FindEquivalent(r) \/ FindScoped(r) \/ RefuseConflict(r)
    \/ InsertEvent(r) \/ LoseRace(r) \/ InsertJob(r)
    \/ CommitCreated(r) \/ CommitReused(r) \/ Respond(r)

Next ==
    \/ \E x \in Endpoints : CreateEndpoint(x)
    \/ \E r \in Requests : Receive(r) \/ Handle(r) \/ Fail(r)

Spec == Init /\ [][Next]_vars

\* A request that is being handled goes on; it need not arrive or fail.
FairSpec == Spec /\ \A r \in Requests : WF_vars(Handle(r))

-----------------------------------------------------------------------------
\* Every variable has its type; an event row is what its request asked for.
TypeOK ==
    /\ endpoints \subseteq Endpoints
    /\ events \subseteq EventRow
    /\ jobs \subseteq Requests
    /\ pc \in [Requests -> PCs]
    /\ input \in [Requests -> Input \cup {None}]
    /\ found \in [Requests -> Requests \cup {None}]
    /\ raced \in [Requests -> BOOLEAN]
    /\ answer \in [Requests -> Answer \cup {None}]

Accepted(r) == answer[r] # None /\ answer[r].status \in {200, 201}

SameScope(q, r) ==
    /\ input[q].endpoint = input[r].endpoint
    /\ KeyOf(q) = KeyOf(r) /\ KeyOf(r) # None

\* Idempotency as a client sees it: all accepted requests of one scoped key are
\* told the same event, whose content each of them sent; one of them at most is
\* told that it created the event.  The requests may race, lose their
\* connection after the commit, or be repeated (event_service.py:153-211).
AnswersAgree ==
    \A q, r \in Requests :
        Accepted(q) /\ Accepted(r) /\ SameScope(q, r) =>
            /\ answer[q].event = answer[r].event
            /\ input[q].content = input[r].content
            /\ answer[q].status = 201 /\ answer[r].status = 201 => q = r

\* A request that loses the insert race finds the winner when it resolves again:
\* the re-raised IntegrityError is never reached (event_service.py:196-209).
LostRaceFindsWinner ==
    \A r \in Requests : raced[r] => Scoped(r) # {}

\* What each request has asked for.
Asked == [r \in Requests |->
             IF input[r] = None THEN None
             ELSE [endpoint |-> input[r].endpoint, key |-> KeyOf(r),
                   content |-> input[r].content]]

\* One step of the ledger: an event and its job appear together, under a free
\* key, and every answer is right when it is given.
Ledger == INSTANCE IngestionLedger WITH asked <- Asked

ImplementsLedger == Ledger!Spec

\* Every request that is being handled is answered: it neither waits forever for
\* a key nor loses races forever.
Answered ==
    \A r \in Requests : pc[r] \notin {"idle", "done"} ~> pc[r] = "done"

-----------------------------------------------------------------------------
\* docs/api/webhook-events.md:159: an equivalent retry with the same endpoint and
\* key is answered 200; so a conflict implies that the key's event differs.
ConflictOnlyOnDifference ==
    \A r \in Requests :
        answer[r] # None /\ answer[r].status = 409 =>
            \E ev \in Scoped(r) : ev.content # input[r].content
=============================================================================
