-------------------------- MODULE IngestionLedger --------------------------
(***************************************************************************)
(* What event ingestion promises: a ledger of accepted events.  Accepting  *)
(* adds the event and its delivery job in one step, and only under a free  *)
(* key; an answer that names an event names an accepted one that is what   *)
(* the request asked for.                                                  *)
(***************************************************************************)
CONSTANTS Requests, Endpoints, Keys, Contents, Invalid, None

VARIABLES
    asked,     \* what each request asks for, once received
    events,    \* the accepted events
    jobs,      \* the events that have a delivery job
    answer     \* what each request has been told

vars == <<asked, events, jobs, answer>>

Question == [endpoint : Endpoints, key : Keys \cup {None, Invalid}, content : Contents]

Scoped(r) ==
    {ev \in events : ev.endpoint = asked[r].endpoint /\ ev.key = asked[r].key}

Open(r) == asked[r] # None /\ answer[r] = None

Init ==
    /\ asked = [r \in Requests |-> None] /\ answer = asked
    /\ events = {} /\ jobs = {}

Ask(r) ==
    /\ asked[r] = None
    /\ \E question \in Question : asked' = [asked EXCEPT ![r] = question]
    /\ UNCHANGED <<events, jobs, answer>>

Accept(r) ==
    /\ Open(r) /\ r \notin jobs
    /\ asked[r].key # Invalid
    /\ asked[r].key # None => Scoped(r) = {}
    /\ events' = events \cup {[id |-> r, endpoint |-> asked[r].endpoint,
                               key |-> asked[r].key, content |-> asked[r].content]}
    /\ jobs' = jobs \cup {r}
    /\ UNCHANGED <<asked, answer>>

Tell(r, status, event) ==
    /\ Open(r)
    /\ answer' = [answer EXCEPT ![r] = [status |-> status, event |-> event]]
    /\ UNCHANGED <<asked, events, jobs>>

TellCreated(r) == r \in jobs /\ Tell(r, 201, r)

TellReused(r) ==
    /\ Open(r)
    /\ \E ev \in Scoped(r) :
           /\ ev.key # None /\ ev.id # r /\ ev.content = asked[r].content
           /\ Tell(r, 200, ev.id)

\* A conflict needs an event under the key.
TellConflict(r) ==
    /\ Open(r) /\ asked[r].key # None /\ Scoped(r) # {} /\ r \notin jobs
    /\ Tell(r, 409, None)

\* Refused before anything is accepted.
TellRefused(r) ==
    /\ Open(r) /\ r \notin jobs
    /\ \/ Tell(r, 404, None)
       \/ asked[r].key = Invalid /\ Tell(r, 422, None)

\* The client may learn nothing, whether or not the event was accepted.
TellFailed(r) == Tell(r, 500, None)

Next ==
    \E r \in Requests :
        \/ Ask(r) \/ Accept(r) \/ TellCreated(r) \/ TellReused(r)
        \/ TellConflict(r) \/ TellRefused(r) \/ TellFailed(r)

Spec == Init /\ [][Next]_vars
=============================================================================
