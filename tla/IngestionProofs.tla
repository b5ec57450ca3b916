-------------------------- MODULE IngestionProofs --------------------------
(***************************************************************************)
(* Idempotent ingestion: all accepted requests of one scoped key are told  *)
(* one event.  The argument: an uncommitted event's key is borne by no     *)
(* committed and no other uncommitted event, because the unique key makes  *)
(* a second INSERT wait or lose; rows never change once committed, so what *)
(* a request has read stays true while it waits, commits and answers.      *)
(***************************************************************************)
EXTENDS EventIngestion, TLAPS

\* The row ev is what request r asks for.
Meets(ev, r) ==
    /\ ev.endpoint = input[r].endpoint /\ ev.key = KeyOf(r)
    /\ ev.content = input[r].content

\* What a request knows, at each statement.
LocalInv(r) ==
    /\ IF pc[r] = "idle" THEN input[r] = None ELSE input[r] \in Input
    /\ pc[r] # "done" => answer[r] = None
    /\ pc[r] \notin {"idle", "normalize", "done"} => KeyOf(r) # Invalid
    /\ pc[r] \in {"find_equivalent", "find_scoped", "commit_reused"} => KeyOf(r) # None
    /\ raced[r] => pc[r] # "idle" /\ KeyOf(r) # None /\ Scoped(r) # {}
    /\ HasInserted(r) => found[r] = r
    /\ pc[r] = "commit_reused" => \E ev \in events : Meets(ev, r) /\ ev.id = found[r]
    /\ pc[r] = "respond" => \/ found[r] = r /\ r \in jobs
                            \/ /\ r \notin jobs /\ KeyOf(r) # None
                               /\ \E ev \in events : Meets(ev, r) /\ ev.id = found[r]
    /\ Accepted(r) => /\ pc[r] = "done"
                      /\ \E ev \in events : Meets(ev, r) /\ ev.id = answer[r].event
                      /\ answer[r].status = 201 => answer[r].event = r

\* Event and job belong together and are those of a request that committed.
RowsInv ==
    /\ \A ev \in events : ev.id \in jobs /\ ev = RowOf(ev.id)
    /\ \A r \in jobs : pc[r] \in {"respond", "done"} /\ found[r] = r /\ RowOf(r) \in events

\* A key is borne once, committed or not.
KeysInv ==
    /\ \A d, e \in events :
           d.endpoint = e.endpoint /\ d.key = e.key /\ d.key # None => d = e
    /\ \A r \in Requests : HasInserted(r) /\ KeyOf(r) # None => Scoped(r) = {}
    /\ \A q, r \in Requests :
           HasInserted(q) /\ HasInserted(r) /\ SameScope(q, r) => q = r

IngestionInv ==
    /\ TypeOK
    /\ RowsInv
    /\ KeysInv
    /\ \A r \in Requests : LocalInv(r)

\* Only r moves.
Moves(r) ==
    \A q \in Requests \ {r} :
        /\ pc'[q] = pc[q] /\ input'[q] = input[q] /\ found'[q] = found[q]
        /\ raced'[q] = raced[q] /\ answer'[q] = answer[q]

-----------------------------------------------------------------------------
\* What a request knows survives the commits of the others.
LEMMA KnowledgeStays ==
    ASSUME NEW q \in Requests, LocalInv(q), events \subseteq events',
           pc'[q] = pc[q], input'[q] = input[q], found'[q] = found[q],
           raced'[q] = raced[q], answer'[q] = answer[q], (q \in jobs') = (q \in jobs)
    PROVE  LocalInv(q)'
<1>1. KeyOf(q)' = KeyOf(q) /\ HasInserted(q)' = HasInserted(q) /\ Accepted(q)' = Accepted(q)
    BY DEF KeyOf, HasInserted, Accepted
<1>2. \A ev \in events : Meets(ev, q)' = Meets(ev, q)
    BY <1>1 DEF Meets
<1>3. Scoped(q) \subseteq Scoped(q)'
    BY <1>1 DEF Scoped
<1> QED
    BY <1>1, <1>2, <1>3 DEF LocalInv

\* A step of r that commits nothing.
LEMMA QuietStep ==
    ASSUME IngestionInv, NEW r \in Requests, Moves(r), UNCHANGED <<events, jobs>>,
           TypeOK', LocalInv(r)',
           pc[r] # "idle" => input'[r] = input[r],
           r \in jobs => pc'[r] \in {"respond", "done"} /\ found'[r] = r,
           HasInserted(r)' => \/ HasInserted(r)
                              \/ pc[r] # "idle" /\ ~KeyTaken(r) /\ ~KeyPending(r)
    PROVE  IngestionInv'
<1>1. \A q \in Requests \ {r} : /\ pc'[q] = pc[q] /\ KeyOf(q)' = KeyOf(q)
                                /\ input'[q] = input[q] /\ RowOf(q)' = RowOf(q)
                                /\ HasInserted(q)' = HasInserted(q)
    BY DEF Moves, KeyOf, RowOf, HasInserted
<1>2. pc[r] # "idle" => KeyOf(r)' = KeyOf(r) /\ RowOf(r)' = RowOf(r)
    BY DEF KeyOf, RowOf
<1>3. jobs \subseteq Requests /\ \A q \in jobs : pc[q] # "idle"
    BY DEF IngestionInv, RowsInv, TypeOK
<1>4. RowsInv'
    BY <1>1, <1>2, <1>3 DEF IngestionInv, RowsInv, Moves
<1>5. KeysInv'
    <2>1. \A q \in Requests : HasInserted(q)' /\ KeyOf(q)' # None => Scoped(q)' = {}
        BY <1>1, <1>2 DEF IngestionInv, KeysInv, Scoped, KeyTaken, HasInserted
    <2>2. ASSUME NEW p \in Requests, NEW q \in Requests,
                 HasInserted(p)', HasInserted(q)', SameScope(p, q)'
          PROVE  p = q
        BY <1>1, <1>2, <2>2
        DEF IngestionInv, KeysInv, SameScope, KeyPending, HasInserted
    <2> QED
        BY <2>1, <2>2 DEF IngestionInv, KeysInv
<1>6. \A q \in Requests \ {r} : LocalInv(q)'
    BY KnowledgeStays DEF IngestionInv, Moves
<1> QED
    BY <1>4, <1>5, <1>6 DEF IngestionInv
-----------------------------------------------------------------------------
LEMMA IngestionInvInit == Init => IngestionInv
<1> SUFFICES ASSUME Init PROVE IngestionInv
    OBVIOUS
<1>1. TypeOK
    BY DEF Init, TypeOK, PCs
<1>2. RowsInv /\ KeysInv
    BY DEF Init, RowsInv, KeysInv, HasInserted
<1>3. ASSUME NEW r \in Requests PROVE LocalInv(r)
    BY DEF Init, LocalInv, HasInserted, Accepted
<1> QED
    BY <1>1, <1>2, <1>3 DEF IngestionInv

\* An exception changes nothing that is committed.
LEMMA RefusalKeeps ==
    ASSUME IngestionInv, NEW r \in Requests, pc[r] # "idle", pc[r] # "done",
           NEW status \in {404, 409, 422, 500}, Refuse(r, status)
    PROVE  IngestionInv'
<1> USE DEF Refuse, Goto
<1>1. TypeOK
    BY DEF IngestionInv
<1>2. /\ pc'[r] = "done" /\ input'[r] = input[r] /\ found'[r] = found[r]
      /\ raced'[r] = raced[r] /\ answer'[r] = [status |-> status, event |-> None]
      /\ Moves(r)
    BY <1>1 DEF TypeOK, Moves
<1>3. TypeOK'
    BY <1>1 DEF TypeOK, PCs, Answer
<1>4. LocalInv(r) /\ KeyOf(r)' = KeyOf(r) /\ Scoped(r)' = Scoped(r)
    BY <1>2 DEF IngestionInv, KeyOf, Scoped
<1>5. ~HasInserted(r)' /\ ~Accepted(r)'
    BY <1>2 DEF HasInserted, Accepted
<1>6. LocalInv(r)'
    BY <1>2, <1>4, <1>5 DEF LocalInv
<1>7. r \in jobs => found[r] = r
    BY DEF IngestionInv, RowsInv
<1> QED
    BY <1>2, <1>3, <1>5, <1>6, <1>7, QuietStep

\* A step of r that only moves it on, and notes what it has found or lost.
LEMMA MoveKeeps ==
    ASSUME IngestionInv, NEW r \in Requests, NEW label \in PCs, Goto(r, label),
           UNCHANGED <<endpoints, events, jobs, input, answer>>,
           NEW f \in Requests \cup {None}, found' = [found EXCEPT ![r] = f],
           NEW b \in BOOLEAN, raced' = [raced EXCEPT ![r] = b],
           pc[r] \notin {"idle", "done"}, label \notin {"idle", "done"},
           pc[r] = "normalize" => KeyOf(r) # Invalid,
           r \notin jobs,
           label \in {"find_equivalent", "find_scoped", "commit_reused"} => KeyOf(r) # None,
           b /\ ~raced[r] => KeyTaken(r),
           label \in {"insert_job", "commit_created"} =>
               /\ f = r
               /\ HasInserted(r) \/ (~KeyTaken(r) /\ ~KeyPending(r)),
           label \in {"commit_reused", "respond"} =>
               KeyOf(r) # None /\ \E ev \in events : Meets(ev, r) /\ ev.id = f
    PROVE  IngestionInv'
<1>1. TypeOK
    BY DEF IngestionInv
<1>2. /\ pc'[r] = label /\ input'[r] = input[r] /\ found'[r] = f
      /\ raced'[r] = b /\ answer'[r] = answer[r] /\ Moves(r)
    BY <1>1 DEF TypeOK, Moves, Goto
<1>3. TypeOK'
    BY <1>1 DEF TypeOK, Goto
<1>4. /\ LocalInv(r) /\ KeyOf(r)' = KeyOf(r) /\ Scoped(r)' = Scoped(r)
      /\ \A ev \in events : Meets(ev, r)' = Meets(ev, r)
    BY <1>2 DEF IngestionInv, KeyOf, Scoped, Meets
<1>5. Accepted(r)' = Accepted(r) /\ ~Accepted(r)
    BY <1>2, <1>4 DEF Accepted, LocalInv
<1>6. HasInserted(r)' => label \in {"insert_job", "commit_created"}
    BY <1>2 DEF HasInserted
<1>7. LocalInv(r)'
    BY <1>2, <1>4, <1>5, <1>6 DEF LocalInv, KeyTaken
<1> QED
    BY <1>2, <1>3, <1>6, <1>7, QuietStep
-----------------------------------------------------------------------------
\* The commit of r's event and job.
LEMMA CommitKeeps ==
    ASSUME IngestionInv, NEW r \in Requests, CommitCreated(r)
    PROVE  IngestionInv'
<1> USE DEF CommitCreated, Goto
<1>1. TypeOK /\ LocalInv(r) /\ KeysInv /\ RowsInv
    BY DEF IngestionInv
<1>2. /\ pc'[r] = "respond" /\ input'[r] = input[r] /\ found'[r] = found[r]
      /\ raced'[r] = raced[r] /\ answer'[r] = answer[r] /\ Moves(r)
      /\ \A q \in Requests : input'[q] = input[q] /\ found'[q] = found[q]
    BY <1>1 DEF TypeOK, Moves
<1>3. \A q \in Requests : KeyOf(q)' = KeyOf(q) /\ RowOf(q)' = RowOf(q)
    BY <1>2 DEF KeyOf, RowOf
<1>4. /\ input[r] \in Input /\ found[r] = r /\ KeyOf(r) # Invalid
      /\ HasInserted(r) /\ ~HasInserted(r)'
    BY <1>1, <1>2 DEF LocalInv, HasInserted
<1>5. /\ RowOf(r) \in EventRow /\ RowOf(r).id = r /\ Meets(RowOf(r), r)
      /\ RowOf(r).endpoint = input[r].endpoint /\ RowOf(r).key = KeyOf(r)
    <2>1. KeyOf(r) \in Keys \cup {None}
        BY <1>4 DEF KeyOf, Keys, Input
    <2> QED
        BY <1>4, <2>1 DEF RowOf, EventRow, Meets, Input
<1>6. TypeOK'
    BY <1>1, <1>5 DEF TypeOK, PCs
<1>7. RowsInv'
    BY <1>1, <1>2, <1>3, <1>4, <1>5 DEF RowsInv, Moves, TypeOK
<1>8. KeysInv'
    <2>1. ASSUME NEW d \in events', NEW e \in events', d.endpoint = e.endpoint,
                 d.key = e.key, d.key # None
          PROVE  d = e
        BY <1>1, <1>4, <1>5, <2>1 DEF KeysInv, Scoped
    <2>2. \A q \in Requests \ {r} : HasInserted(q)' = HasInserted(q)
        BY <1>2 DEF HasInserted, Moves
    <2>3. ASSUME NEW q \in Requests, HasInserted(q)', KeyOf(q)' # None
          PROVE  Scoped(q)' = {}
        <3>1. q # r /\ HasInserted(q) /\ KeyOf(q) # None /\ Scoped(q) = {}
            BY <1>1, <1>3, <1>4, <2>2, <2>3 DEF KeysInv
        <3>2. ~(input[q].endpoint = input[r].endpoint /\ KeyOf(q) = KeyOf(r))
            BY <1>1, <1>4, <3>1 DEF KeysInv, SameScope
        <3> QED
            BY <1>2, <1>3, <1>5, <3>1, <3>2 DEF Scoped
    <2>4. ASSUME NEW p \in Requests, NEW q \in Requests,
                 HasInserted(p)', HasInserted(q)', SameScope(p, q)'
          PROVE  p = q
        BY <1>1, <1>2, <1>3, <1>4, <2>2, <2>4 DEF KeysInv, SameScope
    <2> QED
        BY <2>1, <2>3, <2>4 DEF KeysInv
<1>9. LocalInv(r)'
    <2>1. Scoped(r) \subseteq Scoped(r)' /\ KeyOf(r)' = KeyOf(r)
        BY <1>2, <1>3 DEF Scoped
    <2>2. Accepted(r)' = Accepted(r) /\ ~Accepted(r)
        BY <1>1, <1>2 DEF Accepted, LocalInv
    <2>3. r \in jobs'
        OBVIOUS
    <2> QED
        BY <1>1, <1>2, <1>4, <2>1, <2>2, <2>3 DEF LocalInv
<1>10. \A q \in Requests \ {r} : LocalInv(q)'
    BY KnowledgeStays DEF IngestionInv, Moves
<1> QED
    BY <1>6, <1>7, <1>8, <1>9, <1>10 DEF IngestionInv

\* The answer names the event the request has found or created.
LEMMA AnswerKeeps ==
    ASSUME IngestionInv, NEW r \in Requests, Respond(r)
    PROVE  IngestionInv'
<1> USE DEF Respond, Goto
<1>1. TypeOK /\ LocalInv(r)
    BY DEF IngestionInv
<1>2. /\ pc'[r] = "done" /\ input'[r] = input[r] /\ found'[r] = found[r]
      /\ raced'[r] = raced[r] /\ Moves(r)
      /\ answer'[r] = [status |-> IF found[r] = r THEN 201 ELSE 200, event |-> found[r]]
    BY <1>1 DEF TypeOK, Moves
<1>3. TypeOK'
    BY <1>1 DEF TypeOK, PCs, Answer
<1>4. /\ KeyOf(r)' = KeyOf(r) /\ Scoped(r)' = Scoped(r) /\ ~HasInserted(r)'
      /\ \A ev \in events : Meets(ev, r)' = Meets(ev, r)
    BY <1>2 DEF KeyOf, Scoped, HasInserted, Meets
<1>5. r \in jobs => RowOf(r) \in events /\ Meets(RowOf(r), r) /\ RowOf(r).id = r /\ found[r] = r
    BY DEF IngestionInv, RowsInv, RowOf, Meets
<1>6. \E ev \in events : Meets(ev, r) /\ ev.id = found[r]
    BY <1>1, <1>5 DEF LocalInv
<1>7. LocalInv(r)'
    BY <1>1, <1>2, <1>4, <1>6 DEF LocalInv
<1> QED
    BY <1>2, <1>3, <1>4, <1>5, <1>7, QuietStep

\* A request arrives.
LEMMA ReceiveKeeps ==
    ASSUME IngestionInv, NEW r \in Requests, Receive(r)
    PROVE  IngestionInv'
<1> USE DEF Receive, Goto
<1>1. TypeOK /\ LocalInv(r) /\ r \notin jobs
    BY DEF IngestionInv, RowsInv
<1>2. /\ pc'[r] = "normalize" /\ input'[r] \in Input /\ found'[r] = found[r]
      /\ raced'[r] = raced[r] /\ answer'[r] = answer[r] /\ Moves(r)
    BY <1>1 DEF TypeOK, Moves, Input
<1>3. TypeOK'
    <2>1. input' \in [Requests -> Input \cup {None}]
        BY <1>1 DEF TypeOK, Input
    <2> QED
        BY <1>1, <2>1 DEF TypeOK, PCs
<1>4. ~HasInserted(r)' /\ ~Accepted(r)'
    BY <1>1, <1>2 DEF HasInserted, Accepted, LocalInv
<1>5. LocalInv(r)'
    BY <1>1, <1>2, <1>4 DEF LocalInv
<1> QED
    BY <1>1, <1>2, <1>3, <1>4, <1>5, QuietStep
-----------------------------------------------------------------------------
\* Every step of the handler, of a client and of a failure keeps the invariant.
LEMMA IngestionInvStep == IngestionInv /\ [Next]_vars => IngestionInv'
<1> SUFFICES ASSUME IngestionInv, [Next]_vars PROVE IngestionInv'
    OBVIOUS
<1>1. TypeOK
    BY DEF IngestionInv
<1>2. \A r \in Requests :
          /\ LocalInv(r)
          /\ pc[r] \notin {"respond", "done"} => r \notin jobs
          /\ found[r] \in Requests \cup {None} /\ found = [found EXCEPT ![r] = found[r]]
          /\ raced[r] \in BOOLEAN /\ raced = [raced EXCEPT ![r] = raced[r]]
    BY <1>1 DEF IngestionInv, RowsInv, TypeOK
<1>3. {"get_endpoint", "find_equivalent", "find_scoped", "insert_event", "insert_job",
       "commit_reused", "commit_created"} \subseteq PCs
    BY DEF PCs
<1>4. ASSUME NEW x \in Endpoints, CreateEndpoint(x) PROVE IngestionInv'
    <2>1. TypeOK'
        BY <1>1, <1>4 DEF CreateEndpoint, TypeOK
    <2>2. \A r \in Requests : LocalInv(r)'
        BY <1>2, <1>4, KnowledgeStays DEF CreateEndpoint
    <2>3. RowsInv' /\ KeysInv'
        BY <1>4 DEF CreateEndpoint, IngestionInv, RowsInv, KeysInv, RowOf, KeyOf,
                    Scoped, HasInserted, SameScope
    <2> QED
        BY <2>1, <2>2, <2>3 DEF IngestionInv
<1>5. ASSUME NEW r \in Requests, Normalize(r) PROVE IngestionInv'
    BY <1>2, <1>3, <1>5, MoveKeeps DEF Normalize
<1>6. ASSUME NEW r \in Requests, GetEndpoint(r) PROVE IngestionInv'
    <2>1. CASE KeyOf(r) = None
        BY <1>2, <1>3, <1>6, <2>1, MoveKeeps DEF GetEndpoint
    <2>2. CASE KeyOf(r) # None
        BY <1>2, <1>3, <1>6, <2>2, MoveKeeps DEF GetEndpoint
    <2> QED
        BY <2>1, <2>2
<1>7. ASSUME NEW r \in Requests, FindEquivalent(r) PROVE IngestionInv'
    <2>1. KeyOf(r) # None
        BY <1>2, <1>7 DEF FindEquivalent, LocalInv
    <2>2. CASE Goto(r, "find_scoped") /\ UNCHANGED found
        BY <1>2, <1>3, <1>7, <2>1, <2>2, MoveKeeps DEF FindEquivalent
    <2>3. CASE \E ev \in Equivalent(r) : /\ found' = [found EXCEPT ![r] = ev.id]
                                         /\ Goto(r, "commit_reused")
        <3>1. PICK ev \in Equivalent(r) : /\ found' = [found EXCEPT ![r] = ev.id]
                                          /\ Goto(r, "commit_reused")
            BY <2>3
        <3>2. ev \in events /\ Meets(ev, r) /\ ev.id \in Requests
            BY <1>1 DEF Equivalent, Scoped, Meets, TypeOK, EventRow
        <3>3. /\ pc[r] = "find_equivalent" /\ r \notin jobs
              /\ UNCHANGED <<endpoints, events, jobs, input, raced, answer>>
            BY <1>2, <1>7 DEF FindEquivalent
        <3>4. \E e \in events : Meets(e, r) /\ e.id = ev.id
            BY <3>2
        <3> DEFINE f == ev.id
        <3>5. f \in Requests \cup {None} /\ found' = [found EXCEPT ![r] = f]
            BY <3>1, <3>2
        <3> HIDE DEF f
        <3>6. raced[r] \in BOOLEAN /\ raced' = [raced EXCEPT ![r] = raced[r]]
            BY <1>2, <3>3
        <3>7. "commit_reused" \in PCs /\ \E e \in events : Meets(e, r) /\ e.id = f
            BY <1>3, <3>4 DEF f
        <3>8. /\ pc[r] \notin {"idle", "done", "normalize"}
              /\ "commit_reused" \notin {"idle", "done", "insert_job", "commit_created"}
            BY <3>3
        <3> QED
            BY <2>1, <3>1, <3>3, <3>5, <3>6, <3>7, <3>8, MoveKeeps
    <2> QED
        BY <1>7, <2>2, <2>3 DEF FindEquivalent
<1>8. ASSUME NEW r \in Requests, FindScoped(r) PROVE IngestionInv'
    BY <1>2, <1>3, <1>8, MoveKeeps DEF FindScoped
<1>9. ASSUME NEW r \in Requests, InsertEvent(r) PROVE IngestionInv'
    BY <1>2, <1>3, <1>9, MoveKeeps DEF InsertEvent
<1>10. ASSUME NEW r \in Requests, LoseRace(r) PROVE IngestionInv'
    <2>1. /\ pc[r] = "insert_event" /\ KeyTaken(r) /\ Goto(r, "find_equivalent")
          /\ UNCHANGED <<endpoints, events, jobs, input, found, answer>>
          /\ raced' = [raced EXCEPT ![r] = TRUE]
        BY <1>10 DEF LoseRace
    <2>2. KeyOf(r) # None
        BY <2>1 DEF KeyTaken
    <2>3. /\ r \notin jobs /\ found[r] \in Requests \cup {None}
          /\ found' = [found EXCEPT ![r] = found[r]]
        BY <1>2, <2>1
    <2>4. "find_equivalent" \in PCs
        BY <1>3
    <2> QED
        BY <2>1, <2>2, <2>3, <2>4, MoveKeeps
<1>11. ASSUME NEW r \in Requests, InsertJob(r) PROVE IngestionInv'
    <2>1. HasInserted(r) /\ found[r] = r
        BY <1>2, <1>11 DEF InsertJob, LocalInv, HasInserted
    <2> QED
        BY <1>2, <1>3, <1>11, <2>1, MoveKeeps DEF InsertJob
<1>12. ASSUME NEW r \in Requests, CommitReused(r) PROVE IngestionInv'
    <2>1. /\ KeyOf(r) # None /\ "respond" \in PCs
          /\ \E ev \in events : Meets(ev, r) /\ ev.id = found[r]
        BY <1>2, <1>12 DEF CommitReused, LocalInv, PCs
    <2> QED
        BY <1>2, <1>3, <1>12, <2>1, MoveKeeps DEF CommitReused
<1>13. ASSUME NEW r \in Requests,
              RefuseKey(r) \/ RefuseEndpoint(r) \/ RefuseConflict(r) \/ Fail(r)
       PROVE  IngestionInv'
    BY <1>13, RefusalKeeps DEF RefuseKey, RefuseEndpoint, RefuseConflict, Fail
<1>14. CASE UNCHANGED vars
    <2>1. TypeOK' /\ RowsInv' /\ KeysInv'
        BY <1>14 DEF vars, IngestionInv, TypeOK, RowsInv, KeysInv, RowOf, KeyOf,
                     Scoped, HasInserted, SameScope
    <2>2. \A r \in Requests : LocalInv(r)'
        BY <1>2, <1>14, KnowledgeStays DEF vars
    <2> QED
        BY <2>1, <2>2 DEF IngestionInv
<1> QED
    BY <1>4, <1>5, <1>6, <1>7, <1>8, <1>9, <1>10, <1>11, <1>12, <1>13, <1>14,
       ReceiveKeeps, CommitKeeps, AnswerKeeps
    DEF Next, Handle

LEMMA IngestionInvariant == Spec => []IngestionInv
<1> QED
    BY IngestionInvInit, IngestionInvStep, PTL DEF Spec

-----------------------------------------------------------------------------
\* Every variable keeps its type, and every committed row is well formed.
THEOREM IngestionTypeCorrect == Spec => []TypeOK
<1>1. IngestionInv => TypeOK
    BY DEF IngestionInv
<1> QED
    BY <1>1, IngestionInvariant, PTL

\* However requests of one scoped key race, fail and are repeated, those that
\* are accepted name one event, and one of them at most is told it created it.
THEOREM AnswersAlwaysAgree == Spec => []AnswersAgree
<1>1. IngestionInv => AnswersAgree
    <2> SUFFICES ASSUME IngestionInv, NEW q \in Requests, NEW r \in Requests,
                        Accepted(q), Accepted(r), SameScope(q, r)
                 PROVE  /\ answer[q].event = answer[r].event
                        /\ input[q].content = input[r].content
                        /\ answer[q].status = 201 /\ answer[r].status = 201 => q = r
        BY DEF AnswersAgree
    <2>1. PICK d \in events : Meets(d, q) /\ d.id = answer[q].event
        BY DEF IngestionInv, LocalInv
    <2>2. PICK e \in events : Meets(e, r) /\ e.id = answer[r].event
        BY DEF IngestionInv, LocalInv
    <2>3. d = e
        BY <2>1, <2>2 DEF IngestionInv, KeysInv, SameScope, Meets
    <2>4. /\ answer[q].status = 201 => answer[q].event = q
          /\ answer[r].status = 201 => answer[r].event = r
        BY DEF IngestionInv, LocalInv
    <2> QED
        BY <2>1, <2>2, <2>3, <2>4 DEF Meets
<1> QED
    BY <1>1, IngestionInvariant, PTL

\* The IntegrityError of a lost race is always resolved to the winner's event.
THEOREM RaceLosersFindWinner == Spec => []LostRaceFindsWinner
<1>1. IngestionInv => LostRaceFindsWinner
    BY DEF IngestionInv, LocalInv, LostRaceFindsWinner
<1> QED
    BY <1>1, IngestionInvariant, PTL
-----------------------------------------------------------------------------
(* Refinement of the ledger.                                                *)

\* A request that has started asks for what its row would hold.
LEMMA AskedOf ==
    ASSUME IngestionInv, NEW r \in Requests, pc[r] # "idle"
    PROVE  /\ Asked[r] # None /\ Asked[r].endpoint = input[r].endpoint
           /\ Asked[r].key = KeyOf(r) /\ Asked[r].content = input[r].content
           /\ Ledger!Scoped(r) = Scoped(r)
<1>1. input[r] \in Input /\ input[r] # None
    BY RecordsAssumption DEF IngestionInv, LocalInv
<1>2. Asked[r] = [endpoint |-> input[r].endpoint, key |-> KeyOf(r),
                  content |-> input[r].content]
    BY <1>1 DEF Asked
<1>3. KeyOf(r) \in Keys \cup {None, Invalid}
    BY <1>1 DEF KeyOf, Keys, Input
<1>4. Asked[r] \in Question
    BY <1>1, <1>2, <1>3 DEF Question, Input
<1> QED
    BY <1>2, <1>4, RecordsAssumption DEF Ledger!Scoped, Scoped

LEMMA LedgerInit == Init => Ledger!Init
    BY DEF Init, Ledger!Init, Asked

\* A step that commits and answers nothing is invisible in the ledger.
LEMMA InvisibleStep ==
    ASSUME UNCHANGED <<input, events, jobs, answer>>
    PROVE  UNCHANGED Ledger!vars
    BY DEF Ledger!vars, Asked, KeyOf

\* An answer without an event.
LEMMA RefusalIsTold ==
    ASSUME IngestionInv, NEW r \in Requests, pc[r] \notin {"idle", "done"},
           NEW status \in {404, 409, 422, 500}, Refuse(r, status),
           status # 500 => r \notin jobs,
           status = 422 => KeyOf(r) = Invalid,
           status = 409 => KeyOf(r) # None /\ Scoped(r) # {}
    PROVE  Ledger!Next
<1>1. Ledger!Open(r)
    BY AskedOf DEF IngestionInv, LocalInv, Ledger!Open
<1>2. Asked' = Asked
    BY DEF Refuse, Asked, KeyOf
<1>3. Ledger!Tell(r, status, None)
    BY <1>1, <1>2 DEF Refuse, Ledger!Tell
<1> QED
    BY <1>1, <1>3, AskedOf
    DEF Ledger!Next, Ledger!TellConflict, Ledger!TellRefused, Ledger!TellFailed

LEMMA LedgerStep == IngestionInv /\ [Next]_vars => [Ledger!Next]_(Ledger!vars)
<1> SUFFICES ASSUME IngestionInv, [Next]_vars
             PROVE  Ledger!Next \/ UNCHANGED Ledger!vars
    OBVIOUS
<1>1. \A r \in Requests : /\ LocalInv(r)
                          /\ pc[r] \notin {"respond", "done"} => r \notin jobs
    BY DEF IngestionInv, RowsInv
<1>2. ASSUME NEW r \in Requests, Receive(r) PROVE Ledger!Next
    <2>1. PICK x \in Endpoints, h \in Headers \cup {Absent}, c \in Contents :
              input' = [input EXCEPT ![r] = [endpoint |-> x, header |-> h, content |-> c]]
        BY <1>2 DEF Receive
    <2> DEFINE k == IF h = Absent THEN None ELSE Normalized[h]
               question == [endpoint |-> x, key |-> k, content |-> c]
    <2>2. /\ question \in Ledger!Question /\ question \in Question
          /\ [endpoint |-> x, header |-> h, content |-> c] \in Input
        BY DEF Ledger!Question, Question, Keys, Input
    <2>3. Asked[r] = None
        BY <1>1, <1>2 DEF Receive, LocalInv, Asked
    <2>4. Asked' = [Asked EXCEPT ![r] = question]
        <3>1. input' \in [Requests -> Input \cup {None}] /\ input'[r] # None
            BY <1>1, <2>1, <2>2, RecordsAssumption DEF IngestionInv, TypeOK
        <3>2. Asked'[r] = question
            BY <1>1, <2>1, <3>1 DEF Asked, KeyOf, IngestionInv, TypeOK
        <3>3. \A q \in Requests \ {r} : Asked'[q] = Asked[q]
            BY <2>1 DEF Asked, KeyOf, IngestionInv, TypeOK
        <3> HIDE DEF question
        <3>4. DOMAIN Asked = Requests /\ DOMAIN Asked' = Requests
            BY DEF Asked
        <3> QED
            BY <3>2, <3>3, <3>4 DEF Asked
    <2>5. Ledger!Ask(r)
        BY <1>2, <2>2, <2>3, <2>4 DEF Receive, Ledger!Ask
    <2> QED
        BY <2>5 DEF Ledger!Next
<1>3. ASSUME NEW r \in Requests, CommitCreated(r) PROVE Ledger!Next
    <2>1. /\ r \notin jobs /\ pc[r] # "idle" /\ answer[r] = None /\ KeyOf(r) # Invalid
          /\ KeyOf(r) # None => Scoped(r) = {}
        BY <1>1, <1>3 DEF CommitCreated, LocalInv, IngestionInv, KeysInv, HasInserted
    <2>2. Asked' = Asked
        BY <1>3 DEF CommitCreated, Asked, KeyOf
    <2>3. Ledger!Accept(r)
        BY <1>3, <2>1, <2>2, AskedOf
        DEF CommitCreated, RowOf, Ledger!Accept, Ledger!Open
    <2> QED
        BY <2>3 DEF Ledger!Next
<1>4. ASSUME NEW r \in Requests, Respond(r) PROVE Ledger!Next
    <2>1. pc[r] = "respond" /\ answer[r] = None /\ Asked' = Asked
        BY <1>1, <1>4 DEF Respond, LocalInv, Asked, KeyOf
    <2>2. Ledger!Open(r)
        BY <2>1, AskedOf DEF Ledger!Open
    <2>3. CASE found[r] = r /\ r \in jobs
        <3>1. Ledger!TellCreated(r)
            BY <1>4, <2>1, <2>2, <2>3 DEF Respond, Ledger!TellCreated, Ledger!Tell
        <3> QED
            BY <3>1 DEF Ledger!Next
    <2>4. CASE /\ r \notin jobs /\ KeyOf(r) # None
               /\ \E ev \in events : Meets(ev, r) /\ ev.id = found[r]
        <3>1. PICK ev \in events : Meets(ev, r) /\ ev.id = found[r]
            BY <2>4
        <3>2. ev.id # r /\ ev \in Scoped(r) /\ ev.key # None
            BY <2>4, <3>1 DEF IngestionInv, RowsInv, Meets, Scoped
        <3>3. Ledger!Tell(r, 200, ev.id)
            BY <1>4, <2>1, <2>2, <3>1, <3>2 DEF Respond, Ledger!Tell
        <3>4. Ledger!TellReused(r)
            BY <2>1, <2>2, <3>1, <3>2, <3>3, AskedOf DEF Ledger!TellReused, Meets
        <3> QED
            BY <3>4 DEF Ledger!Next
    <2> QED
        BY <1>1, <2>1, <2>3, <2>4 DEF LocalInv
<1>5. ASSUME NEW r \in Requests,
             RefuseKey(r) \/ RefuseEndpoint(r) \/ RefuseConflict(r) \/ Fail(r)
      PROVE  Ledger!Next
    <2>1. CASE RefuseKey(r)
        BY <1>1, <2>1, RefusalIsTold DEF RefuseKey
    <2>2. CASE RefuseEndpoint(r)
        BY <1>1, <2>2, RefusalIsTold DEF RefuseEndpoint
    <2>3. CASE RefuseConflict(r)
        <3>1. KeyOf(r) # None
            BY <1>1, <2>3 DEF RefuseConflict, LocalInv
        <3> QED
            BY <1>1, <2>3, <3>1, RefusalIsTold DEF RefuseConflict
    <2>4. CASE Fail(r)
        BY <2>4, RefusalIsTold DEF Fail
    <2> QED
        BY <1>5, <2>1, <2>2, <2>3, <2>4
<1>6. ASSUME NEW r \in Requests,
             \/ Normalize(r) \/ GetEndpoint(r) \/ FindEquivalent(r) \/ FindScoped(r)
             \/ InsertEvent(r) \/ LoseRace(r) \/ InsertJob(r) \/ CommitReused(r)
      PROVE  UNCHANGED Ledger!vars
    BY <1>6, InvisibleStep
    DEF Normalize, GetEndpoint, FindEquivalent, FindScoped, InsertEvent, LoseRace,
        InsertJob, CommitReused
<1>7. ASSUME NEW x \in Endpoints, CreateEndpoint(x) PROVE UNCHANGED Ledger!vars
    BY <1>7, InvisibleStep DEF CreateEndpoint
<1>8. CASE UNCHANGED vars
    BY <1>8, InvisibleStep DEF vars
<1> QED
    BY <1>2, <1>3, <1>4, <1>5, <1>6, <1>7, <1>8 DEF Next, Handle

\* Racing, failing and repeated requests only ever do what the ledger allows: an
\* event and its job appear at once, under a free key, and answers are right.
THEOREM IngestionImplementsLedger == Spec => ImplementsLedger
<1> QED
    BY LedgerInit, LedgerStep, IngestionInvariant, PTL
    DEF Spec, ImplementsLedger, Ledger!Spec
=============================================================================
