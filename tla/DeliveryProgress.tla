-------------------------- MODULE DeliveryProgress --------------------------
(***************************************************************************)
(* Does every accepted job finish?  The delivery core on a clock that never *)
(* stops: when an old instant is no longer told apart from its neighbours, *)
(* it is dropped and every later timestamp moves down by one.  The order   *)
(* of the timestamps the statements compare and their distance to the      *)
(* present are kept, so an endless run needs finitely many states.         *)
(*                                                                         *)
(* Crashes and stops of a worker are bounded by MaxFaults; the failures    *)
(* that its own exceptions cause are not.                                  *)
(***************************************************************************)
EXTENDS WebhookDelivery

CONSTANT MaxFaults  \* bound on crashes and stops

ASSUME FaultsAssumption == MaxFaults \in Nat

VARIABLES
    faults,         \* crashes and stops so far (a bound, not in the code)
    calls           \* HTTP calls made so far (history, not in the code)

progress_vars == <<vars, faults, calls>>

InitProgress == Init /\ faults = 0 /\ calls = 0

\* The instants a later statement compares: the sort keys of the rows that are
\* still to be claimed or recovered, and the timestamps a running process has taken.
Compared ==
    UNION {{jobs[e].next_attempt_at, jobs[e].created_at} :
           e \in {d \in Events : Exists(d) /\ jobs[d].status = "pending"}}
    \cup UNION {{jobs[e].updated_at, jobs[e].created_at} :
                e \in {d \in Events : Exists(d) /\ jobs[d].status = "processing"}}
    \cup UNION {{ctx[w].at, ctx[w].decision_at} :
                w \in {v \in Procs : pc[v] \notin {"down", "idle", "done"}}}

\* Instants that may be dropped: before every cutoff a timely iteration uses.
Gaps == (0..(now - 2 * StaleTimeout + 1)) \ Compared

Earlier(t, gap) == IF t > gap THEN t - 1 ELSE t

\* A timestamp that no later statement compares is forgotten.
EarlierRow(job, gap) ==
    IF job = None THEN None
    ELSE CASE job.status = "pending" ->
                 [job EXCEPT !.next_attempt_at = Earlier(@, gap), !.updated_at = 0,
                             !.created_at = Earlier(@, gap)]
           [] job.status = "processing" ->
                 [job EXCEPT !.next_attempt_at = 0, !.updated_at = Earlier(@, gap),
                             !.created_at = Earlier(@, gap)]
           [] job.status \in Terminal ->
                 [job EXCEPT !.updated_at = 0, !.created_at = 0]

EarlierContext(c, gap) ==
    [c EXCEPT !.at = Earlier(@, gap), !.attempted_at = 0,
              !.decision_at = Earlier(@, gap)]

\* The clock advances by one: now stays where it is and the past moves.
Elapse ==
    /\ \A w \in Workers : \/ pc[w] \in {"down", "idle"}
                          \/ now + 1 < ctx[w].at + StaleTimeout
    /\ \E gap \in Gaps :
           /\ \A g \in Gaps : gap <= g
           /\ jobs' = [e \in Events |-> EarlierRow(jobs[e], gap)]
           /\ ctx' = [p \in Procs |-> EarlierContext(ctx[p], gap)]
    /\ attempts' = [e \in Events |->
           {[a EXCEPT !.attempted_at = 0] : a \in attempts[e]}]
    /\ UNCHANGED <<env, cycle_start, holder, pc, faults, calls>>

\* A step of the core that is no fault.
Regular ==
    /\ calls' = calls + Cardinality({p \in Procs : pc[p] = "send" /\ pc'[p] = "record"})
    /\ UNCHANGED faults

Time == Elapse \/ (Gaps = {} /\ Tick /\ Regular)
Restart(w) == Start(w) /\ Regular
Poll(w) == BeginIteration(w) /\ Regular
Work(w) == (Iterate(w) \/ Deliver(w)) /\ Regular
Answer(d) == (Deliver(d) \/ CommitDelivery(d)) /\ Regular

Fault(w) ==
    /\ Crash(w) \/ Stop(w)
    /\ faults < MaxFaults /\ faults' = faults + 1
    /\ UNCHANGED calls

\* Operators, producers and API clients.
Operate ==
    /\ \/ \E x \in Volatile : SetActive(x)
       \/ \E e \in Events : CreateEvent(e)
       \/ \E d \in Deliveries : RequestDelivery(d)
       \/ \E r \in Replays : RequestReplay(r) \/ Replay(r)
    /\ Regular

NextProgress ==
    \/ Time \/ Operate
    \/ \E w \in Workers : Restart(w) \/ Poll(w) \/ Work(w) \/ Fault(w)
    \/ \E d \in Deliveries : Answer(d)

\* Time passes, a worker polls and its statements are executed.  That a worker
\* which exited is started again is the operator's part.
ProgressSpec ==
    /\ InitProgress /\ [][NextProgress]_progress_vars
    /\ SF_progress_vars(Time)
    /\ \A w \in Workers :
           /\ WF_progress_vars(Restart(w))
           /\ WF_progress_vars(Poll(w))
           /\ WF_progress_vars(Work(w))
    /\ \A d \in Deliveries : WF_progress_vars(Answer(d))

-----------------------------------------------------------------------------
\* The keys of the committed attempts.
Recorded == UNION {{<<e, a.number>> : a \in attempts[e]} : e \in Events}

\* The workers whose call returned and whose transaction is still open.
InFlight == {w \in Workers : pc[w] \in {"record", "update", "commit_job"}}

\* Where no manual delivery competes, the service loses the record of a call
\* only when a process is killed between the call and the commit: at least
\* once, and once but for the crashes (delivery_service.py:111-148).
CallsAreRecorded == calls <= Cardinality(Recorded) + Cardinality(InFlight) + faults

\* Every accepted job reaches a terminal status once its own endpoint stays
\* active: through retries, crashes and recoveries, and although the worker
\* dies of each job of a switched-off endpoint it claims.  No row is passed
\* over forever by ORDER BY and LIMIT (delivery_job_service.py:43-50,
\* delivery_job_recovery_service.py:56-63).
JobsFinish ==
    \A e \in Events :
        <>[]active[EndpointOf[e]] =>
            (Exists(e) ~> Exists(e) /\ jobs[e].status \in Terminal)
=============================================================================
