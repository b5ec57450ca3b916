-------------------------- MODULE WebhookDelivery --------------------------
(***************************************************************************)
(* The delivery core of the service: the PostgreSQL rows of delivery jobs  *)
(* and attempts, the worker processes that recover, claim and execute jobs *)
(* (worker_iteration_service, delivery_processing_service, ...), and the   *)
(* two API requests that touch the same rows: the manual delivery and the  *)
(* replay.  Every transaction is READ COMMITTED: a statement reads the     *)
(* rows committed when it runs; a row lock is held until the transaction   *)
(* ends.  One step is one SQL statement, one commit or one HTTP call.      *)
(*                                                                         *)
(* A job and its event are one-to-one (unique event_id), so both are named *)
(* by the event.  `now' is the one clock of the deployment.                *)
(***************************************************************************)
EXTENDS Integers, Sequences, FiniteSets, Functions

CONSTANTS
    Events,           \* the events that may be accepted
    Endpoints,        \* the registered endpoints
    EndpointOf,       \* the endpoint of each event
    Volatile,         \* endpoints an operator switches off and on in the database
    Workers,          \* worker processes
    Deliveries,       \* manual delivery requests to the API
    Replays,          \* replay requests to the API
    None,
    MaxAttempts,      \* webhook_delivery_max_attempts
    RetryDelay,       \* RetryDelay[n]: delay after the n-th failure of a cycle
    StaleTimeout,     \* webhook_worker_stale_processing_timeout_seconds
    RecoveryLimit,    \* webhook_worker_recovery_limit
    ProcessingLimit,  \* webhook_worker_processing_limit
    MaxTime,          \* bound on the clock
    Timely            \* TRUE: an iteration ends before its claims turn stale

Requests == Deliveries \cup Replays
Procs == Workers \cup Requests
Instants == 0..MaxTime

ASSUME ProcsAssumption ==
    /\ Workers \cap Requests = {} /\ Deliveries \cap Replays = {}
    /\ None \notin Procs

ASSUME EventsAssumption ==
    /\ IsFiniteSet(Events)
    /\ EndpointOf \in [Events -> Endpoints]
    /\ Volatile \subseteq Endpoints

ASSUME SettingsAssumption ==
    /\ MaxAttempts \in Nat \ {0}
    /\ RetryDelay \in [1..MaxAttempts -> Nat]
    /\ StaleTimeout \in Nat \ {0}
    /\ RecoveryLimit \in Nat \ {0} /\ ProcessingLimit \in Nat \ {0}
    /\ MaxTime \in Nat
    /\ None \notin Int
    /\ Timely \in BOOLEAN

VARIABLES
    now,          \* the clock
    active,       \* WebhookEndpoint.is_active
    jobs,         \* committed WebhookDeliveryJob rows
    attempts,     \* committed WebhookDeliveryAttempt rows
    holder,       \* the transaction holding each job row's lock
    pc,           \* where each process stands
    ctx,          \* each process's local variables
    cycle_start   \* highest attempt number when the event was last replayed
                  \* (history, not in the code)

vars == <<now, active, jobs, attempts, holder, pc, ctx, cycle_start>>
rows == <<jobs, attempts, cycle_start>>
env  == <<now, active>>

Terminal == {"succeeded", "dead_letter"}
Statuses == {"pending", "processing"} \cup Terminal
Outcomes == {"succeeded", "failed"}

\* A job row.  next_attempt_at is the code's nullable column.
JobRow == [status : Statuses, next_attempt_at : Nat \cup {None},
           updated_at : Instants, created_at : Instants, attempt_count : Nat]

\* An attempt row; `by' is history, the code does not store who sent it.
AttemptRow == [number : Nat \ {0}, outcome : Outcomes, attempted_at : Instants,
               by : {"worker", "manual"}]

\* No row is None.
ASSUME RowsAssumption == None \notin JobRow

\* Where a process stands: the statement it executes next.
PCs == {"down", "idle", "recover", "commit_recovery", "claim", "commit_claim",
        "load", "prepare", "send", "record", "update", "commit_job",
        "commit_manual", "lock", "commit_replay", "done"}

\* The locals of a process.  `at' is a worker's iteration_at and a replay's
\* replayed_at; `count' is cycle_attempt_number.
Context == [at : Instants, batch : Seq(Events), count : Nat, number : Nat,
            attempted_at : Instants, outcome : Outcomes, decision_at : Instants]

NoContext == [at |-> 0, batch |-> <<>>, count |-> 0, number |-> 0,
              attempted_at |-> 0, outcome |-> "failed", decision_at |-> 0]

Exists(e) == jobs[e] # None
Current(p) == Head(ctx[p].batch)

\* The attempt inserted by p is flushed and not yet committed.
HasInserted(p) == pc[p] \in {"update", "commit_job", "commit_manual"}

\* Plausible bug: a session that is never closed keeps its locks.
LeakedLocks(p) == holder

\* The lock table once p's transaction is over.
Released(p) == [e \in Events |-> IF holder[e] = p THEN None ELSE holder[e]]

\* The lock table once p has locked the rows of a set.
Locked(p, S) == [e \in Events |-> IF e \in S THEN p ELSE holder[e]]

Goto(p, label) == pc' = [pc EXCEPT ![p] = label]

-----------------------------------------------------------------------------
(* Row selection of the claim and recovery statements.                      *)

\* ORDER BY key, created_at (ties fall to the random id, so either way).
Precedes(key, d, e) ==
    \/ jobs[d][key] < jobs[e][key]
    \/ jobs[d][key] = jobs[e][key] /\ jobs[d].created_at < jobs[e].created_at

\* The results of SELECT ... ORDER BY key, created_at, id LIMIT limit over the
\* candidate rows: an ordered list that leaves out no row before its last one.
Selections(candidates, key, limit) ==
    LET size == IF Cardinality(candidates) < limit
                THEN Cardinality(candidates) ELSE limit
    IN  {list \in [1..size -> candidates] :
            /\ IsInjective(list)
            /\ \A i, j \in 1..size : i < j => ~Precedes(key, list[j], list[i])
            /\ \A e \in candidates \ Range(list), i \in 1..size :
                    ~Precedes(key, e, list[i])}

\* Plausible bugs of the recovery statement: the age measured by created_at,
\* and the status left out of the WHERE clause.
StaleRowsByCreation(stale_before) ==
    {e \in Events : /\ Exists(e) /\ holder[e] = None
                    /\ jobs[e].status = "processing"
                    /\ jobs[e].created_at <= stale_before}

StaleRowsAnyStatus(stale_before) ==
    {e \in Events : /\ Exists(e) /\ holder[e] = None
                    /\ jobs[e].updated_at <= stale_before}

\* Rows the recovery statement sees: processing, at least as old as the
\* cutoff, and not locked (SKIP LOCKED).
StaleRows(stale_before) ==
    {e \in Events : /\ Exists(e) /\ holder[e] = None
                    /\ jobs[e].status = "processing"
                    /\ jobs[e].updated_at <= stale_before}

\* Rows the claim statement sees: pending, due, and not locked.
DueRows(claimed_at) ==
    {e \in Events : /\ Exists(e) /\ holder[e] = None
                    /\ jobs[e].status = "pending"
                    /\ jobs[e].next_attempt_at <= claimed_at}

(* The values the transactions write.                                       *)

\* Plausible bugs of recovery: it keeps the instant the job was due, and it
\* counts the attempt that was lost.
RecoveredRowKeepingDue(job, at) ==
    [job EXCEPT !.status = "pending", !.updated_at = at]

RecoveredRowCounting(job, at) ==
    [job EXCEPT !.status = "pending", !.next_attempt_at = at, !.updated_at = at,
                !.attempt_count = @ + 1]

RecoveredRow(job, at) ==
    [job EXCEPT !.status = "pending", !.next_attempt_at = at, !.updated_at = at]

ClaimedRow(job, at) ==
    [job EXCEPT !.status = "processing", !.updated_at = at]

\* Plausible bugs: a replay that sets no instant to be due at, and one that
\* keeps the spent budget.
ReplayedRowNotDue(job, at) ==
    [job EXCEPT !.status = "pending", !.updated_at = at, !.attempt_count = 0]

ReplayedRowKeepingCount(job, at) == RecoveredRow(job, at)

ReplayedRow(job, at) ==
    [job EXCEPT !.status = "pending", !.next_attempt_at = at,
                !.updated_at = at, !.attempt_count = 0]

\* Plausible bugs of the decision: one attempt too many, and the budget checked
\* before the outcome.
DecisionOffByOne(outcome, n, at) ==
    IF outcome = "succeeded" THEN [status |-> "succeeded", due |-> None]
    ELSE IF n > MaxAttempts THEN [status |-> "dead_letter", due |-> None]
    ELSE [status |-> "pending", due |-> at + RetryDelay[n]]

DecisionBudgetFirst(outcome, n, at) ==
    IF n >= MaxAttempts THEN [status |-> "dead_letter", due |-> None]
    ELSE IF outcome = "succeeded" THEN [status |-> "succeeded", due |-> None]
    ELSE [status |-> "pending", due |-> at + RetryDelay[n]]

\* decide_webhook_retry for the n-th worker attempt of the cycle.
Decision(outcome, n, at) ==
    IF outcome = "succeeded" THEN [status |-> "succeeded", due |-> None]
    ELSE IF n >= MaxAttempts THEN [status |-> "dead_letter", due |-> None]
    ELSE [status |-> "pending", due |-> at + RetryDelay[n]]

\* The completion UPDATE: it is keyed by id only and overwrites whatever the
\* row holds by now with values computed from the row as it was loaded.
CompletedRow(job, c) ==
    LET decision == Decision(c.outcome, c.count, c.decision_at)
    IN  [job EXCEPT !.status = decision.status, !.next_attempt_at = decision.due,
                    !.updated_at = c.decision_at, !.attempt_count = c.count]

\* Plausible bugs: the last number is used again, and numbering from the count of
\* rows.
NextNumberReused(e) ==
    IF attempts[e] = {} THEN 1
    ELSE CHOOSE n \in {a.number : a \in attempts[e]} :
             \A a \in attempts[e] : a.number <= n

NextNumberFromCount(e) == Cardinality(attempts[e])

\* max(attempt_number) + 1 over the committed attempts of the event.
NextNumber(e) ==
    IF attempts[e] = {} THEN 1
    ELSE 1 + (CHOOSE n \in {a.number : a \in attempts[e]} :
                  \A a \in attempts[e] : a.number <= n)

\* The attempt row p has built.
AttemptOf(p) == [number |-> ctx[p].number, outcome |-> ctx[p].outcome,
                 attempted_at |-> ctx[p].attempted_at,
                 by |-> IF p \in Workers THEN "worker" ELSE "manual"]

-----------------------------------------------------------------------------
Init ==
    /\ now = 0
    /\ active = [x \in Endpoints |-> TRUE]
    /\ jobs = [e \in Events |-> None]
    /\ attempts = [e \in Events |-> {}]
    /\ cycle_start = [e \in Events |-> 0]
    /\ holder = [e \in Events |-> None]
    /\ pc = [p \in Procs |-> IF p \in Workers THEN "down" ELSE "idle"]
    /\ ctx = [p \in Procs |-> NoContext]

\* Event ingestion: event and job are inserted by one transaction.
CreateEvent(e) ==
    /\ jobs[e] = None
    /\ jobs' = [jobs EXCEPT ![e] =
                   [status |-> "pending", next_attempt_at |-> now,
                    updated_at |-> now, created_at |-> now, attempt_count |-> 0]]
    /\ UNCHANGED <<env, attempts, cycle_start, holder, pc, ctx>>

\* The transaction rolls back and its locks are gone.  In a worker every
\* exception is fatal: it leaves run_webhook_worker and the process exits.
Rollback(p) ==
    /\ holder' = Released(p)
    /\ Goto(p, IF p \in Workers THEN "down" ELSE "done")
    /\ ctx' = [ctx EXCEPT ![p] = NoContext]
    /\ UNCHANGED <<env, rows>>

\* A crash, a killed process, a lost connection, or any exception.
Crash(p) ==
    /\ pc[p] \notin {"down", "done"}
    /\ Rollback(p)

-----------------------------------------------------------------------------
(* The worker process: loop and iteration.                                  *)

Start(w) ==
    /\ pc[w] = "down"
    /\ Goto(w, "idle")
    /\ UNCHANGED <<env, rows, holder, ctx>>

\* A stop request is honoured before an iteration, after one, or in the wait.
Stop(w) ==
    /\ pc[w] = "idle"
    /\ Goto(w, "down")
    /\ UNCHANGED <<env, rows, holder, ctx>>

BeginIteration(w) ==
    /\ pc[w] = "idle"
    /\ ctx' = [ctx EXCEPT ![w].at = now]
    /\ Goto(w, "recover")
    /\ UNCHANGED <<env, rows, holder>>

\* recover_stale_webhook_delivery_jobs: SELECT ... FOR UPDATE SKIP LOCKED and
\* the flushed UPDATE.
Recover(w) ==
    /\ pc[w] = "recover"
    /\ \E list \in Selections(StaleRows(ctx[w].at - StaleTimeout),
                              "updated_at", RecoveryLimit) :
           holder' = Locked(w, Range(list))
    /\ Goto(w, "commit_recovery")
    /\ UNCHANGED <<env, rows, ctx>>

CommitRecovery(w) ==
    /\ pc[w] = "commit_recovery"
    /\ jobs' = [e \in Events |-> IF holder[e] = w
                                 THEN RecoveredRow(jobs[e], ctx[w].at)
                                 ELSE jobs[e]]
    /\ holder' = Released(w)
    /\ Goto(w, "claim")
    /\ UNCHANGED <<env, attempts, cycle_start, ctx>>

\* claim_due_webhook_delivery_jobs, with the iteration_at of the recovery.
Claim(w) ==
    /\ pc[w] = "claim"
    /\ \E list \in Selections(DueRows(ctx[w].at), "next_attempt_at",
                              ProcessingLimit) :
           /\ holder' = Locked(w, Range(list))
           /\ ctx' = [ctx EXCEPT ![w].batch = list]
    /\ Goto(w, "commit_claim")
    /\ UNCHANGED <<env, rows>>

\* The next statement of a worker whose remaining batch is given.
AfterJob(batch) == IF batch = <<>> THEN "idle" ELSE "load"

\* The locals that survive a finished job: the timestamp and the rest of the
\* batch; nothing once the iteration has returned.
Remaining(c, batch) ==
    IF batch = <<>> THEN NoContext
    ELSE [NoContext EXCEPT !.at = c.at, !.batch = batch]

CommitClaim(w) ==
    /\ pc[w] = "commit_claim"
    /\ jobs' = [e \in Events |-> IF holder[e] = w
                                 THEN ClaimedRow(jobs[e], ctx[w].at)
                                 ELSE jobs[e]]
    /\ holder' = Released(w)
    /\ Goto(w, AfterJob(ctx[w].batch))
    /\ ctx' = [ctx EXCEPT ![w] = Remaining(ctx[w], ctx[w].batch)]
    /\ UNCHANGED <<env, attempts, cycle_start>>

-----------------------------------------------------------------------------
(* Executing one job: execute_webhook_delivery_job around                   *)
(* execute_webhook_delivery, which the manual request calls directly.       *)

\* session.get(WebhookDeliveryJob): no lock is taken.
LoadJob(w) ==
    /\ pc[w] = "load"
    /\ jobs[Current(w)].status = "processing"
    /\ ctx' = [ctx EXCEPT ![w].count = jobs[Current(w)].attempt_count + 1]
    /\ Goto(w, "prepare")
    /\ UNCHANGED <<env, rows, holder>>

\* WebhookDeliveryJobNotProcessingError.
LoadLostJob(w) ==
    /\ pc[w] = "load"
    /\ jobs[Current(w)].status # "processing"
    /\ Rollback(w)

\* prepare_webhook_delivery: the endpoint check, then the next number.
Prepare(p) ==
    /\ pc[p] = "prepare"
    /\ active[EndpointOf[Current(p)]]
    /\ ctx' = [ctx EXCEPT ![p].number = NextNumber(Current(p))]
    /\ Goto(p, "send")
    /\ UNCHANGED <<env, rows, holder>>

\* InactiveWebhookEndpointError.
PrepareInactive(p) ==
    /\ pc[p] = "prepare"
    /\ ~active[EndpointOf[Current(p)]]
    /\ Rollback(p)

\* Plausible bug: the attempt stamped with the iteration's timestamp.
SendStampedByIteration(p) ==
    /\ pc[p] = "send"
    /\ \E o \in Outcomes :
           ctx' = [ctx EXCEPT ![p].attempted_at = ctx[p].at, ![p].outcome = o]
    /\ Goto(p, "record")
    /\ UNCHANGED <<env, rows, holder>>

\* utc_now, then the HTTP call and its classification.  The call returns at
\* the next step of p: the clock may advance before it.
Send(p) ==
    /\ pc[p] = "send"
    /\ \E o \in Outcomes :
           ctx' = [ctx EXCEPT ![p].attempted_at = now, ![p].outcome = o]
    /\ Goto(p, "record")
    /\ UNCHANGED <<env, rows, holder>>

\* Plausible bug: every process that has read a number reserves it.
KeyReserved(p) ==
    \E q \in Procs \ {p} :
        /\ pc[q] \in {"send", "record", "update", "commit_job", "commit_manual"}
        /\ Current(q) = Current(p) /\ ctx[q].number = ctx[p].number

\* The unique constraint (event_id, attempt_number): an INSERT waits while
\* another transaction has inserted the same key, and fails on a committed one.
KeyPending(p) ==
    \E q \in Procs \ {p} : /\ HasInserted(q) /\ Current(q) = Current(p)
                           /\ ctx[q].number = ctx[p].number

KeyTaken(p) == \E a \in attempts[Current(p)] : a.number = ctx[p].number

\* Plausible bug: no unique constraint on (event_id, attempt_number).
RecordUnchecked(p) ==
    /\ pc[p] = "record"
    /\ ctx' = [ctx EXCEPT ![p].decision_at = now]
    /\ Goto(p, IF p \in Workers THEN "update" ELSE "commit_manual")
    /\ UNCHANGED <<env, rows, holder>>

\* The INSERT of the attempt; a worker then takes decision_now.
RecordAttempt(p) ==
    /\ pc[p] = "record"
    /\ ~KeyPending(p) /\ ~KeyTaken(p)
    /\ ctx' = [ctx EXCEPT ![p].decision_at = now]
    /\ Goto(p, IF p \in Workers THEN "update" ELSE "commit_manual")
    /\ UNCHANGED <<env, rows, holder>>

\* IntegrityError.
RecordDuplicate(p) ==
    /\ pc[p] = "record"
    /\ KeyTaken(p)
    /\ Rollback(p)

\* The flushed UPDATE of the job waits for the row lock.
UpdateJob(w) ==
    /\ pc[w] = "update"
    /\ holder[Current(w)] = None
    /\ holder' = Locked(w, {Current(w)})
    /\ Goto(w, "commit_job")
    /\ UNCHANGED <<env, rows, ctx>>

\* The completion transaction commits attempt and transition together.
CommitJob(w) ==
    LET e == Current(w)
        batch == Tail(ctx[w].batch)
    IN  /\ pc[w] = "commit_job"
        /\ attempts' = [attempts EXCEPT ![e] = @ \cup {AttemptOf(w)}]
        /\ jobs' = [jobs EXCEPT ![e] = CompletedRow(@, ctx[w])]
        /\ holder' = Released(w)
        /\ Goto(w, AfterJob(batch))
        /\ ctx' = [ctx EXCEPT ![w] = Remaining(ctx[w], batch)]
        /\ UNCHANGED <<env, cycle_start>>

-----------------------------------------------------------------------------
(* The API requests.                                                        *)

\* POST /webhook-events/{id}/delivery-attempts: session.get of the event.
RequestDelivery(d) ==
    /\ pc[d] = "idle"
    /\ \E e \in Events :
           /\ Exists(e)
           /\ ctx' = [ctx EXCEPT ![d].batch = <<e>>]
    /\ Goto(d, "prepare")
    /\ UNCHANGED <<env, rows, holder>>

CommitDelivery(d) ==
    /\ pc[d] = "commit_manual"
    /\ attempts' = [attempts EXCEPT ![Current(d)] = @ \cup {AttemptOf(d)}]
    /\ Goto(d, "done")
    /\ ctx' = [ctx EXCEPT ![d] = NoContext]
    /\ UNCHANGED <<env, jobs, cycle_start, holder>>

\* POST /webhook-events/{id}/replay: replayed_at is taken, then the endpoint is
\* checked (409 when inactive).
RequestReplay(r) ==
    /\ pc[r] = "idle"
    /\ \E e \in Events :
           /\ Exists(e) /\ active[EndpointOf[e]]
           /\ ctx' = [ctx EXCEPT ![r].at = now, ![r].batch = <<e>>]
    /\ Goto(r, "lock")
    /\ UNCHANGED <<env, rows, holder>>

\* Plausible bug: a replay of a job that is still in its cycle.
LockReplayAnyStatus(r) ==
    /\ pc[r] = "lock"
    /\ holder[Current(r)] = None
    /\ holder' = Locked(r, {Current(r)})
    /\ Goto(r, "commit_replay")
    /\ UNCHANGED <<env, rows, ctx>>

\* SELECT ... FOR UPDATE waits for the row lock, then reads the latest row.
LockReplay(r) ==
    /\ pc[r] = "lock"
    /\ holder[Current(r)] = None
    /\ jobs[Current(r)].status \in Terminal
    /\ holder' = Locked(r, {Current(r)})
    /\ Goto(r, "commit_replay")
    /\ UNCHANGED <<env, rows, ctx>>

\* WebhookReplayDeliveryJobNotReplayableError.
RefuseReplay(r) ==
    /\ pc[r] = "lock"
    /\ holder[Current(r)] = None
    /\ jobs[Current(r)].status \notin Terminal
    /\ Rollback(r)

CommitReplay(r) ==
    LET e == Current(r)
    IN  /\ pc[r] = "commit_replay"
        /\ jobs' = [jobs EXCEPT ![e] = ReplayedRow(@, ctx[r].at)]
        /\ cycle_start' = [cycle_start EXCEPT ![e] = NextNumber(e) - 1]
        /\ holder' = Released(r)
        /\ Goto(r, "done")
        /\ ctx' = [ctx EXCEPT ![r] = NoContext]
        /\ UNCHANGED <<env, attempts>>

-----------------------------------------------------------------------------
(* The environment.                                                         *)

\* An operator flips is_active in the database; no code of the service does.
SetActive(x) ==
    /\ active' = [active EXCEPT ![x] = ~@]
    /\ UNCHANGED <<now, rows, holder, pc, ctx>>

\* Under Timely a running iteration ends before the rows it stamped with its
\* iteration_at reach the stale timeout.
Tick ==
    /\ now < MaxTime
    /\ Timely => \A w \in Workers :
                    \/ pc[w] \in {"down", "idle"}
                    \/ now + 1 < ctx[w].at + StaleTimeout
    /\ now' = now + 1
    /\ UNCHANGED <<active, rows, holder, pc, ctx>>

\* The statements a worker executes from BeginIteration to the end of the
\* iteration, and those of the requests.
Iterate(w) ==
    \/ Recover(w) \/ CommitRecovery(w) \/ Claim(w) \/ CommitClaim(w)
    \/ LoadJob(w) \/ LoadLostJob(w) \/ UpdateJob(w) \/ CommitJob(w)

Deliver(p) ==
    Prepare(p) \/ PrepareInactive(p) \/ Send(p) \/ RecordAttempt(p)
        \/ RecordDuplicate(p)

Replay(r) == LockReplay(r) \/ RefuseReplay(r) \/ CommitReplay(r)

Next ==
    \/ Tick
    \/ \E x \in Volatile : SetActive(x)
    \/ \E e \in Events : CreateEvent(e)
    \/ \E w \in Workers : Start(w) \/ Stop(w) \/ BeginIteration(w) \/ Iterate(w)
    \/ \E p \in Workers \cup Deliveries : Deliver(p)
    \/ \E d \in Deliveries : RequestDelivery(d) \/ CommitDelivery(d)
    \/ \E r \in Replays : RequestReplay(r) \/ Replay(r)
    \/ \E p \in Procs : Crash(p)

Spec == Init /\ [][Next]_vars

\* A running transaction goes on to its next statement.  Lock waits are served
\* in order by PostgreSQL, so a row that is free again and again is obtained:
\* strong fairness for the two statements that wait for a row lock.  Neither a
\* start, a stop, an iteration, a request nor a crash has to happen.
Fairness ==
    /\ \A w \in Workers :
           /\ WF_vars(Iterate(w)) /\ WF_vars(Deliver(w))
           /\ SF_vars(UpdateJob(w))
    /\ \A d \in Deliveries : WF_vars(Deliver(d)) /\ WF_vars(CommitDelivery(d))
    /\ \A r \in Replays : WF_vars(Replay(r)) /\ SF_vars(LockReplay(r) \/ RefuseReplay(r))

FairSpec == Spec /\ Fairness

-----------------------------------------------------------------------------
(* Properties that hold however long an iteration takes.                    *)

\* Every variable has its type.
TypeOK ==
    /\ now \in Instants
    /\ active \in [Endpoints -> BOOLEAN]
    /\ jobs \in [Events -> JobRow \cup {None}]
    /\ attempts \in [Events -> SUBSET AttemptRow]
    /\ cycle_start \in [Events -> Nat]
    /\ holder \in [Events -> Procs \cup {None}]
    /\ pc \in [Procs -> PCs]
    /\ ctx \in [Procs -> Context]

\* The attempts of an event are numbered 1, 2, 3, ... with no gap and no
\* duplicate, over all its cycles, although workers and manual requests read
\* max(attempt_number) without a lock (delivery_service.py:72-77).
GaplessNumbering ==
    \A e \in Events :
        /\ \A a, b \in attempts[e] : a.number = b.number => a = b
        /\ \A a \in attempts[e] : \A n \in 1..a.number :
               \E b \in attempts[e] : b.number = n

\* The numbers are chronological: a later number was never sent earlier, even
\* when its transaction overlapped that of an earlier one.
Chronology ==
    \A e \in Events : \A a, b \in attempts[e] :
        a.number < b.number => a.attempted_at <= b.attempted_at

WorkerAttempts(e, outcome) ==
    {a \in attempts[e] : a.by = "worker" /\ a.outcome = outcome}

\* A row that awaits a worker has budget left, also when completions of two
\* workers and a replay have overwritten each other: no worker can take it
\* past max_attempts (delivery_job_execution_service.py:60-84).
BudgetLeft ==
    \A e \in Events :
        Exists(e) => \/ jobs[e].status \in Terminal
                     \/ jobs[e].attempt_count < MaxAttempts

\* What the job row claims is backed by attempt rows: every counted attempt is
\* a recorded failure of a worker, except the last of a succeeded job, which
\* is a recorded worker success; a dead letter has used its whole budget.
RowBackedByAttempts ==
    \A e \in Events : Exists(e) =>
        LET failed == Cardinality(WorkerAttempts(e, "failed"))
        IN  /\ jobs[e].status # "succeeded" => failed >= jobs[e].attempt_count
            /\ jobs[e].status = "succeeded" =>
                   /\ WorkerAttempts(e, "succeeded") # {}
                   /\ failed + 1 >= jobs[e].attempt_count
            /\ jobs[e].status = "dead_letter" =>
                   jobs[e].attempt_count = MaxAttempts

\* The CHECK constraint of the job table (models.py:93-98) is never what aborts
\* a transaction: a row has an instant it is due at exactly while it awaits a
\* worker, also when stale completions and replays have overwritten it.
DueWhileAwaiting ==
    \A e \in Events :
        Exists(e) => (jobs[e].status \in Terminal <=> jobs[e].next_attempt_at = None)

-----------------------------------------------------------------------------
(* Properties of timely iterations.                                         *)

\* A row that a live worker has claimed and not completed yet is processing,
\* with that worker's timestamp, and no other worker has it in its batch.
ExclusiveClaims ==
    \A v \in Workers : pc[v] \notin {"down", "idle", "commit_claim"} =>
        \A i \in DOMAIN ctx[v].batch :
            LET e == ctx[v].batch[i]
            IN  /\ jobs[e].status = "processing"
                /\ jobs[e].updated_at = ctx[v].at
                /\ \A w \in Workers \ {v} : e \notin Range(ctx[w].batch)

CycleAttempts(e) ==
    {a \in attempts[e] : a.by = "worker" /\ a.number > cycle_start[e]}

\* attempt_count is the number of completed worker attempts of the current
\* automatic cycle: crashes, recoveries and manual deliveries do not count,
\* and a replay starts again from zero.
AttemptCountExact ==
    \A e \in Events :
        Exists(e) => jobs[e].attempt_count = Cardinality(CycleAttempts(e))

\* One automatic cycle records at most one success, and nothing after it.
OneSuccessPerCycle ==
    \A e \in Events : \A a, b \in CycleAttempts(e) :
        a.outcome = "succeeded" /\ a # b =>
            b.outcome = "failed" /\ b.number < a.number

\* A finished job is only taken up again by a replay, which leaves a fresh
\* budget behind it.
TerminalLeftByReplayOnly ==
    [][\A e \in Events :
           /\ Exists(e) /\ jobs[e].status \in Terminal
           /\ jobs'[e].status # jobs[e].status
           => \E r \in Replays :
                  pc[r] = "commit_replay" /\ pc'[r] = "done"]_vars

\* The core implements the documented life of a job: no lost update, no way
\* out of a finished cycle but replay, no attempt beyond the budget.
Lifecycle == INSTANCE JobLifecycle WITH
    Jobs <- Events,
    status <- [e \in Events |-> IF Exists(e) THEN jobs[e].status ELSE "absent"],
    spent <- [e \in Events |-> Cardinality(CycleAttempts(e))]

ImplementsLifecycle == Lifecycle!Spec

-----------------------------------------------------------------------------
(* Liveness, under FairSpec.                                                *)

\* An iteration, once begun, ends: it drains its batch or the worker dies.  No
\* wait for a row lock or for a unique key lasts forever.
IterationsEnd ==
    \A w \in Workers : pc[w] \notin {"down", "idle"} ~> pc[w] \in {"down", "idle"}

\* A request that has started is answered, whatever locks it meets.
RequestsEnd ==
    \A p \in Requests : pc[p] \notin {"idle", "done"} ~> pc[p] = "done"

=============================================================================
