------------------------- MODULE WebhookCycleProofs -------------------------
(***************************************************************************)
(* What timely iterations give a job: its row counts exactly the attempts  *)
(* of the running cycle, a cycle ends with its first success, and the core *)
(* implements the life of a job that JobLifecycle states.  The argument: a *)
(* claimed row is written by its claimant alone, so what the claimant read *)
(* when it loaded the row is still true when it completes the job.         *)
(***************************************************************************)
EXTENDS WebhookClaimProofs

\* What a worker has read is still true: the count it goes by, and that its
\* number belongs to the running cycle.
CountOK(w) ==
    /\ pc[w] \in Attempting => ctx[w].count = jobs[Current(w)].attempt_count + 1
    /\ pc[w] \in Attempting \cap Numbered => cycle_start[Current(w)] < ctx[w].number

\* A success is the last attempt of its cycle, and ends it.
EndsCycle(e, a) ==
    /\ Exists(e) /\ jobs[e].status = "succeeded"
    /\ \A b \in CycleAttempts(e) \ {a} : b.outcome = "failed" /\ b.number < a.number

CycleOK(e) ==
    /\ IsFiniteSet(CycleAttempts(e))
    /\ Exists(e) => jobs[e].attempt_count = Cardinality(CycleAttempts(e))
    /\ ~Exists(e) => attempts[e] = {}
    /\ cycle_start[e] = 0 \/ \E a \in attempts[e] : a.number = cycle_start[e]
    /\ \A a \in CycleAttempts(e) : a.outcome = "succeeded" => EndsCycle(e, a)

CycleInv == (\A e \in Events : CycleOK(e)) /\ (\A w \in Workers : CountOK(w))

\* The invariants it rests on.
BaseInv == TypeInv /\ LockInv /\ NumberingInv /\ BudgetLeft /\ ClaimInv

LEMMA BaseHolds == ASSUME Timely PROVE Spec => []BaseInv
<1>1. Init => BudgetLeft
    BY DEF Init, BudgetLeft, Exists
<1> QED
    BY <1>1, Timely, TypeInvInit, TypeInvStep, LockInit, LockStep, NumberingInit, NumberingStep,
       BudgetStep, ClaimInit, ClaimStep, PTL DEF Spec, BaseInv

LEMMA CycleInit == Init => CycleInv
<1> SUFFICES ASSUME Init PROVE CycleInv
    OBVIOUS
<1>1. \A e \in Events : /\ attempts[e] = {} /\ CycleAttempts(e) = {} /\ cycle_start[e] = 0
                        /\ ~Exists(e)
    BY DEF Init, CycleAttempts, Exists
<1>2. \A w \in Workers : pc[w] = "down"
    BY DEF Init, Procs
<1> QED
    BY <1>1, <1>2, FS_EmptySet DEF CycleInv, CycleOK, CountOK, Attempting

\* The job a worker is executing is claimed by it, and processing.
LEMMA ExecutingJob ==
    ASSUME BaseInv, NEW w \in Workers, pc[w] \in {"load"} \cup Attempting
    PROVE  /\ Current(w) \in Claimed(w) /\ Current(w) \in Events
           /\ Exists(Current(w)) /\ jobs[Current(w)] \in JobRow
           /\ jobs[Current(w)].status = "processing"
<1>1. ctx[w].batch \in Seq(Events) /\ ctx[w].batch # <<>>
    BY ClaimTypes DEF BaseInv, TypeInv, LocalsOK, Working, Attempting
<1>2. Current(w) \in Claimed(w)
    BY <1>1 DEF Claimed, Range, Current
<1>3. Marked(w, Current(w)) /\ pc[w] # "commit_claim"
    BY <1>2 DEF BaseInv, ClaimInv, WorkerOK, Attempting
<1> QED
    BY <1>2, <1>3, ClaimTypes DEF BaseInv, Marked

-----------------------------------------------------------------------------
(* Frames.                                                                  *)

\* A row keeps its count and its attempts of the cycle.
LEMMA CycleKept ==
    ASSUME NEW e \in Events, CycleOK(e), CycleAttempts(e)' = CycleAttempts(e),
           cycle_start'[e] = cycle_start[e], attempts[e] \subseteq attempts'[e],
           Exists(e)' = Exists(e), ~Exists(e) => attempts'[e] = attempts[e],
           Exists(e) => jobs'[e].attempt_count = jobs[e].attempt_count,
           Exists(e) /\ jobs[e].status = "succeeded" => jobs'[e].status = "succeeded"
    PROVE  CycleOK(e)'
<1>1. ASSUME NEW a \in CycleAttempts(e), a.outcome = "succeeded" PROVE EndsCycle(e, a)'
    BY <1>1 DEF CycleOK, EndsCycle
<1> QED
    BY <1>1 DEF CycleOK

\* A process moves without writing the count of a job that another executes.
LEMMA CountFrame ==
    ASSUME BaseInv, CycleInv, NEW p \in Procs, Moves(p),
           \A v \in Workers \ {p} : pc[v] \in Attempting =>
               /\ jobs'[Current(v)].attempt_count = jobs[Current(v)].attempt_count
               /\ cycle_start'[Current(v)] = cycle_start[Current(v)],
           p \in Workers => CountOK(p)'
    PROVE  \A v \in Workers : CountOK(v)'
<1> SUFFICES ASSUME NEW v \in Workers \ {p} PROVE CountOK(v)'
    OBVIOUS
<1>1. pc'[v] = pc[v] /\ ctx'[v] = ctx[v] /\ Current(v)' = Current(v)
    BY DEF Moves, Current, Procs
<1> QED
    BY <1>1 DEF CycleInv, CountOK

\* A process moves and writes no row.
LEMMA CycleFrame ==
    ASSUME BaseInv, CycleInv, UNCHANGED rows, NEW p \in Procs, Moves(p),
           p \in Workers => CountOK(p)'
    PROVE  CycleInv'
<1>1. \A v \in Workers : CountOK(v)'
    BY CountFrame DEF rows
<1>2. \A e \in Events : CycleOK(e)'
    BY DEF rows, CycleInv, CycleOK, CycleAttempts, WorkerAttempts, EndsCycle, Exists
<1> QED
    BY <1>1, <1>2 DEF CycleInv

-----------------------------------------------------------------------------
(* The steps that write rows.                                               *)

\* What the transactions of recovery and claim write.
LEMMA MovedRows ==
    ASSUME BaseInv, NEW w \in Workers, CommitRecovery(w) \/ CommitClaim(w)
    PROVE  /\ Moves(w) /\ UNCHANGED <<attempts, cycle_start>>
           /\ pc'[w] \notin Attempting
           /\ \A e \in Events : Exists(e)' = Exists(e)
           /\ \A e \in Events : holder[e] # w => jobs'[e] = jobs[e]
           /\ \A e \in Events : holder[e] = w =>
                  /\ Exists(e) /\ jobs'[e].attempt_count = jobs[e].attempt_count
                  /\ CommitRecovery(w) =>
                         jobs[e].status = "processing" /\ jobs'[e].status = "pending"
                  /\ CommitClaim(w) =>
                         jobs[e].status = "pending" /\ jobs'[e].status = "processing"
<1>0. w \in Procs /\ pc \in [Procs -> PCs] /\ TypeInv
    BY DEF Procs, BaseInv, TypeInv, TypeOK
<1>1. /\ Moves(w) /\ UNCHANGED <<attempts, cycle_start>>
      /\ pc'[w] \notin Attempting
    BY <1>0, OutsideAttempt
    DEF CommitRecovery, CommitClaim, Goto, AfterJob, Attempting
<1>2. \A e \in Events : holder[e] # w => jobs'[e] = jobs[e]
    BY DEF CommitRecovery, CommitClaim
<1>3. ASSUME NEW e \in Events, holder[e] = w
      PROVE  /\ Exists(e) /\ Exists(e)' /\ jobs'[e].attempt_count = jobs[e].attempt_count
             /\ CommitRecovery(w) =>
                    jobs[e].status = "processing" /\ jobs'[e].status = "pending"
             /\ CommitClaim(w) =>
                    jobs[e].status = "pending" /\ jobs'[e].status = "processing"
    <2>1. Exists(e) /\ jobs[e] \in JobRow /\ AsLocked(e, w)
        BY <1>0, <1>3, ProcsAssumption
        DEF TypeInv, TypeOK, LockedExist, Exists, BaseInv, LockInv
    <2>2. /\ RecoveredRow(jobs[e], ctx[w].at).attempt_count = jobs[e].attempt_count
          /\ RecoveredRow(jobs[e], ctx[w].at).status = "pending"
          /\ ClaimedRow(jobs[e], ctx[w].at).attempt_count = jobs[e].attempt_count
          /\ ClaimedRow(jobs[e], ctx[w].at).status = "processing"
        BY <2>1 DEF RecoveredRow, ClaimedRow, JobRow
    <2>3. /\ CommitRecovery(w) => jobs'[e] = RecoveredRow(jobs[e], ctx[w].at)
          /\ CommitClaim(w) => jobs'[e] = ClaimedRow(jobs[e], ctx[w].at)
        BY <1>3 DEF CommitRecovery, CommitClaim
    <2>4. /\ CommitRecovery(w) => jobs[e].status = "processing"
          /\ CommitClaim(w) => jobs[e].status = "pending"
        BY <2>1 DEF AsLocked, CommitRecovery, CommitClaim
    <2>5. jobs'[e] # None
        <3>1. ctx[w].at \in Instants
            BY <1>0 DEF TypeInv, TypeOK, Context
        <3> QED
            BY <2>1, <2>3, <3>1, StampedRows, RowsAssumption
    <2> QED
        BY <2>1, <2>2, <2>3, <2>4, <2>5 DEF Exists
<1>4. \A e \in Events : Exists(e)' = Exists(e)
    BY <1>2, <1>3 DEF Exists
<1> QED
    BY <1>1, <1>2, <1>3, <1>4

\* What a completion writes: the loaded count is still that of the row.
LEMMA CompletedJob ==
    ASSUME BaseInv, CycleInv, NEW w \in Workers, CommitJob(w),
           NEW e, e = Current(w), NEW new, new = AttemptOf(w)
    PROVE  /\ Moves(w) /\ cycle_start' = cycle_start /\ pc'[w] \notin Attempting
           /\ e \in Events /\ e \in Claimed(w) /\ Exists(e) /\ jobs[e] \in JobRow
           /\ jobs[e].status = "processing" /\ ctx[w] \in Context
           /\ ctx[w].count = jobs[e].attempt_count + 1
           /\ jobs'[e] = CompletedRow(jobs[e], ctx[w])
           /\ \A d \in Events \ {e} : jobs'[d] = jobs[d] /\ attempts'[d] = attempts[d]
           /\ attempts'[e] = attempts[e] \cup {new}
           /\ CycleAttempts(e)' = CycleAttempts(e) \cup {new}
           /\ \A b \in CycleAttempts(e) : b.number < new.number
           /\ new.outcome = ctx[w].outcome
<1>0. /\ w \in Procs /\ pc \in [Procs -> PCs] /\ ctx \in [Procs -> Context] /\ TypeInv
      /\ pc[w] = "commit_job"
    BY DEF Procs, BaseInv, TypeInv, TypeOK, CommitJob
<1>1. Moves(w) /\ cycle_start' = cycle_start /\ pc'[w] \notin Attempting
    BY <1>0 DEF CommitJob, Goto, AfterJob, Attempting, Moves
<1>2. /\ e \in Events /\ e \in Claimed(w) /\ Exists(e) /\ jobs[e] \in JobRow
      /\ jobs[e].status = "processing"
    BY <1>0, ExecutingJob DEF Attempting
<1>3. /\ jobs'[e] = CompletedRow(jobs[e], ctx[w])
      /\ \A d \in Events \ {e} : jobs'[d] = jobs[d] /\ attempts'[d] = attempts[d]
      /\ attempts'[e] = attempts[e] \cup {new}
    BY <1>0, <1>2 DEF CommitJob, TypeInv, TypeOK
<1>4. ctx[w].count = jobs[e].attempt_count + 1 /\ cycle_start[e] < ctx[w].number
    BY <1>0 DEF CycleInv, CountOK, Attempting, Numbered
<1>5. new.number = ctx[w].number /\ new.by = "worker" /\ new.outcome = ctx[w].outcome
    BY DEF AttemptOf
<1>6. CycleAttempts(e)' = CycleAttempts(e) \cup {new}
    BY <1>1, <1>3, <1>4, <1>5 DEF CycleAttempts
<1>7. ASSUME NEW b \in attempts[e] PROVE b.number < new.number
    <2>1. b.number \in Nat \ {0} /\ new.number \in Nat \ {0}
        BY <1>0, <1>2, <1>5 DEF TypeInv, TypeOK, AttemptRow, LocalsOK, Numbered, Context
    <2>2. \A a \in attempts[e] : a.number # new.number
        BY <1>0, <1>5 DEF BaseInv, NumberingInv, HasInserted, KeyTaken
    <2>3. \A n \in 1..b.number : \E a \in attempts[e] : a.number = n
        BY <1>2 DEF BaseInv, NumberingInv, GaplessNumbering
    <2> QED
        BY <2>1, <2>2, <2>3
<1>8. \A b \in CycleAttempts(e) : b.number < new.number
    BY <1>7 DEF CycleAttempts
<1> QED
    BY <1>0, <1>1, <1>2, <1>3, <1>4, <1>5, <1>6, <1>8

\* What a replay writes: a new cycle without attempts.
LEMMA ReplayedJob ==
    ASSUME BaseInv, CycleInv, NEW r \in Replays, CommitReplay(r), NEW e, e = Current(r)
    PROVE  /\ Moves(r) /\ attempts' = attempts
           /\ e \in Events /\ Exists(e) /\ Exists(e)' /\ jobs[e].status \in Terminal
           /\ holder[e] = r
           /\ jobs'[e].status = "pending" /\ jobs'[e].attempt_count = 0
           /\ \A d \in Events \ {e} : jobs'[d] = jobs[d] /\ cycle_start'[d] = cycle_start[d]
           /\ CycleAttempts(e)' = {}
           /\ cycle_start'[e] = 0 \/ \E a \in attempts[e] : a.number = cycle_start'[e]
<1>0. /\ r \in Procs /\ pc \in [Procs -> PCs] /\ ctx \in [Procs -> Context] /\ TypeInv
      /\ pc[r] = "commit_replay"
    BY DEF Procs, Requests, BaseInv, TypeInv, TypeOK, CommitReplay
<1>1. Moves(r) /\ attempts' = attempts
    BY <1>0, OutsideAttempt
<1>2. /\ e \in Events /\ jobs[e] \in JobRow /\ Exists(e)
      /\ holder[e] = r /\ jobs[e].status \in Terminal
    BY <1>0, CurrentRow, RowsAssumption DEF Working, Exists, BaseInv, LockInv, AsLocked
<1>3. /\ jobs'[e] = ReplayedRow(jobs[e], ctx[r].at)
      /\ cycle_start'[e] = NextNumber(e) - 1
      /\ \A d \in Events \ {e} : jobs'[d] = jobs[d] /\ cycle_start'[d] = cycle_start[d]
    BY <1>0, <1>2 DEF CommitReplay, TypeInv, TypeOK
<1>4. /\ jobs'[e].status = "pending" /\ jobs'[e].attempt_count = 0
    BY <1>2, <1>3 DEF ReplayedRow, JobRow
<1>5. Exists(e)'
    BY <1>0, <1>2, <1>3, StampedRows, RowsAssumption DEF Exists, Context
<1>6. /\ NextNumber(e) \in Nat \ {0}
      /\ \A a \in attempts[e] : a.number < NextNumber(e) /\ a.number \in Nat
      /\ NextNumber(e) = 1 \/ \E a \in attempts[e] : NextNumber(e) = a.number + 1
    BY <1>0, <1>2, NextNumberIsFresh DEF TypeInv, TypeOK, AttemptRow
<1>7. CycleAttempts(e)' = {}
    BY <1>1, <1>3, <1>6 DEF CycleAttempts
<1>8. cycle_start'[e] = 0 \/ \E a \in attempts[e] : a.number = cycle_start'[e]
    BY <1>3, <1>6
<1> QED
    BY <1>1, <1>2, <1>3, <1>4, <1>5, <1>7, <1>8

\* A new job has no attempt.
LEMMA CreatedJob ==
    ASSUME BaseInv, CycleInv, NEW e \in Events, CreateEvent(e)
    PROVE  /\ UNCHANGED <<attempts, cycle_start, pc, ctx>>
           /\ ~Exists(e) /\ Exists(e)' /\ jobs'[e].status = "pending"
           /\ jobs'[e].attempt_count = 0 /\ CycleAttempts(e) = {}
           /\ \A d \in Events \ {e} : jobs'[d] = jobs[d]
<1>1. attempts[e] = {} /\ ~Exists(e)
    BY DEF CreateEvent, Exists, CycleInv, CycleOK
<1>2. now \in Instants /\ jobs \in [Events -> JobRow \cup {None}]
    BY DEF BaseInv, TypeInv, TypeOK
<1>3. /\ jobs'[e] = [status |-> "pending", next_attempt_at |-> now, updated_at |-> now,
                     created_at |-> now, attempt_count |-> 0]
      /\ \A d \in Events \ {e} : jobs'[d] = jobs[d]
    BY <1>2 DEF CreateEvent
<1>4. jobs'[e] \in JobRow
    BY <1>2, <1>3, SettingsAssumption DEF JobRow, Statuses, Instants
<1> QED
    BY <1>1, <1>3, <1>4, RowsAssumption DEF CreateEvent, CycleAttempts, Exists

\* A manual delivery adds an attempt that no cycle counts.
LEMMA DeliveredManually ==
    ASSUME BaseInv, NEW d \in Deliveries, CommitDelivery(d), NEW e \in Events
    PROVE  /\ Moves(d) /\ UNCHANGED <<jobs, cycle_start>>
           /\ attempts[e] \subseteq attempts'[e]
           /\ ~Exists(e) => attempts'[e] = attempts[e]
           /\ CycleAttempts(e)' = CycleAttempts(e)
<1>0. /\ d \in Procs /\ d \notin Workers /\ TypeInv /\ pc[d] = "commit_manual"
      /\ pc \in [Procs -> PCs] /\ ctx \in [Procs -> Context]
    BY ProcsAssumption DEF Procs, Requests, BaseInv, TypeInv, TypeOK, CommitDelivery
<1>1. Moves(d) /\ UNCHANGED <<jobs, cycle_start>>
    BY <1>0 DEF CommitDelivery, Goto, Moves
<1>2. Current(d) \in Events /\ Exists(Current(d))
    BY <1>0, CurrentRow, RowsAssumption DEF Working, Exists
<1>3. attempts'[e] = IF e = Current(d) THEN attempts[e] \cup {AttemptOf(d)} ELSE attempts[e]
    BY <1>0, <1>2 DEF CommitDelivery, TypeInv, TypeOK
<1>4. AttemptOf(d).by # "worker"
    BY <1>0 DEF AttemptOf
<1> QED
    BY <1>1, <1>2, <1>3, <1>4 DEF CycleAttempts

-----------------------------------------------------------------------------
(* The invariant.                                                           *)

LEMMA CycleComplete ==
    ASSUME BaseInv, CycleInv, NEW w \in Workers, CommitJob(w)
    PROVE  CycleInv'
<1>0. PICK e, new, n : e = Current(w) /\ new = AttemptOf(w) /\ n = ctx[w].count
    OBVIOUS
<1> DEFINE old == CycleAttempts(e)
<1>1. /\ Moves(w) /\ cycle_start' = cycle_start /\ pc'[w] \notin Attempting
      /\ e \in Events /\ e \in Claimed(w) /\ Exists(e) /\ jobs[e] \in JobRow
      /\ jobs[e].status = "processing" /\ ctx[w] \in Context
      /\ n = jobs[e].attempt_count + 1
      /\ jobs'[e] = CompletedRow(jobs[e], ctx[w])
      /\ \A d \in Events \ {e} : jobs'[d] = jobs[d] /\ attempts'[d] = attempts[d]
      /\ attempts'[e] = attempts[e] \cup {new}
      /\ CycleAttempts(e)' = old \cup {new}
      /\ \A b \in old : b.number < new.number
      /\ new.outcome = ctx[w].outcome
    BY <1>0, CompletedJob
<1>2. /\ IsFiniteSet(old) /\ jobs[e].attempt_count = Cardinality(old)
      /\ cycle_start[e] = 0 \/ \E a \in attempts[e] : a.number = cycle_start[e]
      /\ \A a \in old : a.outcome = "failed"
    <2>1. CycleOK(e)
        BY <1>1 DEF CycleInv
    <2>2. \A a \in old : a.outcome \in Outcomes
        BY <1>1 DEF BaseInv, TypeInv, TypeOK, AttemptRow, CycleAttempts
    <2> QED
        BY <1>1, <2>1, <2>2 DEF CycleOK, EndsCycle, Outcomes
<1>3. new \notin old
    <2>1. new.number \in Nat
        BY <1>0, <1>1 DEF AttemptOf, Context
    <2> QED
        BY <1>1, <2>1
<1>4. /\ IsFiniteSet(old \cup {new}) /\ Cardinality(old \cup {new}) = Cardinality(old) + 1
    BY <1>2, <1>3, FS_AddElement
<1>5. /\ jobs'[e].attempt_count = n
      /\ new.outcome = "succeeded" => jobs'[e].status = "succeeded"
    BY <1>0, <1>1 DEF CompletedRow, Decision, JobRow
<1>6. Exists(e)'
    <2>1. n # 0
        BY <1>1 DEF JobRow
    <2> QED
        BY <1>0, <1>1, <2>1, CompletedRows, RowsAssumption DEF Exists
<1>7. ASSUME NEW v \in Workers \ {w}, pc[v] \in Attempting PROVE Current(v) # e
    BY <1>1, <1>7, ExecutingJob DEF BaseInv, ClaimInv
<1> HIDE DEF old
<1>8. CycleOK(e)'
    <2>1. ASSUME NEW a \in old \cup {new}, a.outcome = "succeeded" PROVE EndsCycle(e, a)'
        <3>1. a = new
            BY <1>2, <2>1
        <3>2. \A b \in (old \cup {new}) \ {a} : b.outcome = "failed" /\ b.number < a.number
            BY <1>1, <1>2, <3>1
        <3> QED
            BY <1>1, <1>5, <1>6, <2>1, <3>1, <3>2 DEF EndsCycle
    <2>2. Exists(e)' => jobs'[e].attempt_count = Cardinality(CycleAttempts(e)')
        BY <1>1, <1>2, <1>4, <1>5
    <2>3. cycle_start'[e] = 0 \/ \E a \in attempts'[e] : a.number = cycle_start'[e]
        BY <1>1, <1>2
    <2> QED
        BY <1>1, <1>4, <1>6, <2>1, <2>2, <2>3 DEF CycleOK
<1>9. ASSUME NEW d \in Events \ {e} PROVE CycleOK(d)'
    BY <1>1, CycleKept DEF CycleInv, CycleAttempts, Exists
<1>10. \A v \in Workers : CountOK(v)'
    <2>1. w \in Procs /\ CountOK(w)'
        BY <1>1 DEF CountOK, Procs
    <2>2. \A v \in Workers \ {w} : pc[v] \in Attempting =>
              Current(v) \in Events /\ jobs'[Current(v)] = jobs[Current(v)]
        BY <1>1, <1>7, ExecutingJob
    <2> QED
        BY <1>1, <2>1, <2>2, CountFrame
<1> QED
    BY <1>8, <1>9, <1>10 DEF CycleInv

LEMMA CycleReplay ==
    ASSUME BaseInv, CycleInv, NEW r \in Replays, CommitReplay(r)
    PROVE  CycleInv'
<1>0. PICK e : e = Current(r)
    OBVIOUS
<1>1. /\ Moves(r) /\ attempts' = attempts
      /\ e \in Events /\ Exists(e) /\ Exists(e)' /\ holder[e] = r
      /\ jobs'[e].status = "pending" /\ jobs'[e].attempt_count = 0
      /\ \A d \in Events \ {e} : jobs'[d] = jobs[d] /\ cycle_start'[d] = cycle_start[d]
      /\ CycleAttempts(e)' = {}
      /\ cycle_start'[e] = 0 \/ \E a \in attempts[e] : a.number = cycle_start'[e]
    BY <1>0, ReplayedJob
<1>2. r \in Procs /\ r \notin Workers
    BY ProcsAssumption DEF Procs, Requests
<1>3. ASSUME NEW v \in Workers, pc[v] \in Attempting
      PROVE  Current(v) \in Events \ {e}
    <2>1. pc[r] = "commit_replay"
        BY DEF CommitReplay
    <2> QED
        BY <1>1, <1>2, <1>3, <2>1, ExecutingJob, ClaimedRowIsFree DEF BaseInv
<1>4. CycleOK(e)'
    BY <1>1, FS_EmptySet DEF CycleOK
<1>5. ASSUME NEW d \in Events \ {e} PROVE CycleOK(d)'
    BY <1>1, CycleKept DEF CycleInv, CycleAttempts, Exists
<1>6. \A v \in Workers : CountOK(v)'
    BY <1>1, <1>2, <1>3, CountFrame
<1> QED
    BY <1>4, <1>5, <1>6 DEF CycleInv

LEMMA CycleWrites ==
    ASSUME BaseInv, CycleInv,
           \/ \E e \in Events : CreateEvent(e)
           \/ \E w \in Workers : CommitRecovery(w) \/ CommitClaim(w)
           \/ \E d \in Deliveries : CommitDelivery(d)
    PROVE  CycleInv'
<1>1. ASSUME NEW e \in Events, CreateEvent(e) PROVE CycleInv'
    <2>1. /\ UNCHANGED <<attempts, cycle_start, pc, ctx>>
          /\ ~Exists(e) /\ Exists(e)' /\ jobs'[e].status = "pending"
          /\ jobs'[e].attempt_count = 0 /\ CycleAttempts(e) = {}
          /\ \A d \in Events \ {e} : jobs'[d] = jobs[d]
        BY <1>1, CreatedJob
    <2>2. CycleOK(e)'
        BY <2>1, FS_EmptySet DEF CycleInv, CycleOK, CycleAttempts
    <2>3. ASSUME NEW d \in Events \ {e} PROVE CycleOK(d)'
        BY <2>1, CycleKept DEF CycleInv, CycleAttempts, Exists
    <2>4. ASSUME NEW v \in Workers PROVE CountOK(v)'
        <3>1. CountOK(v) /\ Current(v)' = Current(v)
            BY <2>1 DEF CycleInv, Current
        <3>2. pc[v] \in Attempting => Current(v) \in Events \ {e}
            BY <2>1, ExecutingJob
        <3> QED
            BY <2>1, <3>1, <3>2 DEF CountOK
    <2> QED
        BY <2>2, <2>3, <2>4 DEF CycleInv
<1>2. ASSUME NEW w \in Workers, CommitRecovery(w) \/ CommitClaim(w) PROVE CycleInv'
    <2>1. /\ Moves(w) /\ UNCHANGED <<attempts, cycle_start>>
          /\ pc'[w] \notin Attempting
          /\ \A e \in Events :
                /\ Exists(e)' = Exists(e)
                /\ Exists(e) => jobs'[e].attempt_count = jobs[e].attempt_count
                /\ jobs[e].status = "succeeded" => jobs'[e] = jobs[e]
        BY <1>2, MovedRows
    <2>2. \A e \in Events : CycleOK(e)'
        BY <2>1, CycleKept DEF CycleInv, CycleAttempts
    <2>3. \A v \in Workers : CountOK(v)'
        <3>1. w \in Procs /\ CountOK(w)'
            BY <2>1 DEF CountOK, Procs
        <3> QED
            BY <2>1, <3>1, ExecutingJob, CountFrame
    <2> QED
        BY <2>2, <2>3 DEF CycleInv
<1>3. ASSUME NEW d \in Deliveries, CommitDelivery(d) PROVE CycleInv'
    <2>1. /\ \A e \in Events : /\ Moves(d) /\ UNCHANGED <<jobs, cycle_start>>
                               /\ attempts[e] \subseteq attempts'[e]
                               /\ ~Exists(e) => attempts'[e] = attempts[e]
                               /\ CycleAttempts(e)' = CycleAttempts(e)
        BY <1>3, DeliveredManually
    <2>2. \A e \in Events : CycleOK(e)'
        BY <2>1, CycleKept DEF CycleInv, Exists
    <2>3. d \in Procs /\ d \notin Workers /\ Current(d) \in Events
        BY <1>3, ProcsAssumption, CurrentRow
        DEF Procs, Requests, CommitDelivery, BaseInv, Working
    <2>4. \A v \in Workers : CountOK(v)'
        BY <2>1, <2>3, CountFrame
    <2> QED
        BY <2>2, <2>4 DEF CycleInv
<1> QED
    BY <1>1, <1>2, <1>3

\* The steps that write no job row, no attempt and no cycle.
LEMMA CycleUntouched ==
    ASSUME BaseInv, CycleInv, NEW p \in Procs,
           \/ p \in Workers /\ (Start(p) \/ Stop(p) \/ BeginIteration(p))
           \/ p \in Workers /\ (Recover(p) \/ Claim(p))
           \/ LoadJob(p) \/ Rollback(p) \/ Prepare(p) \/ Send(p)
           \/ RecordAttempt(p) \/ UpdateJob(p)
           \/ p \in Deliveries /\ RequestDelivery(p)
           \/ RequestReplay(p) \/ LockReplay(p)
    PROVE  UNCHANGED rows /\ CycleInv'
<1>0. pc \in [Procs -> PCs] /\ ctx \in [Procs -> Context] /\ TypeInv
    BY DEF BaseInv, TypeInv, TypeOK
<1>1. UNCHANGED rows
    BY DEF Start, Stop, BeginIteration, Recover, Claim, LoadJob, Rollback, Prepare, Send,
           RecordAttempt, UpdateJob, RequestDelivery, RequestReplay, LockReplay
<1>2. CASE \/ p \in Workers /\ (Start(p) \/ Stop(p) \/ BeginIteration(p))
           \/ p \in Workers /\ (Recover(p) \/ Claim(p))
           \/ p \in Deliveries /\ RequestDelivery(p)
           \/ Rollback(p) \/ RequestReplay(p) \/ LockReplay(p)
    <2>1. Moves(p)
        BY <1>0, <1>2, OutsideAttempt
    <2>2. p \in Workers => pc'[p] \notin Attempting
        BY <1>0, <1>2, ProcsAssumption
        DEF Start, Stop, BeginIteration, Recover, Claim, Rollback, RequestReplay, LockReplay,
            Goto, Attempting, Requests
    <2> QED
        BY <1>1, <2>1, <2>2, CycleFrame DEF CountOK
<1>3. CASE LoadJob(p)
    <2>1. Moves(p)
        BY <1>0, <1>3, OutsideAttempt
    <2>2. /\ pc'[p] = "prepare" /\ Current(p)' = Current(p) /\ jobs' = jobs
          /\ ctx'[p].count = jobs[Current(p)].attempt_count + 1
        BY <1>0, <1>3 DEF LoadJob, Goto, Current, rows, Context
    <2>3. CountOK(p)'
        BY <2>2 DEF CountOK, Numbered
    <2> QED
        BY <1>1, <2>1, <2>3, CycleFrame
<1>4. CASE Prepare(p)
    <2>1. /\ Moves(p) /\ pc[p] = "prepare" /\ Current(p)' = Current(p)
          /\ ctx'[p].count = ctx[p].count /\ ctx'[p].number = NextNumber(Current(p))
        BY <1>0, <1>4 DEF Prepare, Goto, Current, Moves, Context
    <2>2. cycle_start[Current(p)] < NextNumber(Current(p))
        <3>1. Current(p) \in Events
            BY <1>0, <2>1, CurrentRow DEF Working
        <3>2. CycleOK(Current(p))
            BY <3>1 DEF CycleInv
        <3>3. NextNumber(Current(p)) \in Nat \ {0} /\
                  \A a \in attempts[Current(p)] : a.number < NextNumber(Current(p))
            BY <1>0, <3>1, NextNumberIsFresh DEF TypeInv
        <3> QED
            BY <3>2, <3>3 DEF CycleOK
    <2>3. p \in Workers => CountOK(p)'
        BY <1>1, <2>1, <2>2 DEF CycleInv, CountOK, Attempting, rows
    <2> QED
        BY <1>1, <2>1, <2>3, CycleFrame
<1>5. CASE Send(p) \/ RecordAttempt(p) \/ UpdateJob(p)
    <2>1. /\ Moves(p) /\ pc[p] \in Attempting \cap Numbered /\ Current(p)' = Current(p)
          /\ ctx'[p].count = ctx[p].count /\ ctx'[p].number = ctx[p].number
        <3>1. Moves(p) /\ pc[p] \in Attempting \cap Numbered
            BY <1>0, <1>5
            DEF Send, RecordAttempt, UpdateJob, Goto, Moves, Attempting, Numbered
        <3>2. CASE Send(p)
            BY <1>0, <3>1, <3>2 DEF Send, Current, Context
        <3>3. CASE RecordAttempt(p)
            BY <1>0, <3>1, <3>3 DEF RecordAttempt, Current, Context
        <3>4. CASE UpdateJob(p)
            BY <1>0, <3>1, <3>4 DEF UpdateJob, Current
        <3> QED
            BY <1>5, <3>1, <3>2, <3>3, <3>4
    <2>2. p \in Workers => CountOK(p)'
        BY <1>1, <2>1 DEF CycleInv, CountOK, rows
    <2> QED
        BY <1>1, <2>1, <2>2, CycleFrame
<1> QED
    BY <1>1, <1>2, <1>3, <1>4, <1>5

\* Every step writes no row, or is one of six transactions.
LEMMA StepKinds ==
    ASSUME BaseInv, CycleInv, [Next]_vars
    PROVE  \/ UNCHANGED rows /\ CycleInv'
           \/ \E e \in Events : CreateEvent(e)
           \/ \E w \in Workers : CommitRecovery(w) \/ CommitClaim(w) \/ CommitJob(w)
           \/ \E d \in Deliveries : CommitDelivery(d)
           \/ \E r \in Replays : CommitReplay(r)
<1>0. Workers \subseteq Procs /\ Deliveries \subseteq Procs /\ Replays \subseteq Procs
    BY DEF Procs, Requests
<1>1. CASE UNCHANGED <<rows, pc, ctx>>
    BY <1>1 DEF rows, CycleInv, CycleOK, CountOK, CycleAttempts, EndsCycle, Exists, Current
<1> QED
    BY <1>0, <1>1, CycleUntouched
    DEF Next, Iterate, Deliver, Replay, Crash, LoadLostJob, PrepareInactive,
        RecordDuplicate, RefuseReplay, Tick, SetActive, vars, rows

LEMMA CycleStep == BaseInv /\ CycleInv /\ [Next]_vars => CycleInv'
BY StepKinds, CycleComplete, CycleReplay, CycleWrites

LEMMA CyclesHold == ASSUME Timely PROVE Spec => [](BaseInv /\ CycleInv)
BY Timely, BaseHolds, CycleInit, CycleStep, PTL DEF Spec

-----------------------------------------------------------------------------
(* What it means for a job.                                                 *)

\* While iterations are timely, attempt_count is exactly the number of worker
\* attempts recorded in the running cycle (delivery_job_execution_service.py:
\* 60-84): no completion is lost or counted twice, whatever crashes, manual
\* deliveries and replays happen meanwhile.
THEOREM CountIsExact == ASSUME Timely PROVE Spec => []AttemptCountExact
<1>1. CycleInv => AttemptCountExact
    BY DEF CycleInv, CycleOK, AttemptCountExact
<1> QED
    BY <1>1, CyclesHold, PTL

\* While iterations are timely, nothing is sent automatically after a success:
\* a cycle records at most one, as its last attempt (retry_policy.py:96-104).
THEOREM SuccessEndsCycle == ASSUME Timely PROVE Spec => []OneSuccessPerCycle
<1>1. CycleInv => OneSuccessPerCycle
    <2> SUFFICES ASSUME CycleInv, NEW e \in Events,
                        NEW a \in CycleAttempts(e), NEW b \in CycleAttempts(e),
                        a.outcome = "succeeded", a # b
                 PROVE  b.outcome = "failed" /\ b.number < a.number
        BY DEF OneSuccessPerCycle
    <2> QED
        BY DEF CycleInv, CycleOK, EndsCycle
<1> QED
    BY <1>1, CyclesHold, PTL

\* While iterations are timely, no completion, recovery or claim takes a
\* finished job up again, only a replay (replay_service.py).
THEOREM OnlyReplayReopens == ASSUME Timely PROVE Spec => TerminalLeftByReplayOnly
<1> DEFINE Reopened == \A e \in Events :
               /\ Exists(e) /\ jobs[e].status \in Terminal
               /\ jobs'[e].status # jobs[e].status
               => \E r \in Replays : pc[r] = "commit_replay" /\ pc'[r] = "done"
<1>1. ASSUME BaseInv, CycleInv, [Next]_vars PROVE Reopened
    <2> SUFFICES ASSUME NEW e \in Events, Exists(e), jobs[e].status \in Terminal,
                        jobs'[e].status # jobs[e].status
                 PROVE  \E r \in Replays : pc[r] = "commit_replay" /\ pc'[r] = "done"
        OBVIOUS
    <2>1. ASSUME NEW d \in Events, CreateEvent(d) PROVE FALSE
        BY <1>1, <2>1, CreatedJob
    <2>2. ASSUME NEW w \in Workers, CommitRecovery(w) \/ CommitClaim(w) PROVE FALSE
        BY <1>1, <2>2, MovedRows DEF Terminal
    <2>3. ASSUME NEW w \in Workers, CommitJob(w) PROVE FALSE
        BY <1>1, <2>3, CompletedJob DEF Terminal
    <2>4. ASSUME NEW r \in Replays, CommitReplay(r)
          PROVE  pc[r] = "commit_replay" /\ pc'[r] = "done"
        <3>1. r \in Procs /\ pc \in [Procs -> PCs]
            BY <1>1 DEF Procs, Requests, BaseInv, TypeInv, TypeOK
        <3> QED
            BY <2>4, <3>1 DEF CommitReplay, Goto
    <2> QED
        BY <1>1, <2>1, <2>2, <2>3, <2>4, StepKinds DEF CommitDelivery, rows
<1>2. TerminalLeftByReplayOnly <=> [][Reopened]_vars
    BY DEF TerminalLeftByReplayOnly
<1> QED
    BY <1>1, <1>2, CyclesHold, PTL DEF Spec

-----------------------------------------------------------------------------
(* The refinement of JobLifecycle.                                          *)

\* What the mapping shows of a job.
StatusOf(e) == IF Exists(e) THEN jobs[e].status ELSE "absent"
Spent(e) == Cardinality(CycleAttempts(e))

\* A transaction that moves the status of a set of jobs and spends nothing.
LEMMA ShiftMaps ==
    ASSUME NEW S \in SUBSET Events, NEW from, NEW to,
           \A e \in S : StatusOf(e) = from /\ StatusOf(e)' = to,
           \A e \in Events \ S : StatusOf(e)' = StatusOf(e),
           \A e \in Events : Spent(e)' = Spent(e)
    PROVE  /\ Lifecycle!Shift(S, from, to)
           /\ UNCHANGED [e \in Events |-> Cardinality(CycleAttempts(e))]
BY DEF Lifecycle!Shift, StatusOf, Spent

LEMMA CompleteMaps ==
    ASSUME BaseInv, CycleInv, NEW w \in Workers, CommitJob(w)
    PROVE  \E j \in Events : Lifecycle!Succeed(j) \/ Lifecycle!Retry(j) \/ Lifecycle!GiveUp(j)
<1>0. PICK e, new : e = Current(w) /\ new = AttemptOf(w)
    OBVIOUS
<1> DEFINE old == CycleAttempts(e)
           row == CompletedRow(jobs[e], ctx[w])
<1>1. /\ cycle_start' = cycle_start
      /\ e \in Events /\ Exists(e) /\ jobs[e] \in JobRow
      /\ jobs[e].status = "processing" /\ ctx[w] \in Context
      /\ ctx[w].count = jobs[e].attempt_count + 1
      /\ jobs'[e] = row
      /\ \A d \in Events \ {e} : jobs'[d] = jobs[d] /\ attempts'[d] = attempts[d]
      /\ CycleAttempts(e)' = old \cup {new}
      /\ \A b \in old : b.number < new.number
    BY <1>0, CompletedJob
<1>2. IsFiniteSet(old) /\ Spent(e) = Cardinality(old) /\ Spent(e) = jobs[e].attempt_count
    BY <1>1 DEF CycleInv, CycleOK, Spent
<1>3. Spent(e)' = Spent(e) + 1
    <2>1. new \notin old
        BY <1>0, <1>1 DEF AttemptOf, Context
    <2> QED
        BY <1>1, <1>2, <2>1, FS_AddElement DEF Spent
<1>4. \A d \in Events \ {e} : StatusOf(d)' = StatusOf(d) /\ Spent(d)' = Spent(d)
    BY <1>1 DEF StatusOf, Spent, CycleAttempts, Exists
<1>5. StatusOf(e) = "processing" /\ StatusOf(e)' = row.status
    <2>1. row \in JobRow
        <3>1. ctx[w].count # 0
            BY <1>1 DEF JobRow
        <3> QED
            BY <1>1, <3>1, CompletedRows
    <2> QED
        BY <1>1, <2>1, RowsAssumption DEF StatusOf, Exists
<1>6. Spent(e) + 1 <= MaxAttempts
    BY <1>1, <1>2, SettingsAssumption DEF BaseInv, BudgetLeft, Terminal, JobRow
<1>7. \/ row.status = "succeeded"
      \/ row.status = "dead_letter" /\ Spent(e) + 1 = MaxAttempts
      \/ row.status = "pending" /\ Spent(e) + 1 < MaxAttempts
    BY <1>1, <1>2, <1>6, SettingsAssumption DEF CompletedRow, Decision, JobRow
<1> HIDE DEF old, row
<1>8. Lifecycle!Complete(e, row.status)
    BY <1>1, <1>3, <1>4, <1>5
    DEF Lifecycle!Complete, Lifecycle!Shift, StatusOf, Spent
<1>9. [d \in Events |-> Cardinality(CycleAttempts(d))][e] = Spent(e)
    BY <1>1 DEF Spent
<1> QED
    BY <1>1, <1>7, <1>8, <1>9 DEF Lifecycle!Succeed, Lifecycle!Retry, Lifecycle!GiveUp

LEMMA ReplayMaps ==
    ASSUME BaseInv, CycleInv, NEW r \in Replays, CommitReplay(r)
    PROVE  \E j \in Events : Lifecycle!Replay(j)
<1>0. PICK e : e = Current(r)
    OBVIOUS
<1>1. /\ attempts' = attempts
      /\ e \in Events /\ Exists(e) /\ Exists(e)' /\ jobs[e].status \in Terminal
      /\ jobs'[e].status = "pending"
      /\ \A d \in Events \ {e} : jobs'[d] = jobs[d] /\ cycle_start'[d] = cycle_start[d]
      /\ CycleAttempts(e)' = {}
    BY <1>0, ReplayedJob
<1>2. \A d \in Events \ {e} : StatusOf(d)' = StatusOf(d) /\ Spent(d)' = Spent(d)
    BY <1>1 DEF StatusOf, Spent, CycleAttempts, Exists
<1>3. StatusOf(e) \in Terminal /\ StatusOf(e)' = "pending" /\ Spent(e)' = 0
    BY <1>1, FS_EmptySet DEF StatusOf, Spent
<1> QED
    BY <1>1, <1>2, <1>3 DEF Lifecycle!Replay, Lifecycle!Shift, StatusOf, Spent, Terminal

LEMMA LifecycleInit == Init => Lifecycle!Init
<1> SUFFICES ASSUME Init PROVE Lifecycle!Init
    OBVIOUS
<1>1. \A e \in Events : ~Exists(e) /\ CycleAttempts(e) = {}
    BY DEF Init, Exists, CycleAttempts
<1> QED
    BY <1>1, FS_EmptySet DEF Lifecycle!Init

LEMMA LifecycleStep ==
    ASSUME BaseInv, CycleInv, [Next]_vars
    PROVE  [Lifecycle!Next]_(Lifecycle!vars)
<1>1. CASE (\A e \in Events : StatusOf(e)' = StatusOf(e) /\ Spent(e)' = Spent(e))
    BY <1>1 DEF StatusOf, Spent, Lifecycle!vars
<1>2. ASSUME UNCHANGED rows \/ \E d \in Deliveries : CommitDelivery(d)
      PROVE  \A e \in Events : StatusOf(e)' = StatusOf(e) /\ Spent(e)' = Spent(e)
    <2>1. CASE UNCHANGED rows
        BY <2>1 DEF rows, StatusOf, Spent, Exists, CycleAttempts
    <2>2. ASSUME NEW d \in Deliveries, CommitDelivery(d), NEW e \in Events
          PROVE  StatusOf(e)' = StatusOf(e) /\ Spent(e)' = Spent(e)
        BY <2>2, DeliveredManually DEF StatusOf, Spent, Exists
    <2> QED
        BY <1>2, <2>1, <2>2
<1>3. ASSUME NEW e \in Events, CreateEvent(e) PROVE Lifecycle!Next
    <2>1. /\ UNCHANGED <<attempts, cycle_start>> /\ ~Exists(e) /\ Exists(e)'
          /\ jobs'[e].status = "pending" /\ \A d \in Events \ {e} : jobs'[d] = jobs[d]
        BY <1>3, CreatedJob
    <2>2. /\ StatusOf(e) = "absent" /\ StatusOf(e)' = "pending"
          /\ \A d \in Events \ {e} : StatusOf(d)' = StatusOf(d)
          /\ \A d \in Events : Spent(d)' = Spent(d)
        BY <2>1 DEF StatusOf, Spent, Exists, CycleAttempts
    <2>3. Lifecycle!Accept(e)
        BY <2>2, ShiftMaps DEF Lifecycle!Accept
    <2> QED
        BY <2>3 DEF Lifecycle!Next
<1>4. ASSUME NEW w \in Workers, CommitRecovery(w) \/ CommitClaim(w) PROVE Lifecycle!Next
    <2> DEFINE S == {e \in Events : holder[e] = w}
    <2>1. /\ UNCHANGED <<attempts, cycle_start>>
          /\ \A e \in Events : Exists(e)' = Exists(e)
          /\ \A e \in Events \ S : jobs'[e] = jobs[e]
          /\ \A e \in S :
                 /\ Exists(e)
                 /\ CommitRecovery(w) =>
                        jobs[e].status = "processing" /\ jobs'[e].status = "pending"
                 /\ CommitClaim(w) =>
                        jobs[e].status = "pending" /\ jobs'[e].status = "processing"
        BY <1>4, MovedRows
    <2>2. S \in SUBSET Events
        OBVIOUS
    <2> HIDE DEF S
    <2>3. /\ \A e \in Events \ S : StatusOf(e)' = StatusOf(e)
          /\ \A e \in Events : Spent(e)' = Spent(e)
          /\ \A e \in S : StatusOf(e) = jobs[e].status /\ StatusOf(e)' = jobs'[e].status
        BY <2>1, <2>2 DEF StatusOf, Spent, CycleAttempts, Exists
    <2>4. CASE CommitRecovery(w)
        BY <2>1, <2>2, <2>3, <2>4, ShiftMaps DEF Lifecycle!Recover, Lifecycle!Next
    <2>5. CASE CommitClaim(w)
        BY <2>1, <2>2, <2>3, <2>5, ShiftMaps DEF Lifecycle!Claim, Lifecycle!Next
    <2> QED
        BY <1>4, <2>4, <2>5
<1>5. ASSUME NEW w \in Workers, CommitJob(w) PROVE Lifecycle!Next
    BY <1>5, CompleteMaps DEF Lifecycle!Next
<1>6. ASSUME NEW r \in Replays, CommitReplay(r) PROVE Lifecycle!Next
    BY <1>6, ReplayMaps DEF Lifecycle!Next
<1> QED
    BY <1>1, <1>2, <1>3, <1>4, <1>5, <1>6, StepKinds

\* While iterations are timely, the core implements the life of a job: the four
\* statuses, a budget of max_attempts per cycle, replay as the only way out of
\* a finished cycle (models.py:104-108, retry_policy.py:96-118).
THEOREM CoreImplementsLifecycle == ASSUME Timely PROVE Spec => ImplementsLifecycle
<1>1. Init => Lifecycle!Init
    BY LifecycleInit
<1>2. BaseInv /\ CycleInv /\ [Next]_vars => [Lifecycle!Next]_(Lifecycle!vars)
    BY LifecycleStep
<1> QED
    BY <1>1, <1>2, CyclesHold, PTL DEF Spec, ImplementsLifecycle, Lifecycle!Spec
=============================================================================
