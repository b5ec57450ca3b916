--------------------------- MODULE ProgressProofs ---------------------------
(***************************************************************************)
(* Theorems about DeliveryProgress, for any events, processes and settings  *)
(* and timely iterations: the clock that never stops takes nothing away     *)
(* from what is proved of the core, and where no manual delivery competes,  *)
(* the record of a call is lost only with the process that made it.         *)
(***************************************************************************)
EXTENDS DeliveryProgress, WebhookCycleProofs, FunctionTheorems

InCall == {"record", "update", "commit_job"}

-----------------------------------------------------------------------------
(* The core: a worker's INSERT never meets its key.                         *)

\* The number a worker has read is still free.
FreshInv == \A w \in Workers : pc[w] \in Numbered => ~KeyTaken(w)

LEMMA FreshInit == Init => FreshInv
BY DEF Init, FreshInv, Numbered, Procs

\* A process moves and commits no attempt.
LEMMA FreshFrame ==
    ASSUME FreshInv, attempts' = attempts, NEW p \in Procs, Moves(p),
           pc'[p] \in Numbered => /\ pc[p] \in Numbered /\ Current(p)' = Current(p)
                                  /\ ctx'[p].number = ctx[p].number
    PROVE  FreshInv'
<1> SUFFICES ASSUME NEW w \in Workers, pc'[w] \in Numbered PROVE ~KeyTaken(w)'
    BY DEF FreshInv
<1>1. pc[w] \in Numbered /\ Current(w)' = Current(w) /\ ctx'[w].number = ctx[w].number
    BY DEF Moves, Current, Procs
<1> QED
    BY <1>1 DEF FreshInv, KeyTaken

\* The events of two workers' attempts are different.
LEMMA OtherAttempt ==
    ASSUME TypeInv, ClaimInv, NEW v \in Workers, NEW w \in Workers \ {v},
           pc[v] \in Numbered, pc[w] \in Numbered
    PROVE  Current(v) # Current(w)
<1>1. ASSUME NEW u \in Workers, pc[u] \in Numbered PROVE Current(u) \in Claimed(u)
    <2>1. ctx[u].batch \in Seq(Events) /\ ctx[u].batch # <<>>
        BY <1>1, ClaimTypes DEF TypeInv, LocalsOK, Working, Numbered
    <2> QED
        BY <2>1 DEF Claimed, Range, Current
<1>2. Claimed(v) \cap Claimed(w) = {}
    BY DEF ClaimInv
<1> QED
    BY <1>1, <1>2

\* A worker commits the attempt of the job it has claimed alone.
LEMMA FreshCommit ==
    ASSUME TypeInv, ClaimInv, FreshInv, NEW w \in Workers, CommitJob(w)
    PROVE  FreshInv'
<1>1. /\ HasInserted(w) /\ Moves(w) /\ pc'[w] \notin Numbered
      /\ attempts' = [attempts EXCEPT ![Current(w)] = @ \cup {AttemptOf(w)}]
    BY CommitsAttempt DEF Procs
<1> SUFFICES ASSUME NEW v \in Workers, pc'[v] \in Numbered PROVE ~KeyTaken(v)'
    BY DEF FreshInv
<1>2. v # w /\ pc[v] \in Numbered /\ ctx'[v] = ctx[v]
    BY <1>1 DEF Moves, Procs
<1>3. Current(v) # Current(w)
    BY <1>1, <1>2, OtherAttempt DEF HasInserted, Numbered
<1>4. attempts'[Current(v)] = attempts[Current(v)]
    BY <1>1, <1>3 DEF TypeInv, TypeOK
<1>5. ~KeyTaken(v)
    BY <1>2 DEF FreshInv
<1> QED
    BY <1>2, <1>4, <1>5 DEF KeyTaken, Current

LEMMA FreshStep ==
    ASSUME Deliveries = {}, TypeInv, ClaimInv, FreshInv, [Next]_vars
    PROVE  FreshInv'
<1>0. /\ Workers \subseteq Procs /\ Replays \subseteq Procs
      /\ pc \in [Procs -> PCs] /\ ctx \in [Procs -> Context]
    BY DEF Procs, Requests, TypeInv, TypeOK
<1>1. CASE UNCHANGED <<attempts, pc, ctx>>
    BY <1>1 DEF FreshInv, KeyTaken, Current
<1>2. ASSUME NEW p \in Procs,
             \/ p \in Workers /\ (Start(p) \/ Stop(p) \/ BeginIteration(p))
             \/ p \in Workers /\ (Recover(p) \/ CommitRecovery(p) \/ Claim(p) \/ CommitClaim(p))
             \/ LoadJob(p) \/ Rollback(p)
             \/ RequestDelivery(p) \/ RequestReplay(p) \/ LockReplay(p) \/ CommitReplay(p)
      PROVE  FreshInv'
    BY <1>2, OutsideAttempt, FreshFrame
<1>3. ASSUME NEW p \in Procs, Send(p) \/ UpdateJob(p) PROVE FreshInv'
    BY <1>3, InsideAttempt, FreshFrame
<1>4. ASSUME NEW p \in Workers, Prepare(p) PROVE FreshInv'
    <2>1. /\ pc[p] = "prepare" /\ Moves(p) /\ attempts' = attempts
          /\ Current(p)' = Current(p) /\ ctx'[p].number = NextNumber(Current(p))
        BY <1>0, <1>4 DEF Prepare, Goto, Moves, rows, Current, Context
    <2>2. Current(p) \in Events
        BY <1>0, <2>1, CurrentRow DEF Working
    <2>3. /\ NextNumber(Current(p)) \in Nat
          /\ \A a \in attempts[Current(p)] : a.number \in Nat /\ a.number < NextNumber(Current(p))
        BY <2>2, NextNumberIsFresh DEF TypeInv, TypeOK, AttemptRow
    <2>4. ~KeyTaken(p)'
        BY <2>1, <2>3 DEF KeyTaken
    <2>5. ASSUME NEW w \in Workers \ {p}, pc'[w] \in Numbered PROVE ~KeyTaken(w)'
        BY <1>0, <2>1, <2>5 DEF FreshInv, KeyTaken, Current, Moves
    <2> QED
        BY <2>4, <2>5 DEF FreshInv
<1>5. ASSUME NEW p \in Workers, RecordAttempt(p) PROVE FreshInv'
    <2>1. /\ pc[p] = "record" /\ Moves(p) /\ attempts' = attempts
          /\ Current(p)' = Current(p) /\ ctx'[p].number = ctx[p].number
        BY <1>0, <1>5 DEF RecordAttempt, Goto, Moves, rows, Current, Context
    <2> QED
        BY <1>0, <2>1, FreshFrame DEF Numbered
<1>6. ASSUME NEW w \in Workers, CommitJob(w) PROVE FreshInv'
    BY <1>6, FreshCommit
<1> QED
    BY <1>0, <1>1, <1>2, <1>3, <1>4, <1>5, <1>6
    DEF Next, Iterate, Deliver, Replay, Crash, LoadLostJob, PrepareInactive,
        RecordDuplicate, RefuseReplay, Tick, SetActive, CreateEvent, vars, rows, env

\* Where iterations are timely and no manual delivery competes, the INSERT of a
\* worker never meets a committed key, although the number was read before the
\* call (delivery_service.py:72-77 and 127-135): IntegrityError stops no worker.
THEOREM NoWorkerMeetsItsKey ==
    ASSUME Timely, Deliveries = {}
    PROVE  Spec => []FreshInv
<1>1. Init => TypeInv /\ LockInv /\ ClaimInv /\ FreshInv
    BY TypeInvInit, LockInit, ClaimInit, FreshInit
<1>2. TypeInv /\ LockInv /\ ClaimInv /\ FreshInv /\ [Next]_vars
          => (TypeInv /\ LockInv /\ ClaimInv /\ FreshInv)'
    BY TypeInvStep, LockStep, ClaimStep, FreshStep
<1> QED
    BY <1>1, <1>2, PTL DEF Spec

-----------------------------------------------------------------------------
(* The clock that never stops.                                              *)

\* What the steps of the core keep.
CoreInv == BaseInv /\ CycleInv /\ DueWhileAwaiting

LEMMA GapsAreNat == ASSUME TypeInv PROVE Gaps \subseteq Nat
<1>1. now \in Nat /\ StaleTimeout \in Nat
    BY SettingsAssumption DEF TypeInv, TypeOK, Instants
<1> QED
    BY <1>1 DEF Gaps

LEMMA FunctionOf ==
    ASSUME NEW S, NEW T, NEW f, f = [x \in S |-> f[x]], \A x \in S : f[x] \in T
    PROVE  f \in [S -> T]
<1>1. [x \in S |-> f[x]] \in [S -> T]
    OBVIOUS
<1> QED
    BY <1>1, Zenon

\* What the passing of time leaves of a row and of a process.
LEMMA EarlierRows ==
    ASSUME TypeInv, DueWhileAwaiting, Elapse
    PROVE  \E gap \in Nat :
               /\ gap <= now - 2 * StaleTimeout + 1
               /\ \A p \in Procs : /\ ctx'[p] \in Context
                                   /\ ctx'[p].batch = ctx[p].batch
                                   /\ ctx'[p].count = ctx[p].count
                                   /\ ctx'[p].number = ctx[p].number
                                   /\ ctx'[p].at = Earlier(ctx[p].at, gap)
               /\ \A e \in Events : ~Exists(e) => jobs'[e] = None
               /\ \A e \in Events : Exists(e) =>
                      /\ jobs'[e] \in JobRow /\ jobs'[e].status = jobs[e].status
                      /\ jobs'[e].attempt_count = jobs[e].attempt_count
                      /\ jobs'[e].next_attempt_at = None <=> jobs[e].next_attempt_at = None
                      /\ jobs[e].status = "processing" =>
                             jobs'[e].updated_at = Earlier(jobs[e].updated_at, gap)
                      /\ jobs[e].status = "pending" =>
                             jobs'[e].next_attempt_at = Earlier(jobs[e].next_attempt_at, gap)
<1>1. PICK gap \in Gaps :
          /\ jobs' = [e \in Events |-> EarlierRow(jobs[e], gap)]
          /\ ctx' = [p \in Procs |-> EarlierContext(ctx[p], gap)]
    BY DEF Elapse
<1>2. now \in Nat /\ StaleTimeout \in Nat /\ Instants = 0..MaxTime /\ MaxTime \in Nat
    BY SettingsAssumption DEF TypeInv, TypeOK, Instants
<1>3. gap \in Nat /\ gap <= now - 2 * StaleTimeout + 1
    BY <1>2, GapsAreNat DEF Gaps
<1>4. \A t \in Instants : Earlier(t, gap) \in Instants /\ 0 \in Instants
    BY <1>2, <1>3 DEF Earlier
<1>5. ASSUME NEW p \in Procs
      PROVE  /\ ctx'[p] \in Context /\ ctx'[p].batch = ctx[p].batch
             /\ ctx'[p].count = ctx[p].count /\ ctx'[p].number = ctx[p].number
             /\ ctx'[p].at = Earlier(ctx[p].at, gap)
    <2>1. ctx[p] \in Context /\ ctx'[p] = EarlierContext(ctx[p], gap)
        BY <1>1 DEF TypeInv, TypeOK
    <2>2. /\ Earlier(ctx[p].at, gap) \in Instants
          /\ Earlier(ctx[p].decision_at, gap) \in Instants /\ 0 \in Instants
        BY <1>4, <2>1 DEF Context
    <2> QED
        BY <2>1, <2>2 DEF EarlierContext, Context
<1>6. ASSUME NEW e \in Events, ~Exists(e) PROVE jobs'[e] = None
    BY <1>1, <1>6 DEF EarlierRow, Exists
<1>7. ASSUME NEW e \in Events, Exists(e)
      PROVE  /\ jobs'[e] \in JobRow /\ jobs'[e].status = jobs[e].status
             /\ jobs'[e].attempt_count = jobs[e].attempt_count
             /\ jobs'[e].next_attempt_at = None <=> jobs[e].next_attempt_at = None
             /\ jobs[e].status = "processing" =>
                    jobs'[e].updated_at = Earlier(jobs[e].updated_at, gap)
             /\ jobs[e].status = "pending" =>
                    jobs'[e].next_attempt_at = Earlier(jobs[e].next_attempt_at, gap)
    <2> DEFINE job == jobs[e]
    <2>1. job \in JobRow /\ job # None /\ jobs'[e] = EarlierRow(job, gap)
        BY <1>1, <1>7 DEF TypeInv, TypeOK, Exists
    <2>2. /\ Earlier(job.updated_at, gap) \in Instants
          /\ Earlier(job.created_at, gap) \in Instants /\ 0 \in Instants /\ 0 \in Nat
        BY <1>4, <2>1 DEF JobRow
    <2>3. job.status \in Terminal <=> job.next_attempt_at = None
        BY <1>7 DEF DueWhileAwaiting
    <2>4. 0 # None /\ \A n \in Nat : n # None
        BY SettingsAssumption
    <2> HIDE DEF job
    <2>5. CASE job.status = "pending"
        <3>1. jobs'[e] = [job EXCEPT !.next_attempt_at = Earlier(@, gap), !.updated_at = 0,
                                     !.created_at = Earlier(@, gap)]
            BY <2>1, <2>5 DEF EarlierRow, Terminal
        <3>2. job.next_attempt_at \in Nat
            BY <2>1, <2>3, <2>5 DEF JobRow, Terminal
        <3>3. Earlier(job.next_attempt_at, gap) \in Nat
            BY <1>3, <3>2 DEF Earlier
        <3>4. jobs'[e] \in JobRow
            BY <2>1, <2>2, <3>1, <3>3 DEF JobRow
        <3> QED
            BY <2>1, <2>4, <2>5, <3>1, <3>2, <3>3, <3>4 DEF JobRow, job
    <2>6. CASE job.status = "processing"
        <3>1. jobs'[e] = [job EXCEPT !.next_attempt_at = 0, !.updated_at = Earlier(@, gap),
                                     !.created_at = Earlier(@, gap)]
            BY <2>1, <2>6 DEF EarlierRow, Terminal
        <3>2. jobs'[e] \in JobRow
            BY <2>1, <2>2, <3>1 DEF JobRow
        <3> QED
            BY <2>1, <2>3, <2>4, <2>6, <3>1, <3>2 DEF JobRow, Terminal, job
    <2>7. CASE job.status \in Terminal
        <3>1. jobs'[e] = [job EXCEPT !.updated_at = 0, !.created_at = 0]
            BY <2>1, <2>7 DEF EarlierRow, Terminal
        <3>2. jobs'[e] \in JobRow
            BY <2>1, <2>2, <3>1 DEF JobRow
        <3> QED
            BY <2>1, <2>3, <2>7, <3>1, <3>2 DEF JobRow, Terminal, job
    <2> QED
        BY <2>1, <2>5, <2>6, <2>7 DEF JobRow, Statuses
<1> QED
    BY <1>3, <1>5, <1>6, <1>7

\* An attempt whose time is forgotten.
Undated(a) == [a EXCEPT !.attempted_at = 0]

\* The attempts stay, but for their times.
LEMMA EarlierAttempts ==
    ASSUME TypeInv, Elapse, NEW e \in Events
    PROVE  /\ attempts'[e] = {Undated(a) : a \in attempts[e]}
           /\ attempts'[e] \subseteq AttemptRow
           /\ \A a \in attempts[e] :
                  /\ a \in AttemptRow /\ Undated(a) \in attempts'[e]
                  /\ Undated(a).number = a.number /\ Undated(a).outcome = a.outcome
                  /\ Undated(a).by = a.by
<1>1. attempts'[e] = {Undated(a) : a \in attempts[e]}
    BY DEF Elapse, Undated
<1>2. attempts[e] \subseteq AttemptRow /\ 0 \in Instants
    BY SettingsAssumption DEF TypeInv, TypeOK, Instants
<1>3. ASSUME NEW a \in AttemptRow
      PROVE  /\ Undated(a) \in AttemptRow /\ Undated(a).number = a.number
             /\ Undated(a).outcome = a.outcome /\ Undated(a).by = a.by
    BY <1>2 DEF AttemptRow, Undated
<1> HIDE DEF Undated
<1> QED
    BY <1>1, <1>2, <1>3

\* No two attempts of an event become one.
LEMMA UndatedApart ==
    ASSUME TypeInv, NumberingInv, Elapse, NEW e \in Events,
           NEW a \in attempts[e], NEW b \in attempts[e], Undated(a) = Undated(b)
    PROVE  a = b
<1>1. a.number = b.number
    BY EarlierAttempts
<1> QED
    BY <1>1 DEF NumberingInv, GaplessNumbering

LEMMA UndatedCount ==
    ASSUME TypeInv, NumberingInv, Elapse, NEW e \in Events,
           NEW S \in SUBSET attempts[e], IsFiniteSet(S),
           NEW T, T = {Undated(a) : a \in S}
    PROVE  IsFiniteSet(T) /\ Cardinality(T) = Cardinality(S)
<1>1. PICK f : f = [a \in S |-> Undated(a)]
    OBVIOUS
<1>2. f \in [S -> T] /\ \A t \in T : \E a \in S : f[a] = t
    BY <1>1
<1>3. \A a, b \in S : f[a] = f[b] => a = b
    BY <1>1, UndatedApart
<1>4. f \in Bijection(S, T)
    BY <1>2, <1>3, Fun_IsBij
<1>5. ExistsBijection(S, T)
    BY <1>4, Fun_ExistsBij
<1> QED
    BY <1>5, FS_Bijection

LEMMA ElapseType ==
    ASSUME TypeInv, DueWhileAwaiting, Elapse
    PROVE  TypeInv'
<1>1. UNCHANGED <<env, cycle_start, holder, pc>>
    BY DEF Elapse
<1>2. /\ jobs' \in [Events -> JobRow \cup {None}]
      /\ \A e \in Events : Exists(e)' <=> Exists(e)
    <2>1. jobs' = [e \in Events |-> jobs'[e]]
        BY DEF Elapse
    <2>2. \A e \in Events : /\ Exists(e) => jobs'[e] \in JobRow
                            /\ ~Exists(e) => jobs'[e] = None
        BY EarlierRows
    <2>3. ASSUME NEW e \in Events
          PROVE  jobs'[e] \in JobRow \cup {None} /\ (jobs'[e] # None <=> jobs[e] # None)
        <3>1. CASE jobs[e] # None
            <4>1. jobs'[e] \in JobRow
                BY <2>2, <3>1 DEF Exists
            <4>2. jobs'[e] # None
                BY <4>1, RowsAssumption, Zenon
            <4> QED
                BY <3>1, <4>1, <4>2
        <3>2. CASE jobs[e] = None
            BY <2>2, <3>2 DEF Exists
        <3> QED
            BY <3>1, <3>2
    <2>4. jobs' \in [Events -> JobRow \cup {None}]
        BY <2>1, <2>3, FunctionOf
    <2>5. \A e \in Events : Exists(e)' <=> Exists(e)
        BY <2>3 DEF Exists
    <2> QED
        BY <2>4, <2>5
<1>3. /\ ctx' \in [Procs -> Context]
      /\ \A p \in Procs : /\ ctx'[p].batch = ctx[p].batch /\ ctx'[p].count = ctx[p].count
                          /\ ctx'[p].number = ctx[p].number
    <2>1. ctx' = [p \in Procs |-> ctx'[p]]
        BY DEF Elapse
    <2>2. \A p \in Procs : /\ ctx'[p] \in Context
                           /\ ctx'[p].batch = ctx[p].batch /\ ctx'[p].count = ctx[p].count
                           /\ ctx'[p].number = ctx[p].number
        BY EarlierRows
    <2>3. ctx' \in [Procs -> Context]
        BY <2>1, <2>2, FunctionOf
    <2> QED
        BY <2>2, <2>3
<1>4. attempts' \in [Events -> SUBSET AttemptRow]
    <2>1. attempts' = [e \in Events |-> attempts'[e]]
        BY DEF Elapse
    <2>2. \A e \in Events : attempts'[e] \in SUBSET AttemptRow
        BY EarlierAttempts
    <2> QED
        BY <2>1, <2>2, FunctionOf
<1>5. TopAttempt'
    <2> SUFFICES ASSUME NEW e \in Events, attempts'[e] # {}
                 PROVE  \E a \in attempts'[e] : \A b \in attempts'[e] : b.number <= a.number
        BY DEF TopAttempt
    <2>1. PICK a \in attempts[e] : \A b \in attempts[e] : b.number <= a.number
        BY EarlierAttempts DEF TypeInv, TopAttempt
    <2>2. PICK c \in attempts'[e] : c.number = a.number
        BY EarlierAttempts
    <2>3. \A b \in attempts'[e] : b.number <= c.number
        BY <2>1, <2>2, EarlierAttempts
    <2> QED
        BY <2>3
<1>6. TypeOK'
    BY <1>1, <1>2, <1>3, <1>4 DEF TypeInv, TypeOK, env
<1>7. LocalsOK'
    <2>1. \A p \in Procs : \A i \in DOMAIN ctx[p].batch :
              ctx[p].batch[i] \in Events /\ Exists(ctx[p].batch[i])
        BY DEF TypeInv, TypeOK, LocalsOK, Context
    <2> QED
        BY <1>1, <1>2, <1>3, <2>1 DEF TypeInv, LocalsOK
<1>8. LockedExist'
    BY <1>1, <1>2 DEF TypeInv, LockedExist
<1> QED
    BY <1>5, <1>6, <1>7, <1>8 DEF TypeInv

LEMMA ElapseLocks ==
    ASSUME TypeInv, LockInv, DueWhileAwaiting, Elapse
    PROVE  LockInv' /\ DueWhileAwaiting'
<1>1. holder' = holder /\ pc' = pc
    BY DEF Elapse
<1>2. \A p \in Procs : Current(p)' = Current(p)
    BY EarlierRows DEF Current
<1>3. ASSUME NEW e \in Events
      PROVE  /\ Exists(e)' => Exists(e)
             /\ Exists(e) =>
                    /\ jobs'[e].status = jobs[e].status
                    /\ jobs'[e].next_attempt_at = None <=> jobs[e].next_attempt_at = None
    BY EarlierRows DEF Exists
<1>4. ASSUME NEW e \in Events, NEW p \in Procs, holder[e] = p
      PROVE  AsLocked(e, p)'
    <2>1. AsLocked(e, p)
        BY <1>4 DEF LockInv
    <2>2. Exists(e)
        BY <1>4, ProcsAssumption DEF TypeInv, LockedExist
    <2> QED
        BY <1>1, <1>2, <1>3, <2>1, <2>2 DEF AsLocked
<1>5. LockInv'
    BY <1>1, <1>2, <1>4 DEF LockInv
<1>6. DueWhileAwaiting'
    BY <1>3 DEF DueWhileAwaiting
<1> QED
    BY <1>5, <1>6

\* An instant that a cutoff keeps apart stays apart: the dropped instant is
\* older than every cutoff.
LEMMA EarlierKeepsOrder ==
    ASSUME NEW t \in Nat, NEW u \in Nat, NEW gap \in Nat
    PROVE  /\ t <= u => Earlier(t, gap) <= Earlier(u, gap)
           /\ \A d \in Nat : t <= u - d /\ gap < u - d => Earlier(t, gap) <= Earlier(u, gap) - d
BY DEF Earlier

\* Time may pass beside a timely iteration: it keeps its age below the stale
\* timeout and its claims.
LEMMA ElapseClaims ==
    ASSUME TypeInv, LockInv, ClaimInv, DueWhileAwaiting, Elapse
    PROVE  ClaimInv'
<1>1. PICK gap \in Nat :
          /\ gap <= now - 2 * StaleTimeout + 1
          /\ \A p \in Procs : /\ ctx'[p].batch = ctx[p].batch
                              /\ ctx'[p].at = Earlier(ctx[p].at, gap)
          /\ \A e \in Events : Exists(e) =>
                 /\ jobs'[e].status = jobs[e].status
                 /\ jobs[e].status = "processing" =>
                        jobs'[e].updated_at = Earlier(jobs[e].updated_at, gap)
                 /\ jobs[e].status = "pending" =>
                        jobs'[e].next_attempt_at = Earlier(jobs[e].next_attempt_at, gap)
    BY EarlierRows
<1>2. now' = now /\ holder' = holder /\ pc' = pc
    BY DEF Elapse, env
<1>3. ASSUME NEW w \in Workers PROVE Claimed(w)' = Claimed(w) /\ BatchOK(w)'
    <2>1. ctx'[w].batch = ctx[w].batch /\ BatchOK(w)
        BY <1>1 DEF ClaimInv, WorkerOK, Procs
    <2> QED
        BY <1>2, <2>1 DEF Claimed, BatchOK
<1>4. ASSUME NEW w \in Workers, pc[w] \notin {"down", "idle"}
      PROVE  /\ ctx[w].at <= now /\ now + 1 < ctx[w].at + StaleTimeout
             /\ gap < ctx[w].at - StaleTimeout
    <2>1. ctx[w].at <= now
        BY <1>4 DEF ClaimInv, WorkerOK, YoungIteration
    <2>2. now + 1 < ctx[w].at + StaleTimeout
        BY <1>4 DEF Elapse
    <2> QED
        BY <1>1, <2>1, <2>2, ClaimTypes
<1>5. ASSUME NEW w \in Workers PROVE YoungIteration(w)'
    <2> SUFFICES ASSUME pc[w] \notin {"down", "idle"}
                 PROVE  ctx'[w].at <= now /\ now < ctx'[w].at + StaleTimeout
        BY <1>2 DEF YoungIteration
    <2>1. ctx'[w].at = ctx[w].at \/ ctx'[w].at = ctx[w].at - 1
        BY <1>1 DEF Earlier, Procs
    <2> QED
        BY <1>4, <2>1, ClaimTypes
<1>6. ASSUME NEW w \in Workers PROVE AsSelected(w)'
    <2> SUFFICES ASSUME NEW e \in Events, holder[e] = w
                 PROVE  /\ pc[w] = "commit_recovery" =>
                               jobs'[e].updated_at <= ctx'[w].at - StaleTimeout
                        /\ pc[w] = "commit_claim" => jobs'[e].next_attempt_at <= ctx'[w].at
        BY <1>2 DEF AsSelected
    <2>1. w \in Procs /\ Exists(e) /\ jobs[e] \in JobRow /\ AsLocked(e, w)
        BY ProcsAssumption DEF TypeInv, TypeOK, LockedExist, Exists, LockInv, Procs
    <2>2. /\ ctx'[w].at = Earlier(ctx[w].at, gap)
          /\ ctx[w].at \in Nat /\ StaleTimeout \in Nat
        BY <1>1, <2>1, ClaimTypes
    <2>3. CASE pc[w] = "commit_recovery"
        <3>1. jobs[e].status = "processing"
            BY <2>1, <2>3 DEF AsLocked
        <3>2. jobs[e].updated_at <= ctx[w].at - StaleTimeout
            BY <2>3 DEF ClaimInv, WorkerOK, AsSelected
        <3>3. jobs[e].updated_at \in Nat
            BY <2>1, SettingsAssumption DEF JobRow, Instants
        <3>4. gap < ctx[w].at - StaleTimeout
            BY <1>4, <2>3
        <3>5. jobs'[e].updated_at = Earlier(jobs[e].updated_at, gap)
            BY <1>1, <2>1, <3>1
        <3> QED
            BY <2>2, <2>3, <3>2, <3>3, <3>4, <3>5, EarlierKeepsOrder
    <2>4. CASE pc[w] = "commit_claim"
        <3>1. jobs[e].status = "pending"
            BY <2>1, <2>4 DEF AsLocked
        <3>2. jobs[e].next_attempt_at <= ctx[w].at
            BY <2>4 DEF ClaimInv, WorkerOK, AsSelected
        <3>3. jobs[e].next_attempt_at \in Nat
            BY <2>1, <3>1 DEF DueWhileAwaiting, JobRow, Terminal
        <3>4. jobs'[e].next_attempt_at = Earlier(jobs[e].next_attempt_at, gap)
            BY <1>1, <2>1, <3>1
        <3> QED
            BY <2>2, <2>4, <3>2, <3>3, <3>4, EarlierKeepsOrder
    <2> QED
        BY <2>3, <2>4
<1>7. ASSUME NEW w \in Workers, NEW e \in Claimed(w) PROVE Marked(w, e)'
    <2>1. Marked(w, e) /\ e \in Events /\ Exists(e) /\ w \in Procs
        BY ClaimTypes DEF ClaimInv, WorkerOK
    <2>2. CASE pc[w] = "commit_claim"
        BY <1>2, <2>1, <2>2 DEF Marked
    <2>3. CASE pc[w] # "commit_claim"
        BY <1>1, <1>2, <2>1, <2>3 DEF Marked
    <2> QED
        BY <2>2, <2>3
<1>8. ASSUME NEW w \in Workers PROVE WorkerOK(w)'
    <2>1. \A e \in Claimed(w)' : Marked(w, e)'
        BY <1>3, <1>7
    <2> QED
        BY <1>3, <1>5, <1>6, <2>1 DEF WorkerOK
<1>9. ASSUME NEW w \in Workers, NEW v \in Workers \ {w}
      PROVE  Claimed(v)' \cap Claimed(w)' = {}
    BY <1>3 DEF ClaimInv
<1> QED
    BY <1>8, <1>9 DEF ClaimInv

LEMMA ElapseFresh ==
    ASSUME TypeInv, DueWhileAwaiting, FreshInv, Elapse
    PROVE  FreshInv'
<1> SUFFICES ASSUME NEW w \in Workers, pc'[w] \in Numbered PROVE ~KeyTaken(w)'
    BY DEF FreshInv
<1>1. pc[w] \in Numbered /\ w \in Procs
    BY DEF Elapse, Procs
<1>2. Current(w) \in Events
    BY <1>1, CurrentRow DEF Numbered, Working
<1>3. Current(w)' = Current(w) /\ ctx'[w].number = ctx[w].number
    BY <1>1, EarlierRows DEF Current
<1>4. \A b \in attempts'[Current(w)] : \E a \in attempts[Current(w)] : a.number = b.number
    BY <1>2, EarlierAttempts
<1> QED
    BY <1>1, <1>3, <1>4 DEF FreshInv, KeyTaken

\* Apart from the passing of time, every step is one of the core.
LEMMA ProgressIsCore ==
    ASSUME [NextProgress]_progress_vars
    PROVE  Elapse \/ [Next]_vars
BY DEF NextProgress, Time, Restart, Poll, Work, Answer, Fault, Operate, Next, progress_vars,
       Procs, Requests

LEMMA ElapseNumbering ==
    ASSUME TypeInv, NumberingInv, DueWhileAwaiting, Elapse
    PROVE  NumberingInv'
<1>1. ASSUME NEW e \in Events, NEW c \in attempts'[e]
      PROVE  \E a \in attempts[e] : c = Undated(a) /\ c.number = a.number
    BY EarlierAttempts
<1>2. ASSUME NEW e \in Events, NEW a \in attempts[e]
      PROVE  \E c \in attempts'[e] : c.number = a.number
    BY EarlierAttempts
<1>3. pc' = pc /\ \A p \in Procs : /\ Current(p)' = Current(p)
                                   /\ ctx'[p].number = ctx[p].number
    BY EarlierRows DEF Elapse, Current
<1>4. \A p \in Procs : pc[p] \in Numbered => Current(p) \in Events
    BY CurrentRow DEF Numbered, Working
<1>5. GaplessNumbering'
    <2> SUFFICES ASSUME NEW e \in Events
                 PROVE  /\ \A c, d \in attempts'[e] : c.number = d.number => c = d
                        /\ \A c \in attempts'[e] : \A n \in 1..c.number :
                               \E d \in attempts'[e] : d.number = n
        BY DEF GaplessNumbering
    <2>1. \A a, b \in attempts[e] : a.number = b.number => a = b
        BY DEF NumberingInv, GaplessNumbering
    <2>2. \A a \in attempts[e] : \A n \in 1..a.number : \E b \in attempts[e] : b.number = n
        BY DEF NumberingInv, GaplessNumbering
    <2>3. ASSUME NEW c \in attempts'[e], NEW d \in attempts'[e], c.number = d.number
          PROVE  c = d
        <3>1. PICK a \in attempts[e] : c = Undated(a) /\ c.number = a.number
            BY <1>1
        <3>2. PICK b \in attempts[e] : d = Undated(b) /\ d.number = b.number
            BY <1>1
        <3> QED
            BY <2>1, <2>3, <3>1, <3>2
    <2>4. ASSUME NEW c \in attempts'[e], NEW n \in 1..c.number
          PROVE  \E d \in attempts'[e] : d.number = n
        <3>1. PICK a \in attempts[e] : c.number = a.number
            BY <1>1
        <3>2. PICK b \in attempts[e] : b.number = n
            BY <2>2, <3>1
        <3> QED
            BY <1>2, <3>2
    <2> QED
        BY <2>3, <2>4
<1>6. ASSUME NEW p \in Procs, pc'[p] \in Numbered PROVE FollowsCommitted(p)'
    <2>1. FollowsCommitted(p)
        BY <1>3, <1>6 DEF NumberingInv
    <2> QED
        BY <1>2, <1>3, <1>4, <1>6, <2>1 DEF FollowsCommitted
<1>7. ASSUME NEW p \in Procs, HasInserted(p)' PROVE ~KeyTaken(p)' /\ ~KeyPending(p)'
    <2>1. HasInserted(p) /\ ~KeyTaken(p) /\ ~KeyPending(p)
        BY <1>3, <1>7 DEF HasInserted, NumberingInv
    <2>2. Current(p) \in Events
        BY <1>4, <2>1 DEF HasInserted, Numbered
    <2>3. ~KeyTaken(p)'
        BY <1>1, <1>3, <2>1, <2>2 DEF KeyTaken
    <2>4. ~KeyPending(p)'
        BY <1>3, <2>1 DEF KeyPending, HasInserted
    <2> QED
        BY <2>3, <2>4
<1> QED
    BY <1>5, <1>6, <1>7 DEF NumberingInv

\* What JobLifecycle sees of a job.
LEMMA ElapseUnseen ==
    ASSUME BaseInv, DueWhileAwaiting, Elapse, NEW e \in Events
    PROVE  /\ Exists(e)' = Exists(e)
           /\ Exists(e) => /\ jobs'[e].status = jobs[e].status
                           /\ jobs'[e].attempt_count = jobs[e].attempt_count
           /\ cycle_start'[e] = cycle_start[e]
           /\ CycleAttempts(e)' = {Undated(a) : a \in CycleAttempts(e)}
           /\ IsFiniteSet(CycleAttempts(e)) =>
                  /\ IsFiniteSet(CycleAttempts(e)')
                  /\ Cardinality(CycleAttempts(e)') = Cardinality(CycleAttempts(e))
<1>1. /\ Exists(e) => /\ jobs'[e] \in JobRow /\ jobs'[e].status = jobs[e].status
                      /\ jobs'[e].attempt_count = jobs[e].attempt_count
      /\ ~Exists(e) => jobs'[e] = None
    BY EarlierRows DEF BaseInv
<1>2. Exists(e)' = Exists(e)
    <2>1. None \notin JobRow
        BY RowsAssumption
    <2> QED
        BY <1>1, <2>1 DEF Exists
<1>3. cycle_start' = cycle_start
    BY DEF Elapse
<1>4. CycleAttempts(e)' = {Undated(a) : a \in CycleAttempts(e)}
    BY <1>3, EarlierAttempts DEF BaseInv, CycleAttempts
<1>5. CycleAttempts(e) \in SUBSET attempts[e]
    BY DEF CycleAttempts
<1> QED
    BY <1>1, <1>2, <1>3, <1>4, <1>5, UndatedCount DEF BaseInv

LEMMA ElapseCycles ==
    ASSUME BaseInv, CycleInv, DueWhileAwaiting, Elapse
    PROVE  CycleInv' /\ BudgetLeft'
<1>1. ASSUME NEW e \in Events PROVE CycleOK(e)'
    <2>1. CycleOK(e)
        BY DEF CycleInv
    <2>2. ~Exists(e)' => attempts'[e] = {}
        BY <2>1, ElapseUnseen, EarlierAttempts DEF CycleOK, BaseInv
    <2>3. cycle_start'[e] = 0 \/ \E c \in attempts'[e] : c.number = cycle_start'[e]
        BY <2>1, ElapseUnseen, EarlierAttempts DEF CycleOK, BaseInv
    <2>4. ASSUME NEW c \in CycleAttempts(e)', c.outcome = "succeeded"
          PROVE  EndsCycle(e, c)'
        <3>1. PICK a \in CycleAttempts(e) : c = Undated(a)
            BY ElapseUnseen
        <3>2. /\ c.number = a.number /\ c.outcome = a.outcome
              /\ \A b \in CycleAttempts(e) : /\ Undated(b).number = b.number
                                             /\ Undated(b).outcome = b.outcome
            BY <3>1, EarlierAttempts DEF BaseInv, CycleAttempts
        <3>3. EndsCycle(e, a)
            BY <2>1, <2>4, <3>2 DEF CycleOK
        <3>4. ASSUME NEW d \in CycleAttempts(e)' \ {c}
              PROVE  d.outcome = "failed" /\ d.number < c.number
            <4>1. PICK b \in CycleAttempts(e) : d = Undated(b)
                BY ElapseUnseen
            <4> QED
                BY <3>1, <3>2, <3>3, <4>1 DEF EndsCycle
        <3> QED
            BY <3>3, <3>4, ElapseUnseen DEF EndsCycle
    <2> QED
        BY <2>1, <2>2, <2>3, <2>4, ElapseUnseen DEF CycleOK
<1>2. ASSUME NEW w \in Workers PROVE CountOK(w)'
    <2>1. /\ pc' = pc /\ w \in Procs /\ Current(w)' = Current(w)
          /\ ctx'[w].count = ctx[w].count /\ ctx'[w].number = ctx[w].number
        BY EarlierRows DEF Elapse, Current, BaseInv, Procs
    <2>2. CountOK(w)
        BY DEF CycleInv
    <2>3. pc[w] \in Attempting =>
              /\ jobs'[Current(w)].attempt_count = jobs[Current(w)].attempt_count
              /\ cycle_start'[Current(w)] = cycle_start[Current(w)]
        BY ExecutingJob, ElapseUnseen
    <2> QED
        BY <2>1, <2>2, <2>3 DEF CountOK
<1>3. BudgetLeft'
    BY ElapseUnseen DEF BaseInv, BudgetLeft
<1> QED
    BY <1>1, <1>2, <1>3 DEF CycleInv

LEMMA CoreInvInit == InitProgress => CoreInv
<1>1. Init => BudgetLeft
    BY DEF Init, BudgetLeft, Exists
<1> QED
    BY <1>1, TypeInvInit, LockInit, NumberingInit, ClaimInit, DueInit, CycleInit
    DEF InitProgress, CoreInv, BaseInv

LEMMA CoreInvStep ==
    ASSUME Timely, CoreInv, [NextProgress]_progress_vars
    PROVE  CoreInv'
<1>1. CASE Elapse
    BY <1>1, ElapseType, ElapseLocks, ElapseClaims, ElapseNumbering, ElapseCycles
    DEF CoreInv, BaseInv
<1>2. CASE [Next]_vars
    BY <1>2, TypeInvStep, LockStep, NumberingStep, BudgetStep, ClaimStep, DueStep, CycleStep
    DEF CoreInv, BaseInv
<1> QED
    BY <1>1, <1>2, ProgressIsCore

LEMMA CoreHolds == ASSUME Timely PROVE ProgressSpec => []CoreInv
BY Timely, CoreInvInit, CoreInvStep, PTL DEF ProgressSpec

\* On the clock that never stops, attempt_count still is the number of worker
\* attempts of the running cycle (delivery_job_execution_service.py:60-84).
THEOREM EndlessCountIsExact == ASSUME Timely PROVE ProgressSpec => []AttemptCountExact
<1>1. CoreInv => AttemptCountExact
    BY DEF CoreInv, CycleInv, CycleOK, AttemptCountExact
<1> QED
    BY <1>1, CoreHolds, PTL

\* The passing of time is invisible in the life of a job: on the clock that
\* never stops, too, the core implements JobLifecycle (models.py:104-108).
THEOREM EndlessImplementsLifecycle == ASSUME Timely PROVE ProgressSpec => ImplementsLifecycle
<1>1. InitProgress => Lifecycle!Init
    BY LifecycleInit DEF InitProgress
<1>2. CoreInv /\ [NextProgress]_progress_vars => [Lifecycle!Next]_(Lifecycle!vars)
    <2> SUFFICES ASSUME CoreInv, [NextProgress]_progress_vars
                 PROVE  [Lifecycle!Next]_(Lifecycle!vars)
        OBVIOUS
    <2>1. CASE [Next]_vars
        BY <2>1, LifecycleStep DEF CoreInv
    <2>2. CASE Elapse
        <3>1. \A e \in Events : StatusOf(e)' = StatusOf(e) /\ Spent(e)' = Spent(e)
            BY <2>2, ElapseUnseen DEF CoreInv, CycleInv, CycleOK, StatusOf, Spent
        <3> QED
            BY <3>1 DEF StatusOf, Spent, Lifecycle!vars
    <2> QED
        BY <2>1, <2>2, ProgressIsCore
<1> QED
    BY <1>1, <1>2, CoreHolds, PTL DEF ProgressSpec, ImplementsLifecycle, Lifecycle!Spec

-----------------------------------------------------------------------------
(* The count of the calls.                                                  *)

CallsInv ==
    /\ IsFiniteSet(Recorded) /\ IsFiniteSet(InFlight)
    /\ calls \in Nat /\ faults \in Nat
    /\ CallsAreRecorded

\* The processes whose call returns in a step.
Sending == {p \in Procs : pc[p] = "send" /\ pc'[p] = "record"}

LEMMA CallsInit == InitProgress => CallsInv
<1> SUFFICES ASSUME InitProgress PROVE CallsInv
    OBVIOUS
<1>1. Recorded = {}
    BY DEF InitProgress, Init, Recorded
<1>2. InFlight = {}
    BY DEF InitProgress, Init, InFlight, Procs
<1>3. IsFiniteSet({}) /\ Cardinality({}) = 0
    BY FS_EmptySet
<1>4. calls = 0 /\ faults = 0
    BY DEF InitProgress
<1> QED
    BY <1>1, <1>2, <1>3, <1>4 DEF CallsInv, CallsAreRecorded

\* Nothing that is counted changes.
LEMMA CallsFrame ==
    ASSUME CallsInv, Recorded' = Recorded, InFlight' = InFlight,
           calls' = calls, faults' = faults
    PROVE  CallsInv'
BY DEF CallsInv, CallsAreRecorded

LEMMA RecordedFrame == ASSUME attempts' = attempts PROVE Recorded' = Recorded
BY DEF Recorded

\* A regular step of which no call returns.
LEMMA NoCall ==
    ASSUME CallsInv, Regular, Sending = {}
    PROVE  calls' = calls /\ faults' = faults
<1>1. calls' = calls + Cardinality(Sending) /\ faults' = faults
    BY DEF Regular, Sending
<1>2. Cardinality(Sending) = 0
    BY FS_EmptySet
<1> QED
    BY <1>1, <1>2 DEF CallsInv

\* A process moves outside its call, or within it.
LEMMA CallsQuiet ==
    ASSUME CallsInv, Regular, attempts' = attempts, NEW p \in Procs, Moves(p),
           pc'[p] \in InCall <=> pc[p] \in InCall
    PROVE  CallsInv'
<1>1. \A q \in Procs : pc'[q] \in InCall <=> pc[q] \in InCall
    BY DEF Moves
<1>2. InFlight' = InFlight
    BY <1>1 DEF InFlight, InCall, Procs
<1>3. Sending = {}
    BY <1>1 DEF Sending, InCall
<1> QED
    BY <1>2, <1>3, RecordedFrame, NoCall, CallsFrame

\* A call returns to its worker.
LEMMA CallsSend ==
    ASSUME TypeInv, CallsInv, Regular, NEW w \in Workers, Send(w)
    PROVE  CallsInv'
<1>1. /\ w \in Procs /\ pc[w] = "send" /\ pc'[w] = "record"
      /\ attempts' = attempts /\ \A q \in Procs \ {w} : pc'[q] = pc[q]
    BY DEF TypeInv, TypeOK, Send, Goto, rows, Procs
<1>2. Sending = {w}
    BY <1>1 DEF Sending
<1>3. InFlight' = InFlight \cup {w} /\ w \notin InFlight
    BY <1>1 DEF InFlight, Procs
<1>4. Cardinality(Sending) = 1
    BY <1>2, FS_Singleton
<1>5. calls' = calls + 1 /\ faults' = faults
    BY <1>4 DEF Regular, Sending
<1>6. /\ IsFiniteSet(InFlight') /\ Cardinality(InFlight) \in Nat
      /\ Cardinality(InFlight') = Cardinality(InFlight) + 1
    BY <1>3, FS_AddElement, FS_CardinalityType DEF CallsInv
<1>7. Recorded' = Recorded /\ Cardinality(Recorded) \in Nat
    BY <1>1, RecordedFrame, FS_CardinalityType DEF CallsInv
<1> QED
    BY <1>5, <1>6, <1>7 DEF CallsInv, CallsAreRecorded

\* A commit of a worker moves the call from the open ones to a key of its own.
LEMMA CallsCommit ==
    ASSUME TypeInv, FreshInv, CallsInv, Regular, NEW w \in Workers, CommitJob(w)
    PROVE  CallsInv'
<1> DEFINE key == <<Current(w), ctx[w].number>>
<1>1. /\ w \in Procs /\ pc[w] = "commit_job" /\ pc'[w] \in {"idle", "load"}
      /\ \A q \in Procs \ {w} : pc'[q] = pc[q]
      /\ attempts' = [attempts EXCEPT ![Current(w)] = @ \cup {AttemptOf(w)}]
    BY DEF TypeInv, TypeOK, CommitJob, AfterJob, Goto, Procs
<1>2. Current(w) \in Events /\ AttemptOf(w).number = ctx[w].number
    BY <1>1, CurrentRow DEF Working, AttemptOf
<1>3. key \notin Recorded
    <2>1. ~KeyTaken(w)
        BY <1>1 DEF FreshInv, Numbered
    <2> QED
        BY <1>2, <2>1 DEF Recorded, KeyTaken
<1>4. Recorded' = Recorded \cup {key}
    <2>1. ASSUME NEW e \in Events
          PROVE  {<<e, a.number>> : a \in attempts'[e]} =
                     {<<e, a.number>> : a \in attempts[e]}
                     \cup (IF e = Current(w) THEN {key} ELSE {})
        <3>1. CASE e = Current(w)
            <4>1. attempts'[e] = attempts[e] \cup {AttemptOf(w)}
                BY <1>1, <3>1 DEF TypeInv, TypeOK
            <4> QED
                BY <1>2, <3>1, <4>1
        <3>2. CASE e # Current(w)
            <4>1. attempts'[e] = attempts[e]
                BY <1>1, <3>2 DEF TypeInv, TypeOK
            <4> QED
                BY <3>2, <4>1
        <3> QED
            BY <3>1, <3>2
    <2> QED
        BY <1>2, <2>1 DEF Recorded
<1>5. InFlight' = InFlight \ {w} /\ w \in InFlight
    BY <1>1 DEF InFlight, Procs
<1>6. Sending = {}
    BY <1>1 DEF Sending
<1> HIDE DEF key
<1>7. /\ IsFiniteSet(Recorded') /\ Cardinality(Recorded) \in Nat
      /\ Cardinality(Recorded') = Cardinality(Recorded) + 1
    BY <1>3, <1>4, FS_AddElement, FS_CardinalityType DEF CallsInv
<1>8. /\ IsFiniteSet(InFlight') /\ Cardinality(InFlight) \in Nat
      /\ Cardinality(InFlight') = Cardinality(InFlight) - 1
    BY <1>5, FS_RemoveElement, FS_CardinalityType DEF CallsInv
<1>9. calls' = calls /\ faults' = faults
    BY <1>6, NoCall
<1> QED
    BY <1>7, <1>8, <1>9 DEF CallsInv, CallsAreRecorded

\* A fault loses at most the call of its own process.
LEMMA CallsFault ==
    ASSUME TypeInv, CallsInv, NEW w \in Workers, Fault(w)
    PROVE  CallsInv'
<1>1. /\ attempts' = attempts /\ \A q \in Procs \ {w} : pc'[q] = pc[q]
      /\ pc'[w] = "down" /\ w \in Procs
    BY DEF TypeInv, TypeOK, Fault, Crash, Rollback, Stop, Goto, rows, Procs
<1>2. InFlight' = InFlight \ {w}
    BY <1>1 DEF InFlight, Procs
<1>3. /\ IsFiniteSet(InFlight') /\ Cardinality(InFlight) \in Nat
      /\ Cardinality(InFlight') \in Nat
      /\ Cardinality(InFlight') >= Cardinality(InFlight) - 1
    <2>1. IsFiniteSet(InFlight) /\ Cardinality(InFlight) \in Nat
        BY FS_CardinalityType DEF CallsInv
    <2>2. /\ IsFiniteSet(InFlight')
          /\ Cardinality(InFlight') = IF w \in InFlight THEN Cardinality(InFlight) - 1
                                                      ELSE Cardinality(InFlight)
        BY <1>2, <2>1, FS_RemoveElement
    <2>3. Cardinality(InFlight') \in Nat
        BY <2>2, FS_CardinalityType
    <2> QED
        BY <2>1, <2>2, <2>3
<1>4. Recorded' = Recorded /\ Cardinality(Recorded) \in Nat
    BY <1>1, RecordedFrame, FS_CardinalityType DEF CallsInv
<1>5. calls' = calls /\ faults' = faults + 1
    BY DEF Fault
<1> QED
    BY <1>3, <1>4, <1>5 DEF CallsInv, CallsAreRecorded

LEMMA CallsElapse ==
    ASSUME TypeInv, CallsInv, Elapse
    PROVE  CallsInv'
<1>1. Recorded' = Recorded
    <2>1. ASSUME NEW e \in Events
          PROVE  {<<e, a.number>> : a \in attempts'[e]} = {<<e, a.number>> : a \in attempts[e]}
        BY EarlierAttempts
    <2> QED
        BY <2>1 DEF Recorded
<1>2. InFlight' = InFlight /\ calls' = calls /\ faults' = faults
    BY DEF Elapse, InFlight
<1> QED
    BY <1>1, <1>2, CallsFrame

LEMMA CallsStep ==
    ASSUME Deliveries = {}, TypeInv, FreshInv, CallsInv, [NextProgress]_progress_vars
    PROVE  CallsInv'
<1>0. Workers \subseteq Procs /\ Replays \subseteq Procs /\ pc \in [Procs -> PCs]
    BY DEF Procs, Requests, TypeInv, TypeOK
<1>1. CASE UNCHANGED progress_vars
    <2>1. InFlight' = InFlight /\ attempts' = attempts /\ calls' = calls /\ faults' = faults
        BY <1>1 DEF progress_vars, vars, InFlight
    <2> QED
        BY <2>1, RecordedFrame, CallsFrame
<1>2. CASE Elapse
    BY <1>2, CallsElapse
<1>3. ASSUME Regular, UNCHANGED <<attempts, pc>> PROVE CallsInv'
    <2>1. InFlight' = InFlight /\ Sending = {}
        BY <1>3 DEF InFlight, Sending
    <2> QED
        BY <1>3, <2>1, RecordedFrame, NoCall, CallsFrame
<1>4. ASSUME NEW p \in Procs, Regular,
             \/ p \in Workers /\ (Start(p) \/ Stop(p) \/ BeginIteration(p))
             \/ p \in Workers /\ (Recover(p) \/ CommitRecovery(p) \/ Claim(p) \/ CommitClaim(p))
             \/ LoadJob(p) \/ LoadLostJob(p) \/ PrepareInactive(p) \/ RefuseReplay(p)
             \/ RequestReplay(p) \/ LockReplay(p) \/ CommitReplay(p)
      PROVE  CallsInv'
    <2>1. Moves(p) /\ attempts' = attempts /\ pc'[p] \notin InCall
        BY <1>4, OutsideAttempt DEF LoadLostJob, PrepareInactive, RefuseReplay, InCall, Numbered
    <2>2. pc[p] \notin InCall
        BY <1>4 DEF Start, Stop, BeginIteration, Recover, CommitRecovery, Claim, CommitClaim,
                    LoadJob, LoadLostJob, PrepareInactive, RefuseReplay, RequestReplay,
                    LockReplay, CommitReplay, InCall
    <2> QED
        BY <1>4, <2>1, <2>2, CallsQuiet
<1>5. ASSUME NEW p \in Workers, Regular, Prepare(p) \/ RecordAttempt(p) \/ UpdateJob(p)
      PROVE  CallsInv'
    <2>1. /\ Moves(p) /\ attempts' = attempts
          /\ pc'[p] \in InCall <=> pc[p] \in InCall
        <3>1. CASE Prepare(p)
            BY <1>0, <3>1 DEF Prepare, Goto, Moves, rows, InCall
        <3>2. CASE RecordAttempt(p)
            BY <1>0, <3>2 DEF RecordAttempt, Goto, Moves, rows, InCall
        <3>3. CASE UpdateJob(p)
            BY <1>0, <3>3 DEF UpdateJob, Goto, Moves, rows, InCall
        <3> QED
            BY <1>5, <3>1, <3>2, <3>3
    <2> QED
        BY <1>0, <1>5, <2>1, CallsQuiet
<1>6. ASSUME NEW w \in Workers, Regular, Send(w) PROVE CallsInv'
    BY <1>6, CallsSend
<1>7. ASSUME NEW w \in Workers, Regular, CommitJob(w) PROVE CallsInv'
    BY <1>7, CallsCommit
<1>8. ASSUME NEW w \in Workers, RecordDuplicate(w) PROVE FALSE
    BY <1>8 DEF RecordDuplicate, FreshInv, Numbered
<1>9. ASSUME NEW w \in Workers, Fault(w) PROVE CallsInv'
    BY <1>9, CallsFault
<1>10. ASSUME NEW w \in Workers, Restart(w) \/ Poll(w) \/ Work(w) PROVE CallsInv'
    BY <1>0, <1>4, <1>5, <1>6, <1>7, <1>8, <1>10 DEF Restart, Poll, Work, Iterate, Deliver
<1>11. CASE Operate
    BY <1>0, <1>3, <1>4, <1>11 DEF Operate, Replay, SetActive, CreateEvent, rows
<1>12. CASE Time
    BY <1>2, <1>3, <1>12 DEF Time, Tick, rows
<1> QED
    BY <1>1, <1>9, <1>10, <1>11, <1>12 DEF NextProgress

\* Where iterations are timely and no manual delivery competes, every HTTP call
\* is recorded by its transaction, except those of the processes killed between
\* the call and the commit: no constraint, no lock and no refused job costs a
\* record (delivery_service.py:111-148, delivery_job_execution_service.py:60-84).
THEOREM LostCallsNeedFaults ==
    ASSUME Timely, Deliveries = {}
    PROVE  ProgressSpec => []CallsAreRecorded
<1> DEFINE Inv == CoreInv /\ FreshInv /\ CallsInv
<1>1. InitProgress => Inv
    BY CoreInvInit, FreshInit, CallsInit DEF InitProgress
<1>2. Inv /\ [NextProgress]_progress_vars => Inv'
    <2> SUFFICES ASSUME Inv, [NextProgress]_progress_vars PROVE Inv'
        OBVIOUS
    <2>1. CoreInv'
        BY CoreInvStep
    <2>2. FreshInv'
        BY ElapseFresh, FreshStep, ProgressIsCore DEF CoreInv, BaseInv
    <2>3. CallsInv'
        BY CallsStep DEF CoreInv, BaseInv
    <2> QED
        BY <2>1, <2>2, <2>3
<1>3. Inv => CallsAreRecorded
    BY DEF CallsInv
<1> QED
    BY <1>1, <1>2, <1>3, PTL DEF ProgressSpec
=============================================================================
