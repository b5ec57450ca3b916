------------------------- MODULE WebhookClaimProofs -------------------------
(***************************************************************************)
(* What timely iterations give the core and its operational summary: a     *)
(* claimed job belongs to one live worker until that worker completes it,   *)
(* for any number of workers, events and settings.                         *)
(***************************************************************************)
EXTENDS OperationalSummary, WebhookDeliveryProofs

Claimed(w) == Range(ctx[w].batch)

\* Where a worker has claimed nothing.
Searching == {"down", "idle", "recover", "commit_recovery", "claim"}

\* The iteration of w is younger than the stale timeout.
YoungIteration(w) ==
    pc[w] \notin {"down", "idle"} =>
        ctx[w].at <= now /\ now < ctx[w].at + StaleTimeout

\* A batch names no job twice and is empty before the claim.
BatchOK(w) ==
    /\ IsInjective(ctx[w].batch)
    /\ pc[w] \in Searching => ctx[w].batch = <<>>

\* The rows w has locked are still as its WHERE clause selected them.
AsSelected(w) ==
    \A e \in Events : holder[e] = w =>
        /\ pc[w] = "commit_recovery" => jobs[e].updated_at <= ctx[w].at - StaleTimeout
        /\ pc[w] = "commit_claim" => jobs[e].next_attempt_at <= ctx[w].at

\* The jobs of a batch are locked until the claim commits and bear its mark
\* from then on.
Marked(w, e) ==
    IF pc[w] = "commit_claim" THEN holder[e] = w
    ELSE jobs[e].status = "processing" /\ jobs[e].updated_at = ctx[w].at

WorkerOK(w) ==
    /\ YoungIteration(w) /\ BatchOK(w) /\ AsSelected(w)
    /\ \A e \in Claimed(w) : Marked(w, e)

ClaimInv ==
    \A w \in Workers :
        /\ WorkerOK(w)
        /\ \A v \in Workers \ {w} : Claimed(v) \cap Claimed(w) = {}

-----------------------------------------------------------------------------
LEMMA ClaimInit == Init => ClaimInv
<1> SUFFICES ASSUME Init PROVE ClaimInv
    OBVIOUS
<1>1. \A w \in Workers : pc[w] = "down" /\ ctx[w].batch = <<>>
    BY DEF Init, Procs, NoContext
<1>2. \A w \in Workers : Claimed(w) = {}
    BY <1>1 DEF Claimed, Range
<1>3. IsInjective(<<>>)
    BY DEF IsInjective
<1> QED
    BY <1>1, <1>2, <1>3
    DEF ClaimInv, WorkerOK, YoungIteration, BatchOK, AsSelected, Searching

\* The types the comparisons need.
LEMMA ClaimTypes ==
    ASSUME TypeInv, NEW w \in Workers
    PROVE  /\ w \in Procs /\ pc[w] \in PCs /\ ctx[w] \in Context
           /\ now \in Nat /\ ctx[w].at \in Nat /\ StaleTimeout \in Nat \ {0}
           /\ ctx[w].batch \in Seq(Events) /\ Claimed(w) \subseteq Events
           /\ \A e \in Claimed(w) : Exists(e) /\ jobs[e] \in JobRow
<1>1. w \in Procs /\ pc[w] \in PCs /\ ctx[w] \in Context /\ now \in Nat
    BY SettingsAssumption DEF TypeInv, TypeOK, Procs, Instants
<1>2. ctx[w].at \in Nat /\ ctx[w].batch \in Seq(Events)
    BY <1>1, SettingsAssumption DEF Context, Instants
<1>3. \A i \in DOMAIN ctx[w].batch : ctx[w].batch[i] \in Events /\ Exists(ctx[w].batch[i])
    BY <1>1, <1>2 DEF TypeInv, LocalsOK
<1>4. \A e \in Events : Exists(e) => jobs[e] \in JobRow
    BY DEF TypeInv, TypeOK, Exists
<1> QED
    BY <1>1, <1>2, <1>3, <1>4, SettingsAssumption DEF Claimed, Range

\* No other transaction that is about to write has locked a claimed row.
LEMMA ClaimedRowIsFree ==
    ASSUME TypeInv, LockInv, ClaimInv, NEW v \in Workers, NEW e \in Claimed(v),
           NEW p \in Procs \ {v}, p \in Workers \/ pc[p] = "commit_replay"
    PROVE  holder[e] # p
<1> SUFFICES ASSUME holder[e] = p PROVE FALSE
    OBVIOUS
<1>1. e \in Events /\ AsLocked(e, p)
    BY ClaimTypes DEF LockInv
<1>2. jobs[e].status = "processing" /\ jobs[e].updated_at = ctx[v].at
    BY DEF ClaimInv, WorkerOK, Marked
<1>3. v \in Workers /\ now \in Nat /\ ctx[v].at \in Nat /\ StaleTimeout \in Nat
    BY ClaimTypes
<1>4. CASE p \in Workers /\ pc[p] = "commit_recovery"
    <2>1. jobs[e].updated_at <= ctx[p].at - StaleTimeout /\ ctx[p].at <= now
        BY <1>1, <1>4 DEF ClaimInv, WorkerOK, AsSelected, YoungIteration
    <2>2. now < ctx[v].at + StaleTimeout
        <3>1. pc[v] \notin {"down", "idle"}
            <4>1. ctx[v].batch # <<>>
                BY DEF Claimed, Range
            <4> QED
                BY <4>1 DEF ClaimInv, WorkerOK, BatchOK, Searching
        <3> QED
            BY <3>1 DEF ClaimInv, WorkerOK, YoungIteration
    <2>3. ctx[p].at \in Nat
        BY <1>4, ClaimTypes
    <2> QED
        BY <1>2, <1>3, <2>1, <2>2, <2>3
<1>5. CASE p \in Workers /\ pc[p] = "commit_job" /\ e = Current(p)
    <2>1. ctx[p].batch \in Seq(Events) /\ ctx[p].batch # <<>>
        BY <1>5, ClaimTypes DEF TypeInv, LocalsOK, Working
    <2>2. e \in Claimed(p)
        BY <1>5, <2>1 DEF Claimed, Range, Current
    <2> QED
        BY <1>5, <2>2 DEF ClaimInv
<1> QED
    BY <1>1, <1>2, <1>4, <1>5 DEF AsLocked, Terminal

\* A process moves: the claims of the others stay, its own must be shown.
LEMMA ClaimFrame ==
    ASSUME TypeInv, LockInv, ClaimInv, NEW p \in Procs, Moves(p), now' = now,
           \/ holder' = holder
           \/ holder' = Released(p)
           \/ \E S \in SUBSET Events : /\ holder' = Locked(p, S)
                                       /\ \A e \in S : holder[e] = None,
           \A e \in Events : jobs'[e] # jobs[e] =>
               holder[e] = p /\ (p \in Workers \/ pc[p] = "commit_replay"),
           p \in Workers => /\ WorkerOK(p)'
                            /\ \A v \in Workers \ {p} : Claimed(v) \cap Claimed(p)' = {}
    PROVE  ClaimInv'
<1>1. \A e \in Events, v \in Workers \ {p} : holder'[e] = v <=> holder[e] = v
    BY ProcsAssumption DEF Released, Locked, Procs
<1>2. ASSUME NEW v \in Workers \ {p} PROVE WorkerOK(v)'
    <2>1. v \in Procs /\ pc'[v] = pc[v] /\ ctx'[v] = ctx[v] /\ Claimed(v)' = Claimed(v)
        BY DEF Moves, Procs, Claimed
    <2>2. AsSelected(v)'
        <3>1. \A e \in Events : holder[e] = v => jobs'[e] = jobs[e]
            OBVIOUS
        <3> QED
            BY <1>1, <2>1, <3>1 DEF ClaimInv, WorkerOK, AsSelected
    <2>3. ASSUME NEW e \in Claimed(v) PROVE Marked(v, e)'
        <3>1. e \in Events
            BY ClaimTypes
        <3>2. jobs'[e] = jobs[e]
            BY <3>1, ClaimedRowIsFree
        <3> QED
            BY <1>1, <2>1, <3>1, <3>2 DEF ClaimInv, WorkerOK, Marked
    <2>4. YoungIteration(v)' /\ BatchOK(v)'
        BY <2>1 DEF ClaimInv, WorkerOK, YoungIteration, BatchOK
    <2> QED
        BY <2>1, <2>2, <2>3, <2>4 DEF WorkerOK
<1>3. \A v \in Workers \ {p} : Claimed(v)' = Claimed(v)
    BY DEF Moves, Procs, Claimed
<1> QED
    BY <1>2, <1>3 DEF ClaimInv

\* What is left of a batch once its head is done.
LEMMA RestOfBatch ==
    ASSUME NEW b \in Seq(Events), b # <<>>, IsInjective(b)
    PROVE  IsInjective(Tail(b)) /\ Range(Tail(b)) \subseteq Range(b) \ {Head(b)}
<1>1. /\ Len(b) \in Nat /\ Len(b) >= 1 /\ DOMAIN b = 1..Len(b)
      /\ DOMAIN Tail(b) = 1..(Len(b) - 1) /\ Head(b) = b[1]
      /\ \A i \in DOMAIN Tail(b) : Tail(b)[i] = b[i + 1]
    OBVIOUS
<1>2. \A i \in DOMAIN Tail(b) : i \in Int /\ i # 0 /\ 1 \in DOMAIN b /\ i + 1 \in DOMAIN b
    BY <1>1
<1>3. ASSUME NEW i \in DOMAIN Tail(b), NEW j \in DOMAIN Tail(b), Tail(b)[i] = Tail(b)[j]
      PROVE  i = j
    <2>1. i + 1 = j + 1
        BY <1>1, <1>2, <1>3 DEF IsInjective
    <2> QED
        BY <1>2, <2>1
<1>4. ASSUME NEW i \in DOMAIN Tail(b) PROVE Tail(b)[i] \in Range(b) \ {Head(b)}
    <2>1. i + 1 # 1
        BY <1>2
    <2> QED
        BY <1>1, <1>2, <2>1 DEF IsInjective, Range
<1> QED
    BY <1>3, <1>4 DEF IsInjective, Range

\* A worker that has claimed nothing after its step.
LEMMA ClaimEmpty ==
    ASSUME TypeInv, LockInv, ClaimInv, NEW w \in Workers, Moves(w), now' = now,
           \/ holder' = holder
           \/ holder' = Released(w)
           \/ \E S \in SUBSET Events : /\ holder' = Locked(w, S)
                                       /\ \A e \in S : holder[e] = None,
           \A e \in Events : jobs'[e] # jobs[e] => holder[e] = w,
           ctx'[w].batch = <<>>, YoungIteration(w)', AsSelected(w)'
    PROVE  ClaimInv'
<1>1. Claimed(w)' = {} /\ BatchOK(w)'
    BY DEF Claimed, Range, BatchOK, IsInjective
<1>2. WorkerOK(w)' /\ \A v \in Workers \ {w} : Claimed(v) \cap Claimed(w)' = {}
    BY <1>1 DEF WorkerOK
<1>3. w \in Procs
    BY DEF Procs
<1> QED
    BY <1>2, <1>3, ClaimFrame

\* A process inside the execution of a job: its batch stays.
LEMMA ClaimKept ==
    ASSUME TypeInv, LockInv, ClaimInv, NEW p \in Procs, Moves(p), now' = now, jobs' = jobs,
           \/ holder' = holder
           \/ \E S \in SUBSET Events : /\ holder' = Locked(p, S)
                                       /\ \A e \in S : holder[e] = None,
           p \in Workers =>
               /\ ctx'[p].at = ctx[p].at /\ ctx'[p].batch = ctx[p].batch
               /\ pc[p] \notin Searching \cup {"commit_claim"}
               /\ pc'[p] \notin Searching \cup {"commit_claim"}
    PROVE  ClaimInv'
<1>1. ASSUME p \in Workers
      PROVE  WorkerOK(p)' /\ \A v \in Workers \ {p} : Claimed(v) \cap Claimed(p)' = {}
    <2>1. Claimed(p)' = Claimed(p)
        BY <1>1 DEF Claimed
    <2>2. YoungIteration(p)'
        BY <1>1 DEF ClaimInv, WorkerOK, YoungIteration, Searching
    <2>3. BatchOK(p)' /\ AsSelected(p)'
        BY <1>1 DEF ClaimInv, WorkerOK, BatchOK, AsSelected, Searching
    <2>4. \A e \in Claimed(p) : Marked(p, e)'
        BY <1>1 DEF ClaimInv, WorkerOK, Marked
    <2>5. \A v \in Workers \ {p} : Claimed(v) \cap Claimed(p) = {}
        BY <1>1 DEF ClaimInv
    <2> QED
        BY <2>1, <2>2, <2>3, <2>4, <2>5 DEF WorkerOK
<1> QED
    BY <1>1, ClaimFrame

-----------------------------------------------------------------------------
(* The steps.                                                               *)

\* Recovery: the rows it locks are stale, the ones it releases are its own.
LEMMA ClaimRecover ==
    ASSUME TypeInv, LockInv, ClaimInv, NEW w \in Workers, Recover(w) \/ CommitRecovery(w)
    PROVE  ClaimInv'
<1>0. w \in Procs /\ pc \in [Procs -> PCs] /\ ctx' = ctx /\ now' = now
    BY DEF Procs, TypeInv, TypeOK, Recover, CommitRecovery, env
<1>1. Moves(w) /\ YoungIteration(w)' /\ ctx'[w].batch = <<>>
    <2>1. pc[w] \in Searching /\ pc[w] \notin {"down", "idle"}
        BY DEF Recover, CommitRecovery, Searching
    <2> QED
        BY <1>0, <2>1, OutsideAttempt DEF ClaimInv, WorkerOK, YoungIteration, BatchOK
<1>2. CASE Recover(w)
    <2> DEFINE C == StaleRows(ctx[w].at - StaleTimeout)
    <2>1. PICK list \in Selections(C, "updated_at", RecoveryLimit) :
              holder' = Locked(w, Range(list))
        BY <1>2 DEF Recover
    <2>2. C \in SUBSET Events
        BY DEF StaleRows
    <2>3. Range(list) \subseteq C
        BY <2>2, SelectionIsBatch, SettingsAssumption
    <2>4. \A e \in C : holder[e] = None /\ jobs[e].updated_at <= ctx[w].at - StaleTimeout
        BY DEF StaleRows
    <2> HIDE DEF C
    <2>5. jobs' = jobs /\ pc'[w] = "commit_recovery" /\ pc[w] = "recover"
        BY <1>0, <1>2 DEF Recover, rows, Goto
    <2>6. \A e \in Events : holder[e] # w
        BY <1>0, <2>5 DEF LockInv, AsLocked
    <2>7. \A e \in Events : holder'[e] = w => e \in C
        BY <2>1, <2>3, <2>6 DEF Locked
    <2>8. AsSelected(w)'
        BY <1>0, <2>4, <2>5, <2>7 DEF AsSelected
    <2> QED
        BY <1>0, <1>1, <2>1, <2>2, <2>3, <2>4, <2>5, <2>8, ClaimEmpty
<1>3. CASE CommitRecovery(w)
    <2>1. holder' = Released(w) /\ pc'[w] = "claim"
        BY <1>0, <1>3 DEF CommitRecovery, Goto
    <2>2. \A e \in Events : jobs'[e] # jobs[e] => holder[e] = w
        BY <1>3 DEF CommitRecovery
    <2>3. AsSelected(w)'
        BY <2>1 DEF AsSelected
    <2> QED
        BY <1>0, <1>1, <2>1, <2>2, <2>3, ClaimEmpty
<1> QED
    BY <1>2, <1>3

\* The claim: the rows it selects are pending and free, so nobody has them.
LEMMA ClaimClaim ==
    ASSUME TypeInv, LockInv, ClaimInv, NEW w \in Workers, Claim(w)
    PROVE  ClaimInv'
<1> DEFINE C == DueRows(ctx[w].at)
<1>0. w \in Procs /\ pc \in [Procs -> PCs] /\ ctx \in [Procs -> Context]
    BY DEF Procs, TypeInv, TypeOK
<1>1. PICK list \in Selections(C, "next_attempt_at", ProcessingLimit) :
          holder' = Locked(w, Range(list)) /\ ctx' = [ctx EXCEPT ![w].batch = list]
    BY DEF Claim
<1>2. C \in SUBSET Events
    BY DEF DueRows
<1>3. Range(list) \subseteq C /\ IsInjective(list) /\ list \in Seq(Events)
    <2>1. IsInjective(list)
        BY DEF Selections
    <2> QED
        BY <1>2, <2>1, SelectionIsBatch, SettingsAssumption
<1>4. \A e \in C : /\ holder[e] = None /\ jobs[e].status = "pending"
                   /\ jobs[e].next_attempt_at <= ctx[w].at
    BY DEF DueRows
<1> HIDE DEF C
<1>5. /\ Moves(w) /\ jobs' = jobs /\ now' = now
      /\ pc[w] = "claim" /\ pc'[w] = "commit_claim"
      /\ ctx'[w].at = ctx[w].at /\ ctx'[w].batch = list
    <2>1. Moves(w)
        BY <1>0, OutsideAttempt
    <2>2. UNCHANGED <<jobs, now>> /\ pc[w] = "claim" /\ pc'[w] = "commit_claim"
        BY <1>0 DEF Claim, rows, env, Goto
    <2>3. ctx'[w].at = ctx[w].at /\ ctx'[w].batch = list
        BY <1>0, <1>1 DEF Context
    <2> QED
        BY <2>1, <2>2, <2>3
<1>6. Claimed(w)' = Range(list)
    BY <1>5 DEF Claimed
<1>7. \A e \in Events : holder'[e] = w <=> e \in Range(list)
    <2>1. \A e \in Events : holder[e] # w
        BY <1>0, <1>5 DEF LockInv, AsLocked
    <2> QED
        BY <1>1, <2>1 DEF Locked
<1>8. ASSUME NEW v \in Workers \ {w}, NEW e \in Claimed(v) PROVE e \notin C
    <2>1. Marked(v, e)
        BY DEF ClaimInv, WorkerOK
    <2>2. v # None
        BY ProcsAssumption DEF Procs
    <2> QED
        BY <1>4, <2>1, <2>2 DEF Marked
<1>9. WorkerOK(w)'
    <2>1. YoungIteration(w)'
        BY <1>5 DEF ClaimInv, WorkerOK, YoungIteration
    <2>2. BatchOK(w)'
        BY <1>3, <1>5 DEF BatchOK, Searching
    <2>3. AsSelected(w)'
        BY <1>3, <1>4, <1>5, <1>7 DEF AsSelected
    <2>4. \A e \in Range(list) : Marked(w, e)'
        BY <1>2, <1>3, <1>5, <1>7 DEF Marked
    <2> QED
        BY <1>6, <2>1, <2>2, <2>3, <2>4 DEF WorkerOK
<1>10. \A v \in Workers \ {w} : Claimed(v) \cap Claimed(w)' = {}
    BY <1>3, <1>6, <1>8
<1> QED
    BY <1>0, <1>1, <1>2, <1>3, <1>4, <1>5, <1>9, <1>10, ClaimFrame

\* The claim commits: the batch bears the mark of the iteration.
LEMMA ClaimCommit ==
    ASSUME TypeInv, LockInv, ClaimInv, NEW w \in Workers, CommitClaim(w)
    PROVE  ClaimInv'
<1> DEFINE b == ctx[w].batch
<1>0. w \in Procs /\ pc \in [Procs -> PCs] /\ ctx \in [Procs -> Context] /\ now' = now
    BY DEF Procs, TypeInv, TypeOK, CommitClaim, env
<1>1. /\ Moves(w) /\ pc[w] = "commit_claim" /\ holder' = Released(w)
      /\ \A e \in Events : jobs'[e] = IF holder[e] = w THEN ClaimedRow(jobs[e], ctx[w].at)
                                      ELSE jobs[e]
      /\ pc'[w] = AfterJob(b) /\ ctx'[w] = Remaining(ctx[w], b)
    BY <1>0, OutsideAttempt DEF CommitClaim, Goto
<1>2. AsSelected(w)'
    BY <1>1 DEF AsSelected, AfterJob
<1>3. CASE b = <<>>
    <2>1. ctx'[w].batch = <<>> /\ YoungIteration(w)'
        BY <1>1, <1>3 DEF Remaining, NoContext, AfterJob, YoungIteration
    <2> QED
        BY <1>0, <1>1, <1>2, <2>1, ClaimEmpty
<1>4. CASE b # <<>>
    <2>1. ctx'[w].batch = b /\ ctx'[w].at = ctx[w].at /\ pc'[w] = "load"
        BY <1>1, <1>4 DEF Remaining, NoContext, AfterJob
    <2>2. Claimed(w)' = Claimed(w)
        BY <2>1 DEF Claimed
    <2>3. ASSUME NEW e \in Claimed(w) PROVE Marked(w, e)'
        <3>1. e \in Events /\ jobs[e] \in JobRow /\ holder[e] = w
            BY <1>1, ClaimTypes DEF ClaimInv, WorkerOK, Marked
        <3> QED
            BY <1>1, <2>1, <3>1 DEF Marked, ClaimedRow, JobRow
    <2>4. YoungIteration(w)' /\ BatchOK(w)'
        BY <1>0, <1>1, <2>1 DEF ClaimInv, WorkerOK, YoungIteration, BatchOK, Searching
    <2>5. \A v \in Workers \ {w} : Claimed(v) \cap Claimed(w) = {}
        BY DEF ClaimInv
    <2> HIDE DEF b
    <2>6. WorkerOK(w)' /\ \A v \in Workers \ {w} : Claimed(v) \cap Claimed(w)' = {}
        BY <1>2, <2>2, <2>3, <2>4, <2>5 DEF WorkerOK
    <2> QED
        BY <1>0, <1>1, <2>6, ClaimFrame
<1> QED
    BY <1>3, <1>4

\* A job is completed and leaves the batch of its worker.
LEMMA ClaimComplete ==
    ASSUME TypeInv, LockInv, ClaimInv, NEW w \in Workers, CommitJob(w)
    PROVE  ClaimInv'
<1> DEFINE b == ctx[w].batch
<1> DEFINE rest == Tail(b)
<1>0. w \in Procs /\ pc \in [Procs -> PCs] /\ ctx \in [Procs -> Context] /\ now' = now
    BY DEF Procs, TypeInv, TypeOK, CommitJob, env
<1>1. /\ Moves(w) /\ pc[w] = "commit_job" /\ holder' = Released(w)
      /\ jobs' = [jobs EXCEPT ![Current(w)] = CompletedRow(@, ctx[w])]
      /\ pc'[w] = AfterJob(rest) /\ ctx'[w] = Remaining(ctx[w], rest)
    BY <1>0 DEF CommitJob, Goto, Moves
<1>2. AsSelected(w)'
    BY <1>1 DEF AsSelected, AfterJob
<1>3. /\ b \in Seq(Events) /\ b # <<>> /\ IsInjective(b)
      /\ IsInjective(rest) /\ Range(rest) \subseteq Claimed(w) \ {Current(w)}
    <2>1. b \in Seq(Events) /\ b # <<>> /\ IsInjective(b)
        BY <1>0, <1>1, ClaimTypes
        DEF TypeInv, LocalsOK, Working, ClaimInv, WorkerOK, BatchOK
    <2> QED
        BY <2>1, RestOfBatch DEF Claimed, Current
<1>4. \A e \in Events : jobs'[e] # jobs[e] => e = Current(w) /\ holder[e] = w
    BY <1>0, <1>1 DEF LockInv, TypeInv, TypeOK
<1>5. CASE rest = <<>>
    <2>1. ctx'[w].batch = <<>> /\ YoungIteration(w)'
        BY <1>1, <1>5 DEF Remaining, NoContext, AfterJob, YoungIteration
    <2> QED
        BY <1>0, <1>1, <1>2, <1>4, <2>1, ClaimEmpty
<1>6. CASE rest # <<>>
    <2>1. ctx'[w].batch = rest /\ ctx'[w].at = ctx[w].at /\ pc'[w] = "load"
        BY <1>1, <1>6 DEF Remaining, NoContext, AfterJob
    <2>2. Claimed(w)' = Range(rest)
        BY <2>1 DEF Claimed
    <2>3. ASSUME NEW e \in Range(rest) PROVE Marked(w, e)'
        <3>1. e \in Events /\ e \in Claimed(w) /\ e # Current(w)
            BY <1>3, ClaimTypes
        <3>2. jobs'[e] = jobs[e]
            BY <1>4, <3>1
        <3> QED
            BY <1>1, <2>1, <3>1, <3>2 DEF ClaimInv, WorkerOK, Marked
    <2>4. YoungIteration(w)' /\ BatchOK(w)'
        BY <1>0, <1>1, <1>3, <2>1 DEF ClaimInv, WorkerOK, YoungIteration, BatchOK, Searching
    <2>5. \A v \in Workers \ {w} : Claimed(v) \cap Claimed(w) = {}
        BY DEF ClaimInv
    <2> HIDE DEF b, rest
    <2>6. WorkerOK(w)' /\ \A v \in Workers \ {w} : Claimed(v) \cap Claimed(w)' = {}
        BY <1>2, <1>3, <2>2, <2>3, <2>4, <2>5 DEF WorkerOK
    <2> QED
        BY <1>0, <1>1, <1>4, <2>6, ClaimFrame
<1> QED
    BY <1>5, <1>6

\* The clock passes only while every running iteration stays young.
LEMMA ClaimEnvironment ==
    ASSUME Timely, TypeInv, LockInv, ClaimInv, UNCHANGED <<holder, pc, ctx>>,
           \/ UNCHANGED <<now, jobs>>
           \/ Tick
           \/ \E e \in Events : CreateEvent(e)
    PROVE  ClaimInv'
<1>1. \A w \in Workers : YoungIteration(w)'
    <2>1. CASE now' = now
        BY <2>1 DEF ClaimInv, WorkerOK, YoungIteration
    <2>2. CASE Tick
        <3>1. \A w \in Workers : ctx[w].at \in Nat /\ now \in Nat
            BY ClaimTypes
        <3> QED
            BY <2>2, <3>1 DEF Tick, ClaimInv, WorkerOK, YoungIteration
    <2> QED
        BY <2>1, <2>2 DEF CreateEvent, env
<1>2. \A e \in Events : Exists(e) => jobs'[e] = jobs[e]
    BY DEF Tick, CreateEvent, rows, Exists, TypeInv, TypeOK
<1>3. \A w \in Workers : Claimed(w)' = Claimed(w) /\ BatchOK(w)'
    BY DEF Claimed, ClaimInv, WorkerOK, BatchOK
<1>4. ASSUME NEW w \in Workers PROVE AsSelected(w)'
    <2>1. \A e \in Events : holder[e] = w => Exists(e)
        BY ProcsAssumption DEF TypeInv, LockedExist, Procs
    <2> QED
        BY <1>2, <2>1 DEF ClaimInv, WorkerOK, AsSelected
<1>5. ASSUME NEW w \in Workers, NEW e \in Claimed(w) PROVE Marked(w, e)'
    <2>1. e \in Events /\ Exists(e)
        BY ClaimTypes
    <2> QED
        BY <1>2, <2>1 DEF ClaimInv, WorkerOK, Marked
<1> QED
    BY <1>1, <1>3, <1>4, <1>5 DEF ClaimInv, WorkerOK

LEMMA ClaimStep == Timely /\ TypeInv /\ LockInv /\ ClaimInv /\ [Next]_vars => ClaimInv'
<1> SUFFICES ASSUME Timely, TypeInv, LockInv, ClaimInv, [Next]_vars PROVE ClaimInv'
    OBVIOUS
<1>0. /\ Workers \subseteq Procs /\ Deliveries \subseteq Procs /\ Replays \subseteq Procs
      /\ \A p \in Deliveries \cup Replays : p \notin Workers
      /\ pc \in [Procs -> PCs] /\ ctx \in [Procs -> Context]
    BY ProcsAssumption DEF Procs, Requests, TypeInv, TypeOK
<1>1. CASE UNCHANGED vars
    BY <1>1, ClaimEnvironment DEF vars
<1>2. CASE Tick
    BY <1>2, ClaimEnvironment DEF Tick
<1>3. ASSUME NEW x \in Volatile, SetActive(x) PROVE ClaimInv'
    BY <1>3, ClaimEnvironment DEF SetActive, rows
<1>4. ASSUME NEW e \in Events, CreateEvent(e) PROVE ClaimInv'
    BY <1>4, ClaimEnvironment DEF CreateEvent
<1>5. ASSUME NEW w \in Workers, Start(w) \/ Stop(w) \/ BeginIteration(w) PROVE ClaimInv'
    <2>1. Moves(w)
        BY <1>0, <1>5, OutsideAttempt
    <2>2. /\ now' = now /\ holder' = holder /\ jobs' = jobs /\ pc[w] \in Searching
          /\ pc'[w] \in {"idle", "down"} \/ (pc'[w] = "recover" /\ ctx'[w].at = now)
          /\ ctx'[w].batch = ctx[w].batch
        <3>1. UNCHANGED <<now, holder, jobs>> /\ pc[w] \in Searching
            BY <1>5 DEF Start, Stop, BeginIteration, env, rows, Searching
        <3>2. CASE Start(w) \/ Stop(w)
            BY <1>0, <3>1, <3>2 DEF Start, Stop, Goto
        <3>3. CASE BeginIteration(w)
            BY <1>0, <3>1, <3>3 DEF BeginIteration, Goto, Context
        <3> QED
            BY <1>5, <3>1, <3>2, <3>3
    <2>3. ctx[w].batch = <<>>
        BY <2>2 DEF ClaimInv, WorkerOK, BatchOK
    <2>4. YoungIteration(w)' /\ AsSelected(w)'
        BY <2>2, ClaimTypes DEF YoungIteration, AsSelected
    <2> QED
        BY <2>1, <2>2, <2>3, <2>4, ClaimEmpty
<1>6. ASSUME NEW p \in Procs, Rollback(p) PROVE ClaimInv'
    <2>1. /\ Moves(p) /\ now' = now /\ holder' = Released(p) /\ jobs' = jobs
          /\ p \in Workers => pc'[p] = "down"
          /\ ctx'[p].batch = <<>>
        BY <1>0, <1>6, OutsideAttempt DEF Rollback, Goto, env, rows, NoContext
    <2>2. p \in Workers => YoungIteration(p)' /\ AsSelected(p)'
        BY <2>1 DEF YoungIteration, AsSelected
    <2>3. CASE p \in Workers
        BY <2>1, <2>2, <2>3, ClaimEmpty
    <2>4. CASE p \notin Workers
        BY <2>1, <2>4, ClaimFrame
    <2> QED
        BY <2>3, <2>4
<1>7. ASSUME NEW p \in Procs,
             LoadJob(p) \/ Prepare(p) \/ Send(p) \/ RecordAttempt(p) \/ UpdateJob(p)
      PROVE  ClaimInv'
    <2>1. /\ Moves(p) /\ now' = now /\ jobs' = jobs
          /\ ctx'[p].at = ctx[p].at /\ ctx'[p].batch = ctx[p].batch
          /\ pc[p] \notin Searching \cup {"commit_claim"}
          /\ pc'[p] \notin Searching \cup {"commit_claim"}
        BY <1>0, <1>7
        DEF LoadJob, Prepare, Send, RecordAttempt, UpdateJob, Goto, env, rows, Moves,
            Searching, Context
    <2>2. CASE holder' = holder
        BY <2>1, <2>2, ClaimKept
    <2>3. CASE UpdateJob(p)
        <3>1. Current(p) \in Events
            BY <2>3, CurrentRow DEF UpdateJob, Working
        <3>2. \E S \in SUBSET Events : /\ holder' = Locked(p, S)
                                       /\ \A e \in S : holder[e] = None
            BY <2>3, <3>1 DEF UpdateJob
        <3> QED
            BY <2>1, <3>2, ClaimKept
    <2> QED
        BY <1>7, <2>2, <2>3 DEF LoadJob, Prepare, Send, RecordAttempt
<1>8. ASSUME NEW d \in Deliveries, RequestDelivery(d) \/ CommitDelivery(d) PROVE ClaimInv'
    <2>1. Moves(d) /\ now' = now /\ jobs' = jobs /\ holder' = holder
        BY <1>0, <1>8 DEF RequestDelivery, CommitDelivery, Goto, Moves, env, rows
    <2> QED
        BY <1>0, <2>1, ClaimKept
<1>9. ASSUME NEW r \in Replays, RequestReplay(r) \/ LockReplay(r) PROVE ClaimInv'
    <2>1. Moves(r) /\ now' = now /\ jobs' = jobs
        BY <1>0, <1>9 DEF RequestReplay, LockReplay, Goto, Moves, env, rows
    <2>2. CASE holder' = holder
        BY <1>0, <2>1, <2>2, ClaimKept
    <2>3. CASE LockReplay(r)
        <3>1. Current(r) \in Events
            BY <1>0, <2>3, CurrentRow DEF LockReplay, Working
        <3>2. \E S \in SUBSET Events : /\ holder' = Locked(r, S)
                                       /\ \A e \in S : holder[e] = None
            BY <2>3, <3>1 DEF LockReplay
        <3> QED
            BY <1>0, <2>1, <3>2, ClaimKept
    <2> QED
        BY <1>9, <2>2, <2>3 DEF RequestReplay
<1>10. ASSUME NEW r \in Replays, CommitReplay(r) PROVE ClaimInv'
    <2>1. /\ Moves(r) /\ now' = now /\ holder' = Released(r) /\ pc[r] = "commit_replay"
          /\ jobs' = [jobs EXCEPT ![Current(r)] = ReplayedRow(@, ctx[r].at)]
        BY <1>0, <1>10 DEF CommitReplay, Goto, Moves, env
    <2>2. \A e \in Events : jobs'[e] # jobs[e] => holder[e] = r
        BY <1>0, <2>1 DEF LockInv, TypeInv, TypeOK
    <2> QED
        BY <1>0, <2>1, <2>2, ClaimFrame
<1>11. ASSUME NEW w \in Workers, Iterate(w) PROVE ClaimInv'
    BY <1>0, <1>6, <1>7, <1>11, ClaimRecover, ClaimClaim, ClaimCommit, ClaimComplete
    DEF Iterate, LoadLostJob
<1>12. ASSUME NEW p \in Workers \cup Deliveries, Deliver(p) PROVE ClaimInv'
    BY <1>0, <1>6, <1>7, <1>12 DEF Deliver, PrepareInactive, RecordDuplicate
<1>13. ASSUME NEW r \in Replays, Replay(r) PROVE ClaimInv'
    BY <1>0, <1>6, <1>9, <1>10, <1>13 DEF Replay, RefuseReplay
<1> QED
    BY <1>1, <1>2, <1>3, <1>4, <1>5, <1>6, <1>8, <1>9, <1>11, <1>12, <1>13 DEF Next, Crash

LEMMA ClaimsHold == ASSUME Timely PROVE Spec => [](TypeInv /\ LockInv /\ ClaimInv)
BY Timely, TypeInvInit, TypeInvStep, LockInit, LockStep, ClaimInit, ClaimStep, PTL DEF Spec

-----------------------------------------------------------------------------
(* What it means for workers and for the summary.                           *)

\* While iterations are timely, what a live worker has claimed is its alone
\* (worker_iteration_service.py:93-120, delivery_job_service.py:27-61): the
\* rows are processing under its timestamp and in nobody else's batch, whatever
\* crashes, replays and manual deliveries happen meanwhile.
THEOREM ClaimsAreExclusive == ASSUME Timely PROVE Spec => []ExclusiveClaims
<1>1. TypeInv /\ ClaimInv => ExclusiveClaims
    <2> SUFFICES ASSUME TypeInv, ClaimInv,
                        NEW v \in Workers, pc[v] \notin {"down", "idle", "commit_claim"},
                        NEW i \in DOMAIN ctx[v].batch
                 PROVE  LET e == ctx[v].batch[i]
                        IN  /\ jobs[e].status = "processing"
                            /\ jobs[e].updated_at = ctx[v].at
                            /\ \A w \in Workers \ {v} : e \notin Range(ctx[w].batch)
        BY DEF ExclusiveClaims
    <2>1. ctx[v].batch[i] \in Claimed(v)
        BY ClaimTypes DEF Claimed, Range
    <2> QED
        BY <2>1 DEF ClaimInv, WorkerOK, Marked, Claimed
<1> QED
    BY <1>1, ClaimsHold, PTL

\* While iterations are timely, the summary's stale count names no job that a
\* live worker is working on (operations_service.py:151).
THEOREM StaleCountIsNoFalseAlarm == ASSUME Timely PROVE Spec => []StaleIsAbandoned
<1>1. TypeInv /\ LockInv /\ ClaimInv => StaleIsAbandoned
    <2> SUFFICES ASSUME TypeInv, LockInv, ClaimInv, NEW w \in Workers, NEW e \in Claimed(w),
                        e \in StaleProcessing
                 PROVE  FALSE
        BY DEF StaleIsAbandoned, Claimed
    <2>1. jobs[e].status = "processing" /\ jobs[e].updated_at < now - StaleTimeout
        BY DEF StaleProcessing, InStatus
    <2>2. pc[w] # "commit_claim"
        BY <2>1, ClaimTypes DEF ClaimInv, WorkerOK, Marked, LockInv, AsLocked
    <2>3. ctx[w].batch # <<>>
        BY DEF Claimed, Range
    <2>4. jobs[e].updated_at = ctx[w].at /\ now < ctx[w].at + StaleTimeout
        BY <2>2, <2>3 DEF ClaimInv, WorkerOK, Marked, BatchOK, YoungIteration, Searching
    <2> QED
        BY <2>1, <2>4, ClaimTypes
<1> QED
    BY <1>1, ClaimsHold, PTL

\* While iterations are timely, a summary with no due and no processing job
\* means that no worker has a delivery to make (operations_service.py:146-157).
THEOREM EmptySummaryIsQuiet == ASSUME Timely PROVE Spec => []DrainedIsQuiet
<1>1. TypeInv /\ LockInv /\ ClaimInv /\ DueWhileAwaiting => DrainedIsQuiet
    <2> SUFFICES ASSUME TypeInv, LockInv, ClaimInv, DueWhileAwaiting,
                        NEW w \in Workers, ctx[w].batch # <<>>
                 PROVE  DuePending \cup InStatus("processing") # {}
        BY DEF DrainedIsQuiet
    <2>1. PICK e : e \in Claimed(w)
        <3>1. ctx[w].batch \in Seq(Events)
            BY ClaimTypes
        <3>2. 1 \in DOMAIN ctx[w].batch
            BY <3>1
        <3> QED
            BY <3>2 DEF Claimed, Range
    <2>2. Marked(w, e) /\ e \in Events /\ Exists(e)
        BY <2>1, ClaimTypes DEF ClaimInv, WorkerOK
    <2>3. CASE pc[w] = "commit_claim"
        <3>1. jobs[e].status = "pending" /\ jobs[e].next_attempt_at <= ctx[w].at
            BY <2>2, <2>3, ClaimTypes
            DEF Marked, LockInv, AsLocked, ClaimInv, WorkerOK, AsSelected
        <3>2. ctx[w].at <= now
            BY <2>3 DEF ClaimInv, WorkerOK, YoungIteration
        <3>3. jobs[e].next_attempt_at <= now
            <4>1. jobs[e].next_attempt_at \in Nat
                BY <2>1, <2>2, <3>1, ClaimTypes DEF DueWhileAwaiting, JobRow, Terminal
            <4> QED
                BY <3>1, <3>2, <4>1, ClaimTypes
        <3> QED
            BY <2>2, <3>1, <3>3 DEF DuePending, InStatus
    <2>4. CASE pc[w] # "commit_claim"
        BY <2>2, <2>4 DEF Marked, InStatus
    <2> QED
        BY <2>3, <2>4
<1> QED
    BY <1>1, ClaimsHold, ConstraintNeverFails, PTL
-----------------------------------------------------------------------------
(* The timestamps of a job row while iterations are timely.                 *)

\* A pending row was written no later than it is due, and a completion is
\* decided after its iteration began.
StampsInv ==
    /\ \A e \in Events : Exists(e) /\ jobs[e].status = "pending" =>
           jobs[e].updated_at <= jobs[e].next_attempt_at
    /\ \A w \in Workers : pc[w] \in {"update", "commit_job"} =>
           ctx[w].at <= ctx[w].decision_at

LEMMA StampsInit == Init => StampsInv
BY DEF Init, StampsInv, Exists, Procs

\* Only these transactions write a job row.
LEMMA RowWriters ==
    ASSUME [Next]_vars
    PROVE  \/ jobs' = jobs
           \/ \E e \in Events : CreateEvent(e)
           \/ \E w \in Workers : CommitRecovery(w) \/ CommitClaim(w) \/ CommitJob(w)
           \/ \E r \in Replays : CommitReplay(r)
BY DEF Next, Iterate, Deliver, Replay, Crash, LoadLostJob, PrepareInactive,
       RecordDuplicate, RefuseReplay, Tick, SetActive, vars, rows, Rollback,
       Start, Stop, BeginIteration, Recover, Claim, LoadJob, UpdateJob, Prepare, Send,
       RecordAttempt, RequestDelivery, CommitDelivery, RequestReplay, LockReplay

\* The completion transaction is entered by recording the attempt.
LEMMA CompletionEntered ==
    ASSUME TypeInv, [Next]_vars, NEW w \in Workers, pc'[w] \in {"update", "commit_job"}
    PROVE  \/ pc[w] \in {"update", "commit_job"} /\ ctx'[w] = ctx[w]
           \/ RecordAttempt(w)
<1>0. /\ Workers \subseteq Procs /\ Deliveries \subseteq Procs /\ Replays \subseteq Procs
      /\ pc \in [Procs -> PCs] /\ ctx \in [Procs -> Context]
    BY DEF Procs, Requests, TypeInv, TypeOK
<1>1. CASE UNCHANGED <<pc, ctx>>
    BY <1>1
<1>2. ASSUME NEW p \in Procs, Moves(p), p = w => pc'[p] \notin {"update", "commit_job"}
      PROVE  pc[w] \in {"update", "commit_job"} /\ ctx'[w] = ctx[w]
    BY <1>0, <1>2 DEF Moves
<1>3. ASSUME NEW p \in Procs,
             \/ p \in Workers /\ (Start(p) \/ Stop(p) \/ BeginIteration(p))
             \/ p \in Workers /\ (Recover(p) \/ CommitRecovery(p) \/ Claim(p) \/ CommitClaim(p))
             \/ LoadJob(p) \/ Rollback(p)
             \/ RequestDelivery(p) \/ RequestReplay(p) \/ LockReplay(p) \/ CommitReplay(p)
      PROVE  pc[w] \in {"update", "commit_job"} /\ ctx'[w] = ctx[w]
    <2>1. Moves(p) /\ pc'[p] \notin Numbered
        BY <1>3, OutsideAttempt
    <2> QED
        BY <1>2, <2>1 DEF Numbered
<1>4. ASSUME NEW p \in Procs, Prepare(p) \/ Send(p)
      PROVE  pc[w] \in {"update", "commit_job"} /\ ctx'[w] = ctx[w]
    <2>1. Moves(p) /\ pc'[p] \notin {"update", "commit_job"}
        BY <1>0, <1>4 DEF Prepare, Send, Goto, Moves
    <2> QED
        BY <1>2, <2>1
<1>5. ASSUME NEW p \in Procs, CommitJob(p) \/ CommitDelivery(p)
      PROVE  pc[w] \in {"update", "commit_job"} /\ ctx'[w] = ctx[w]
    <2>1. Moves(p) /\ pc'[p] \notin Numbered
        BY <1>5, CommitsAttempt
    <2> QED
        BY <1>2, <2>1 DEF Numbered
<1>6. ASSUME NEW p \in Procs, UpdateJob(p)
      PROVE  pc[w] \in {"update", "commit_job"} /\ ctx'[w] = ctx[w]
    BY <1>0, <1>6 DEF UpdateJob, Goto
<1>7. ASSUME NEW p \in Procs, RecordAttempt(p), p # w
      PROVE  pc[w] \in {"update", "commit_job"} /\ ctx'[w] = ctx[w]
    BY <1>0, <1>7 DEF RecordAttempt, Goto
<1> QED
    BY <1>0, <1>1, <1>3, <1>4, <1>5, <1>6, <1>7
    DEF Next, Iterate, Deliver, Replay, Crash, LoadLostJob, PrepareInactive,
        RecordDuplicate, RefuseReplay, Tick, SetActive, CreateEvent, vars

\* Recovery, claim and completion stamp a row no earlier than it was stamped.
LEMMA StampedForward ==
    ASSUME TypeInv, LockInv, ClaimInv, DueWhileAwaiting, StampsInv, NEW w \in Workers,
           CommitRecovery(w) \/ CommitClaim(w) \/ CommitJob(w),
           NEW e \in Events, Exists(e)
    PROVE  jobs[e].updated_at <= jobs'[e].updated_at
<1>1. /\ jobs[e] \in JobRow /\ jobs[e].updated_at \in Nat
      /\ w \in Procs /\ ctx[w].at \in Nat /\ StaleTimeout \in Nat
    <2>1. jobs[e] \in JobRow
        BY DEF TypeInv, TypeOK, Exists
    <2> QED
        BY <2>1, ClaimTypes, SettingsAssumption DEF JobRow, Instants
<1>2. CASE jobs'[e] = jobs[e]
    BY <1>1, <1>2
<1>3. CASE CommitRecovery(w) /\ jobs'[e] # jobs[e]
    <2>1. /\ holder[e] = w /\ pc[w] = "commit_recovery"
          /\ jobs'[e] = RecoveredRow(jobs[e], ctx[w].at)
        BY <1>3 DEF CommitRecovery
    <2>2. jobs[e].updated_at <= ctx[w].at - StaleTimeout
        BY <2>1 DEF ClaimInv, WorkerOK, AsSelected
    <2>3. jobs'[e].updated_at = ctx[w].at
        BY <1>1, <2>1 DEF RecoveredRow, JobRow
    <2> QED
        BY <1>1, <2>2, <2>3
<1>4. CASE CommitClaim(w) /\ jobs'[e] # jobs[e]
    <2>1. /\ holder[e] = w /\ pc[w] = "commit_claim"
          /\ jobs'[e] = ClaimedRow(jobs[e], ctx[w].at)
        BY <1>4 DEF CommitClaim
    <2>2. jobs[e].status = "pending" /\ jobs[e].next_attempt_at <= ctx[w].at
        BY <1>1, <2>1 DEF LockInv, AsLocked, ClaimInv, WorkerOK, AsSelected
    <2>3. jobs[e].next_attempt_at \in Nat /\ jobs[e].updated_at <= jobs[e].next_attempt_at
        BY <1>1, <2>2 DEF StampsInv, DueWhileAwaiting, Terminal, JobRow
    <2>4. jobs'[e].updated_at = ctx[w].at
        BY <1>1, <2>1 DEF ClaimedRow, JobRow
    <2> QED
        BY <1>1, <2>2, <2>3, <2>4
<1>5. CASE CommitJob(w) /\ jobs'[e] # jobs[e]
    <2>1. /\ pc[w] = "commit_job" /\ e = Current(w) /\ ctx[w].decision_at \in Nat
          /\ jobs'[e] = CompletedRow(jobs[e], ctx[w])
        BY <1>5, WrittenByCompletion DEF CommitJob
    <2>2. e \in Claimed(w)
        <3>1. ctx[w].batch \in Seq(Events) /\ ctx[w].batch # <<>>
            BY <1>1, <2>1, ClaimTypes DEF TypeInv, LocalsOK, Working
        <3> QED
            BY <2>1, <3>1 DEF Claimed, Range, Current
    <2>3. jobs[e].updated_at = ctx[w].at
        BY <2>1, <2>2 DEF ClaimInv, WorkerOK, Marked
    <2>4. ctx[w].at <= ctx[w].decision_at
        BY <2>1 DEF StampsInv
    <2>5. jobs'[e].updated_at = ctx[w].decision_at
        BY <1>1, <2>1 DEF CompletedRow, JobRow
    <2> QED
        BY <2>3, <2>4, <2>5
<1> QED
    BY <1>2, <1>3, <1>4, <1>5

LEMMA StampsStep ==
    TypeInv /\ LockInv /\ ClaimInv /\ StampsInv /\ [Next]_vars => StampsInv'
<1> SUFFICES ASSUME TypeInv, LockInv, ClaimInv, StampsInv, [Next]_vars
             PROVE  StampsInv'
    OBVIOUS
<1>1. ASSUME NEW e \in Events, jobs'[e] = jobs[e], Exists(e)', jobs'[e].status = "pending"
      PROVE  jobs'[e].updated_at <= jobs'[e].next_attempt_at
    BY <1>1 DEF StampsInv, Exists
<1>2. ASSUME NEW d \in Events, CreateEvent(d), NEW e \in Events, jobs'[e] # jobs[e]
      PROVE  jobs'[e].updated_at <= jobs'[e].next_attempt_at
    <2>1. now \in Nat
        BY SettingsAssumption DEF TypeInv, TypeOK, Instants
    <2>2. jobs'[e].updated_at = now /\ jobs'[e].next_attempt_at = now
        BY <1>2 DEF CreateEvent, TypeInv, TypeOK
    <2> QED
        BY <2>1, <2>2
<1>3. ASSUME NEW w \in Workers, CommitRecovery(w) \/ CommitClaim(w),
             NEW e \in Events, jobs'[e] # jobs[e], jobs'[e].status = "pending"
      PROVE  jobs'[e].updated_at <= jobs'[e].next_attempt_at
    <2>1. /\ jobs[e] \in JobRow /\ ctx[w].at \in Nat
          /\ \/ jobs'[e] = RecoveredRow(jobs[e], ctx[w].at)
             \/ jobs'[e] = ClaimedRow(jobs[e], ctx[w].at)
        BY <1>3, StampedByWorker
    <2>2. jobs'[e] # ClaimedRow(jobs[e], ctx[w].at)
        BY <1>3, <2>1 DEF ClaimedRow, JobRow
    <2>3. jobs'[e].updated_at = ctx[w].at /\ jobs'[e].next_attempt_at = ctx[w].at
        BY <2>1, <2>2 DEF RecoveredRow, JobRow
    <2> QED
        BY <2>1, <2>3
<1>4. ASSUME NEW w \in Workers, CommitJob(w),
             NEW e \in Events, jobs'[e] # jobs[e], jobs'[e].status = "pending"
      PROVE  jobs'[e].updated_at <= jobs'[e].next_attempt_at
    <2>1. /\ jobs[e] \in JobRow /\ ctx[w].count \in Nat \ {0} /\ ctx[w].decision_at \in Nat
          /\ jobs'[e] = CompletedRow(jobs[e], ctx[w])
        BY <1>4, WrittenByCompletion
    <2>2. ctx[w].count < MaxAttempts
        BY <1>4, <2>1, SettingsAssumption DEF CompletedRow, Decision, JobRow
    <2>3. RetryDelay[ctx[w].count] \in Nat
        BY <2>1, <2>2, SettingsAssumption
    <2>4. /\ jobs'[e].updated_at = ctx[w].decision_at
          /\ jobs'[e].next_attempt_at = ctx[w].decision_at + RetryDelay[ctx[w].count]
        BY <1>4, <2>1 DEF CompletedRow, Decision, JobRow
    <2> QED
        BY <2>1, <2>3, <2>4
<1>5. ASSUME NEW r \in Replays, CommitReplay(r), NEW e \in Events, jobs'[e] # jobs[e]
      PROVE  jobs'[e].updated_at <= jobs'[e].next_attempt_at
    <2>1. /\ jobs[e] \in JobRow /\ ctx[r].at \in Nat
          /\ jobs'[e] = ReplayedRow(jobs[e], ctx[r].at)
        BY <1>5, WrittenByReplay
    <2>2. jobs'[e].updated_at = ctx[r].at /\ jobs'[e].next_attempt_at = ctx[r].at
        BY <2>1 DEF ReplayedRow, JobRow
    <2> QED
        BY <2>1, <2>2
<1>6. ASSUME NEW e \in Events, Exists(e)', jobs'[e].status = "pending"
      PROVE  jobs'[e].updated_at <= jobs'[e].next_attempt_at
    BY <1>1, <1>2, <1>3, <1>4, <1>5, <1>6, RowWriters
<1>7. ASSUME NEW w \in Workers, pc'[w] \in {"update", "commit_job"}
      PROVE  ctx'[w].at <= ctx'[w].decision_at
    <2>1. CASE pc[w] \in {"update", "commit_job"} /\ ctx'[w] = ctx[w]
        BY <2>1 DEF StampsInv
    <2>2. CASE RecordAttempt(w)
        <3>1. pc[w] = "record" /\ ctx[w].at <= now
            BY <2>2 DEF RecordAttempt, ClaimInv, WorkerOK, YoungIteration
        <3>2. ctx'[w].at = ctx[w].at /\ ctx'[w].decision_at = now
            BY <2>2, ClaimTypes DEF RecordAttempt, TypeInv, TypeOK, Context
        <3> QED
            BY <3>1, <3>2
    <2> QED
        BY <1>7, <2>1, <2>2, CompletionEntered
<1> QED
    BY <1>6, <1>7 DEF StampsInv

\* A step leaves every row in place, and sets its timestamp back only if it is
\* a replay of that row.
LEMMA RowsStampedForward ==
    ASSUME TypeInv, LockInv, ClaimInv, DueWhileAwaiting, StampsInv, [Next]_vars,
           NEW e \in Events, Exists(e)
    PROVE  /\ Exists(e)'
           /\ \/ jobs[e].updated_at <= jobs'[e].updated_at
              \/ \E r \in Replays : CommitReplay(r) /\ Current(r) = e
<1>1. jobs[e] \in JobRow /\ jobs[e].updated_at \in Nat
    <2>1. jobs[e] \in JobRow
        BY DEF TypeInv, TypeOK, Exists
    <2> QED
        BY <2>1, SettingsAssumption DEF JobRow, Instants
<1>2. CASE jobs'[e] = jobs[e]
    BY <1>1, <1>2 DEF Exists
<1>3. ASSUME NEW d \in Events, CreateEvent(d) PROVE jobs'[e] = jobs[e]
    BY <1>3 DEF CreateEvent, TypeInv, TypeOK, Exists
<1>4. ASSUME NEW w \in Workers, CommitRecovery(w) \/ CommitClaim(w) \/ CommitJob(w)
      PROVE  Exists(e)' /\ jobs[e].updated_at <= jobs'[e].updated_at
    <2>1. jobs'[e] = jobs[e] \/ jobs'[e] \in JobRow
        <3>1. ctx[w].at \in Instants
            BY ClaimTypes DEF Context
        <3>2. CASE CommitRecovery(w) \/ CommitClaim(w)
            BY <3>1, <3>2, StampedByWorker, StampedRows
        <3>3. CASE CommitJob(w)
            BY <3>3, WrittenByCompletion, CompletedRows
        <3> QED
            BY <1>4, <3>2, <3>3
    <2> QED
        BY <1>4, <2>1, StampedForward, RowsAssumption DEF Exists
<1>5. ASSUME NEW r \in Replays, CommitReplay(r), jobs'[e] # jobs[e]
      PROVE  Exists(e)' /\ Current(r) = e
    <2>1. /\ Current(r) = e /\ jobs[e] \in JobRow
          /\ jobs'[e] = ReplayedRow(jobs[e], ctx[r].at)
        BY <1>5, WrittenByReplay
    <2>2. ctx[r].at \in Instants
        <3>1. ctx[r] \in Context
            BY DEF TypeInv, TypeOK, Procs, Requests
        <3> QED
            BY <3>1 DEF Context
    <2> QED
        BY <2>1, <2>2, StampedRows, RowsAssumption DEF Exists
<1> QED
    BY <1>2, <1>3, <1>4, <1>5, RowWriters

\* What the core guarantees of its rows while iterations are timely.
RowsInv == TypeInv /\ LockInv /\ ClaimInv /\ DueWhileAwaiting /\ StampsInv

LEMMA RowsInvInit == Init => RowsInv
BY TypeInvInit, LockInit, ClaimInit, DueInit, StampsInit DEF RowsInv

LEMMA RowsInvStep == Timely /\ RowsInv /\ [Next]_vars => RowsInv'
BY TypeInvStep, LockStep, ClaimStep, DueStep, StampsStep DEF RowsInv

\* While iterations are timely, no job row is ever removed, and only a replay of
\* the job sets its updated_at back: recovery, claim and completion stamp it with
\* an instant that is no earlier, whichever of them interleave
\* (delivery_job_recovery_service.py:56-76, delivery_job_service.py:34-57,
\* delivery_job_execution_service.py:78-84).
THEOREM OnlyReplaySetsBack ==
    ASSUME Timely
    PROVE  Spec => [][\A e \in Events : Exists(e) =>
                          /\ Exists(e)'
                          /\ \/ jobs[e].updated_at <= jobs'[e].updated_at
                             \/ \E r \in Replays : CommitReplay(r) /\ Current(r) = e]_vars
<1>1. ASSUME RowsInv, [Next]_vars
      PROVE  [\A e \in Events : Exists(e) =>
                 /\ Exists(e)'
                 /\ \/ jobs[e].updated_at <= jobs'[e].updated_at
                    \/ \E r \in Replays : CommitReplay(r) /\ Current(r) = e]_vars
    BY <1>1, RowsStampedForward DEF RowsInv
<1> QED
    BY <1>1, Timely, RowsInvInit, RowsInvStep, PTL DEF Spec
=============================================================================
