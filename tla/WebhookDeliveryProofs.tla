----------------------- MODULE WebhookDeliveryProofs -----------------------
(***************************************************************************)
(* Theorems about WebhookDelivery that hold however long an iteration      *)
(* takes, for every set of events, workers and requests and every setting: *)
(* type correctness; the numbers of the attempts; and what the row locks   *)
(* and the budget of a cycle are enough for.                               *)
(***************************************************************************)
EXTENDS WebhookDelivery, TLAPS, FiniteSetTheorems, SequenceTheorems

\* Processes that work on the event at the head of their batch.
Working == {"load", "prepare", "send", "record", "update", "commit_job",
            "commit_manual", "lock", "commit_replay"}

\* Processes that have read the number of the attempt they are making.
Numbered == {"send", "record", "update", "commit_job", "commit_manual"}

\* What the locals of a process hold at each statement.
LocalsOK ==
    \A p \in Procs :
        /\ pc[p] \in Working => ctx[p].batch # <<>>
        /\ \A i \in DOMAIN ctx[p].batch : Exists(ctx[p].batch[i])
        /\ p \in Workers /\ pc[p] \in {"prepare"} \cup Numbered =>
               ctx[p].count # 0
        /\ pc[p] \in Numbered => ctx[p].number # 0

\* Only rows that exist are locked.
LockedExist == \A e \in Events : holder[e] # None => Exists(e)

\* Each event with attempts has one with the highest number.
TopAttempt ==
    \A e \in Events : attempts[e] # {} =>
        \E a \in attempts[e] : \A b \in attempts[e] : b.number <= a.number

TypeInv == TypeOK /\ LocalsOK /\ LockedExist /\ TopAttempt

-----------------------------------------------------------------------------
(* The operators the steps are built from.                                  *)

\* A selection lists candidate rows, so it is a sequence of events whose rows
\* exist and are not locked.
LEMMA SelectionIsBatch ==
    ASSUME NEW C \in SUBSET Events, NEW key, NEW limit \in Nat,
           NEW list \in Selections(C, key, limit)
    PROVE  /\ list \in Seq(Events)
           /\ Range(list) \subseteq C
           /\ \A i \in DOMAIN list : list[i] \in C
<1> DEFINE size == IF Cardinality(C) < limit THEN Cardinality(C) ELSE limit
<1>1. Cardinality(C) \in Nat
    BY FS_Subset, FS_CardinalityType, EventsAssumption
<1>2. size \in Nat
    BY <1>1
<1>3. list \in [1..size -> C]
    BY DEF Selections
<1>4. list \in Seq(Events)
    BY <1>2, <1>3, IsASeq
<1> QED
    BY <1>3, <1>4 DEF Range

\* The next attempt number is one above every committed number and is 1 or
\* follows a committed one.
LEMMA NextNumberIsFresh ==
    ASSUME TypeOK, TopAttempt, NEW e \in Events
    PROVE  /\ NextNumber(e) \in Nat \ {0}
           /\ \A a \in attempts[e] : a.number < NextNumber(e)
           /\ \/ NextNumber(e) = 1
              \/ \E a \in attempts[e] : NextNumber(e) = a.number + 1
<1>1. attempts[e] \subseteq AttemptRow
    BY DEF TypeOK
<1>2. CASE attempts[e] = {}
    BY <1>2 DEF NextNumber
<1>3. CASE attempts[e] # {}
    <2> DEFINE IsTop(n) == \A a \in attempts[e] : a.number <= n
    <2> DEFINE top == CHOOSE n \in {a.number : a \in attempts[e]} : IsTop(n)
    <2>1. \E n \in {a.number : a \in attempts[e]} : IsTop(n)
        BY <1>3 DEF TopAttempt
    <2>2. top \in {a.number : a \in attempts[e]} /\ IsTop(top)
        BY <2>1
    <2>3. NextNumber(e) = 1 + top
        BY <1>3 DEF NextNumber
    <2>4. \A a \in attempts[e] : a.number \in Nat \ {0}
        BY <1>1 DEF AttemptRow
    <2> HIDE DEF top, IsTop
    <2>5. PICK b \in attempts[e] : top = b.number
        BY <2>2
    <2>6. top \in Nat \ {0}
        BY <2>4, <2>5
    <2>7. \A a \in attempts[e] : a.number <= top
        BY <2>2 DEF IsTop
    <2> QED
        BY <2>3, <2>4, <2>5, <2>6, <2>7
<1> QED
    BY <1>2, <1>3

\* The row a process works on.
LEMMA CurrentRow ==
    ASSUME TypeInv, NEW p \in Procs, pc[p] \in Working
    PROVE  /\ Current(p) \in Events
           /\ jobs[Current(p)] \in JobRow
           /\ Tail(ctx[p].batch) \in Seq(Events)
           /\ \A i \in DOMAIN Tail(ctx[p].batch) :
                  Tail(ctx[p].batch)[i] \in Events /\ Exists(Tail(ctx[p].batch)[i])
<1> DEFINE b == ctx[p].batch
<1>1. b \in Seq(Events) /\ b # <<>>
    BY DEF TypeInv, TypeOK, LocalsOK, Context
<1>2. 1 \in DOMAIN b /\ Head(b) = b[1]
    BY <1>1
<1>3. Head(b) \in Events /\ Exists(Head(b))
    BY <1>1, <1>2 DEF TypeInv, LocalsOK
<1>4. /\ Tail(b) \in Seq(Events)
      /\ \A i \in DOMAIN Tail(b) : i + 1 \in DOMAIN b /\ Tail(b)[i] = b[i + 1]
    BY <1>1, HeadTailProperties, LenProperties
<1> QED
    BY <1>1, <1>3, <1>4 DEF TypeInv, TypeOK, LocalsOK, Current, Exists

\* The rows that recovery, claim and replay write are rows.
LEMMA StampedRows ==
    ASSUME NEW job \in JobRow, NEW at \in Instants
    PROVE  /\ RecoveredRow(job, at) \in JobRow
           /\ ClaimedRow(job, at) \in JobRow
           /\ ReplayedRow(job, at) \in JobRow
<1>1. at \in Nat
    BY SettingsAssumption DEF Instants
<1> QED
    BY <1>1 DEF RecoveredRow, ClaimedRow, ReplayedRow, JobRow, Statuses

\* The row that a completion writes is a row.
LEMMA CompletedRows ==
    ASSUME NEW job \in JobRow, NEW c \in Context, c.count # 0
    PROVE  CompletedRow(job, c) \in JobRow
<1> DEFINE d == Decision(c.outcome, c.count, c.decision_at)
<1>1. c.count \in Nat \ {0} /\ c.decision_at \in Nat
    BY DEF Context, Instants
<1>2. c.count < MaxAttempts => RetryDelay[c.count] \in Nat
    BY <1>1, SettingsAssumption
<1>3. d.status \in Statuses /\ d.due \in Nat \cup {None}
    BY <1>1, <1>2, SettingsAssumption DEF Decision, Statuses, Terminal
<1> QED
    BY <1>3 DEF CompletedRow, JobRow, Context

-----------------------------------------------------------------------------
(* Type correctness.                                                        *)

LEMMA TypeInvInit == Init => TypeInv
<1> SUFFICES ASSUME Init PROVE TypeInv
    OBVIOUS
<1>1. 0 \in Instants
    BY SettingsAssumption DEF Instants
<1>2. NoContext \in Context /\ <<>> \in Seq(Events)
    BY <1>1 DEF NoContext, Context, Outcomes
<1>3. TypeOK
    BY <1>1, <1>2 DEF Init, TypeOK, PCs
<1> QED
    BY <1>3 DEF Init, TypeInv, LocalsOK, LockedExist, TopAttempt, Working,
                Numbered, NoContext, Exists

\* What is left of a worker's locals when a claim or a job is done.
LEMMA AfterJobOK ==
    ASSUME NEW c \in Context, NEW b \in Seq(Events),
           \A i \in DOMAIN b : b[i] \in Events /\ Exists(b[i])
    PROVE  /\ Remaining(c, b) \in Context
           /\ AfterJob(b) \in PCs
           /\ AfterJob(b) \in Working => Remaining(c, b).batch # <<>>
           /\ \A i \in DOMAIN Remaining(c, b).batch :
                  /\ Remaining(c, b).batch[i] \in Events
                  /\ Exists(Remaining(c, b).batch[i])
           /\ AfterJob(b) \notin {"prepare"} \cup Numbered
<1>1. NoContext \in Context /\ NoContext.batch = <<>> /\ DOMAIN NoContext.batch = {}
    BY SettingsAssumption DEF NoContext, Context, Instants, Outcomes
<1>2. CASE b = <<>>
    BY <1>1, <1>2 DEF Remaining, AfterJob, PCs, Working, Numbered
<1>3. CASE b # <<>>
    <2>1. Remaining(c, b) = [NoContext EXCEPT !.at = c.at, !.batch = b]
        BY <1>3 DEF Remaining
    <2>2. Remaining(c, b) \in Context /\ Remaining(c, b).batch = b
        BY <1>1, <2>1 DEF Context
    <2> QED
        BY <1>3, <2>2 DEF AfterJob, PCs, Working, Numbered
<1> QED
    BY <1>2, <1>3

\* Adding the attempt a process has made.
LEMMA AddAttempt ==
    ASSUME TypeOK, TopAttempt, NEW p \in Procs, ctx[p].number # 0, NEW e \in Events,
           attempts' = [attempts EXCEPT ![e] = @ \cup {AttemptOf(p)}]
    PROVE  attempts' \in [Events -> SUBSET AttemptRow] /\ TopAttempt'
<1>1. AttemptOf(p) \in AttemptRow
    BY DEF TypeOK, Context, AttemptOf, AttemptRow
<1>2. /\ attempts'[e] = attempts[e] \cup {AttemptOf(p)}
      /\ \A d \in Events \ {e} : attempts'[d] = attempts[d]
    BY DEF TypeOK
<1>3. attempts' \in [Events -> SUBSET AttemptRow]
    BY <1>1, <1>2 DEF TypeOK
<1>4. \A d \in Events : \A a \in attempts'[d] : a.number \in Nat
    BY <1>3 DEF AttemptRow
<1>5. \E a \in attempts'[e] : \A b \in attempts'[e] : b.number <= a.number
    <2>1. CASE attempts[e] = {}
        BY <1>2, <1>4, <2>1
    <2>2. CASE attempts[e] # {}
        <3>1. PICK a \in attempts[e] : \A b \in attempts[e] : b.number <= a.number
            BY <2>2 DEF TopAttempt
        <3>2. CASE AttemptOf(p).number <= a.number
            BY <1>2, <3>1, <3>2
        <3>3. CASE ~(AttemptOf(p).number <= a.number)
            BY <1>2, <1>4, <3>1, <3>3
        <3> QED
            BY <3>2, <3>3
    <2> QED
        BY <2>1, <2>2
<1>6. TopAttempt'
    BY <1>2, <1>5 DEF TopAttempt
<1> QED
    BY <1>3, <1>6

\* A step keeps the invariant when rows keep existing and the one process that
\* moves has its locals in order at the statement it moves to.
LEMMA ProcessStep ==
    ASSUME TypeInv, UNCHANGED env,
           jobs' \in [Events -> JobRow \cup {None}],
           \A e \in Events : Exists(e) => jobs'[e] # None,
           attempts' \in [Events -> SUBSET AttemptRow], TopAttempt',
           cycle_start' \in [Events -> Nat],
           holder' \in [Events -> Procs \cup {None}],
           \A e \in Events : holder'[e] # None => Exists(e),
           NEW p \in Procs, NEW label \in PCs, NEW c \in Context,
           Goto(p, label), ctx' = [ctx EXCEPT ![p] = c],
           label \in Working => c.batch # <<>>,
           \A i \in DOMAIN c.batch : c.batch[i] \in Events /\ Exists(c.batch[i]),
           p \in Workers /\ label \in {"prepare"} \cup Numbered => c.count # 0,
           label \in Numbered => c.number # 0
    PROVE  TypeInv'
<1>1. TypeOK'
    BY DEF TypeInv, TypeOK, env, Goto
<1>2. LocalsOK'
    <2>1. \A q \in Procs \ {p} : pc'[q] = pc[q] /\ ctx'[q] = ctx[q]
        BY DEF TypeInv, TypeOK, Goto
    <2>2. pc'[p] = label /\ ctx'[p] = c
        BY DEF TypeInv, TypeOK, Goto
    <2>3. \A q \in Procs : \A i \in DOMAIN ctx[q].batch : ctx[q].batch[i] \in Events
        BY DEF TypeInv, TypeOK, Context
    <2>4. \A e \in Events : Exists(e) => Exists(e)'
        BY DEF Exists
    <2>5. \A q \in Procs : \A i \in DOMAIN ctx'[q].batch :
              ctx'[q].batch[i] \in Events /\ Exists(ctx'[q].batch[i])
        BY <2>1, <2>2, <2>3 DEF TypeInv, LocalsOK
    <2> QED
        BY <2>1, <2>2, <2>4, <2>5 DEF TypeInv, LocalsOK
<1>3. LockedExist'
    BY DEF TypeInv, LockedExist, Exists
<1> QED
    BY <1>1, <1>2, <1>3 DEF TypeInv

\* The same, for a step that writes no row.
LEMMA LocalStep ==
    ASSUME TypeInv, UNCHANGED <<env, rows>>,
           holder' \in [Events -> Procs \cup {None}],
           \A e \in Events : holder'[e] # None => Exists(e),
           NEW p \in Procs, NEW label \in PCs, NEW c \in Context,
           Goto(p, label), ctx' = [ctx EXCEPT ![p] = c],
           label \in Working => c.batch # <<>>,
           \A i \in DOMAIN c.batch : c.batch[i] \in Events /\ Exists(c.batch[i]),
           p \in Workers /\ label \in {"prepare"} \cup Numbered => c.count # 0,
           label \in Numbered => c.number # 0
    PROVE  TypeInv'
<1>1. UNCHANGED env /\ jobs' = jobs /\ attempts' = attempts /\ cycle_start' = cycle_start
    BY DEF rows
<1>2. TopAttempt' /\ \A e \in Events : Exists(e) => jobs'[e] # None
    BY <1>1 DEF TypeInv, TopAttempt, Exists
<1> QED
    BY <1>1, <1>2, ProcessStep DEF TypeInv, TypeOK

\* A rollback leaves nothing behind.
LEMMA RollbackType ==
    ASSUME TypeInv, NEW p \in Procs, Rollback(p)
    PROVE  TypeInv'
<1> DEFINE label == IF p \in Workers THEN "down" ELSE "done"
<1>1. NoContext \in Context /\ DOMAIN NoContext.batch = {}
    BY SettingsAssumption DEF NoContext, Context, Instants, Outcomes
<1>2. label \in PCs /\ label \notin Working /\ label \notin {"prepare"} \cup Numbered
    BY DEF PCs, Working, Numbered
<1>3. /\ holder' \in [Events -> Procs \cup {None}]
      /\ \A e \in Events : holder'[e] # None => Exists(e)
    BY DEF Rollback, Released, TypeInv, TypeOK, LockedExist
<1>4. UNCHANGED <<env, rows>> /\ Goto(p, label) /\ ctx' = [ctx EXCEPT ![p] = NoContext]
    BY DEF Rollback
<1>5. /\ label \in Working => NoContext.batch # <<>>
      /\ \A i \in DOMAIN NoContext.batch :
             NoContext.batch[i] \in Events /\ Exists(NoContext.batch[i])
      /\ p \in Workers /\ label \in {"prepare"} \cup Numbered => NoContext.count # 0
      /\ label \in Numbered => NoContext.number # 0
    BY <1>1, <1>2
<1> HIDE DEF label
<1> QED
    BY <1>1, <1>2, <1>3, <1>4, <1>5, LocalStep

\* Every step of the system keeps the invariant.
LEMMA TypeInvStep == TypeInv /\ [Next]_vars => TypeInv'
<1> SUFFICES ASSUME TypeInv, [Next]_vars PROVE TypeInv'
    OBVIOUS
<1> USE DEF TypeInv
<1>1. TypeOK /\ LocalsOK /\ LockedExist /\ TopAttempt
    OBVIOUS
<1>2. \A p \in Procs : /\ ctx[p] \in Context /\ pc[p] \in PCs
                       /\ \A i \in DOMAIN ctx[p].batch :
                              ctx[p].batch[i] \in Events /\ Exists(ctx[p].batch[i])
    BY DEF TypeOK, LocalsOK, Context
<1> HIDE DEF TypeInv
<1>3. Workers \subseteq Procs /\ Deliveries \subseteq Procs /\ Replays \subseteq Procs
    BY DEF Procs, Requests
<1>4. CASE UNCHANGED vars
    BY <1>4 DEF vars, TypeInv, TypeOK, LocalsOK, LockedExist, TopAttempt, Exists
<1>5. CASE Tick
    <2>1. now' \in Instants
        BY <1>1, <1>5, SettingsAssumption DEF Tick, TypeOK, Instants
    <2> QED
        BY <1>1, <1>5, <2>1
        DEF Tick, rows, TypeInv, TypeOK, LocalsOK, LockedExist, TopAttempt, Exists
<1>6. ASSUME NEW x \in Volatile, SetActive(x) PROVE TypeInv'
    BY <1>1, <1>6
    DEF SetActive, rows, TypeInv, TypeOK, LocalsOK, LockedExist, TopAttempt, Exists
<1>7. ASSUME NEW e \in Events, CreateEvent(e) PROVE TypeInv'
    <2>1. now \in Instants /\ now \in Nat
        BY <1>1 DEF TypeOK, Instants
    <2> DEFINE row == [status |-> "pending", next_attempt_at |-> now,
                       updated_at |-> now, created_at |-> now, attempt_count |-> 0]
    <2>2. row \in JobRow
        BY <2>1 DEF JobRow, Statuses
    <2>3. jobs' = [jobs EXCEPT ![e] = row] /\ jobs[e] = None
        BY <1>7 DEF CreateEvent
    <2> HIDE DEF row
    <2>4. TypeOK'
        BY <1>1, <1>7, <2>2, <2>3 DEF CreateEvent, env, TypeOK
    <2>5. \A d \in Events : Exists(d) => Exists(d)'
        BY <1>1, <2>2, <2>3, RowsAssumption DEF TypeOK, Exists
    <2>6. UNCHANGED <<attempts, holder, pc, ctx>>
        BY <1>7 DEF CreateEvent
    <2>7. LocalsOK'
        BY <1>1, <1>2, <2>5, <2>6 DEF LocalsOK
    <2>8. LockedExist' /\ TopAttempt'
        BY <1>1, <2>5, <2>6 DEF LockedExist, TopAttempt
    <2> QED
        BY <2>4, <2>7, <2>8 DEF TypeInv
<1>8. ASSUME NEW w \in Workers, Start(w) \/ Stop(w) PROVE TypeInv'
    <2>1. PICK label \in {"idle", "down"} : Goto(w, label)
        BY <1>8 DEF Start, Stop
    <2>2. UNCHANGED <<env, rows, holder>> /\ ctx' = [ctx EXCEPT ![w] = ctx[w]]
        <3>1. UNCHANGED <<env, rows, holder, ctx>>
            BY <1>8 DEF Start, Stop
        <3>2. ctx = [ctx EXCEPT ![w] = ctx[w]]
            BY <1>1, <1>3 DEF TypeOK
        <3> QED
            BY <3>1, <3>2
    <2>3. label \in PCs /\ label \notin Working /\ label \notin {"prepare"} \cup Numbered
        BY DEF PCs, Working, Numbered
    <2> QED
        BY <1>1, <1>2, <1>3, <2>1, <2>2, <2>3, LocalStep DEF TypeOK, LockedExist
<1>9. ASSUME NEW w \in Workers, BeginIteration(w) PROVE TypeInv'
    <2> DEFINE c == [ctx[w] EXCEPT !.at = now]
    <2>1. c \in Context /\ c.batch = ctx[w].batch
        BY <1>1, <1>2, <1>3 DEF TypeOK, Context
    <2>2. ctx' = [ctx EXCEPT ![w] = c] /\ Goto(w, "recover") /\ UNCHANGED <<env, rows, holder>>
        BY <1>9 DEF BeginIteration
    <2>3. "recover" \in PCs \ (Working \cup {"prepare"} \cup Numbered)
        BY DEF PCs, Working, Numbered
    <2> HIDE DEF c
    <2> QED
        BY <1>1, <1>2, <1>3, <2>1, <2>2, <2>3, LocalStep DEF TypeOK, LockedExist
<1>10. ASSUME NEW w \in Workers, Recover(w) PROVE TypeInv'
    <2> DEFINE C == StaleRows(ctx[w].at - StaleTimeout)
    <2>1. C \in SUBSET Events /\ \A e \in C : Exists(e)
        BY DEF StaleRows
    <2>2. PICK list \in Selections(C, "updated_at", RecoveryLimit) :
              holder' = Locked(w, Range(list))
        BY <1>10 DEF Recover
    <2> HIDE DEF C
    <2>3. Range(list) \subseteq C
        BY <2>1, SelectionIsBatch, SettingsAssumption
    <2>4. /\ holder' \in [Events -> Procs \cup {None}]
          /\ \A e \in Events : holder'[e] # None => Exists(e)
        BY <1>1, <1>3, <2>1, <2>2, <2>3 DEF Locked, TypeOK, LockedExist
    <2>5. /\ UNCHANGED <<env, rows>> /\ Goto(w, "commit_recovery")
          /\ ctx' = [ctx EXCEPT ![w] = ctx[w]]
        BY <1>1, <1>3, <1>10 DEF Recover, TypeOK
    <2>6. "commit_recovery" \in PCs \ (Working \cup {"prepare"} \cup Numbered)
        BY DEF PCs, Working, Numbered
    <2> QED
        BY <1>2, <1>3, <2>4, <2>5, <2>6, LocalStep
<1>11. ASSUME NEW w \in Workers, CommitRecovery(w) PROVE TypeInv'
    <2>1. /\ jobs' \in [Events -> JobRow \cup {None}]
          /\ \A e \in Events : Exists(e) => jobs'[e] # None
        <3>1. \A e \in Events : Exists(e) =>
                  jobs[e] \in JobRow /\ RecoveredRow(jobs[e], ctx[w].at) \in JobRow
            BY <1>1, <1>2, <1>3, StampedRows DEF Context, TypeOK, Exists
        <3> QED
            BY <1>1, <1>3, <1>11, <3>1, RowsAssumption, ProcsAssumption
            DEF CommitRecovery, LockedExist, Exists, TypeOK
    <2>2. /\ holder' \in [Events -> Procs \cup {None}]
          /\ \A e \in Events : holder'[e] # None => Exists(e)
        BY <1>1, <1>11 DEF CommitRecovery, Released, TypeOK, LockedExist
    <2>3. /\ UNCHANGED env /\ attempts' = attempts /\ cycle_start' = cycle_start
          /\ Goto(w, "claim") /\ ctx' = [ctx EXCEPT ![w] = ctx[w]]
        BY <1>1, <1>3, <1>11 DEF CommitRecovery, TypeOK
    <2>4. "claim" \in PCs \ (Working \cup {"prepare"} \cup Numbered)
        BY DEF PCs, Working, Numbered
    <2>5. TopAttempt'
        BY <1>1, <2>3 DEF TopAttempt
    <2> QED
        BY <1>1, <1>2, <1>3, <2>1, <2>2, <2>3, <2>4, <2>5, ProcessStep DEF TypeOK
<1>12. ASSUME NEW w \in Workers, Claim(w) PROVE TypeInv'
    <2> DEFINE C == DueRows(ctx[w].at)
    <2>1. C \in SUBSET Events /\ \A e \in C : Exists(e)
        BY DEF DueRows
    <2>2. PICK list \in Selections(C, "next_attempt_at", ProcessingLimit) :
              /\ holder' = Locked(w, Range(list))
              /\ ctx' = [ctx EXCEPT ![w].batch = list]
        BY <1>12 DEF Claim
    <2> HIDE DEF C
    <2>3. list \in Seq(Events) /\ Range(list) \subseteq C /\ \A i \in DOMAIN list : list[i] \in C
        BY <2>1, SelectionIsBatch, SettingsAssumption
    <2> DEFINE c == [ctx[w] EXCEPT !.batch = list]
    <2>4. c \in Context /\ c.batch = list
        BY <1>2, <1>3, <2>3 DEF Context
    <2>5. /\ holder' \in [Events -> Procs \cup {None}]
          /\ \A e \in Events : holder'[e] # None => Exists(e)
        BY <1>1, <1>3, <2>1, <2>2, <2>3 DEF Locked, TypeOK, LockedExist
    <2>6. /\ UNCHANGED <<env, rows>> /\ Goto(w, "commit_claim")
          /\ ctx' = [ctx EXCEPT ![w] = c]
        BY <1>12, <2>2 DEF Claim
    <2>7. "commit_claim" \in PCs \ (Working \cup {"prepare"} \cup Numbered)
        BY DEF PCs, Working, Numbered
    <2> HIDE DEF c
    <2> QED
        BY <1>3, <2>1, <2>3, <2>4, <2>5, <2>6, <2>7, LocalStep
<1>13. ASSUME NEW w \in Workers, CommitClaim(w) PROVE TypeInv'
    <2>1. /\ jobs' \in [Events -> JobRow \cup {None}]
          /\ \A e \in Events : Exists(e) => jobs'[e] # None
        <3>1. \A e \in Events : Exists(e) =>
                  jobs[e] \in JobRow /\ ClaimedRow(jobs[e], ctx[w].at) \in JobRow
            BY <1>1, <1>2, <1>3, StampedRows DEF Context, TypeOK, Exists
        <3> QED
            BY <1>1, <1>3, <1>13, <3>1, RowsAssumption, ProcsAssumption
            DEF CommitClaim, LockedExist, Exists, TypeOK
    <2>2. /\ holder' \in [Events -> Procs \cup {None}]
          /\ \A e \in Events : holder'[e] # None => Exists(e)
        BY <1>1, <1>13 DEF CommitClaim, Released, TypeOK, LockedExist
    <2> DEFINE b == ctx[w].batch
               c == Remaining(ctx[w], b)
               label == AfterJob(b)
    <2>3. /\ UNCHANGED env /\ attempts' = attempts /\ cycle_start' = cycle_start
          /\ Goto(w, label) /\ ctx' = [ctx EXCEPT ![w] = c]
        BY <1>13 DEF CommitClaim
    <2>4. b \in Seq(Events) /\ \A i \in DOMAIN b : b[i] \in Events /\ Exists(b[i])
        BY <1>2, <1>3 DEF Context
    <2>5. /\ c \in Context /\ label \in PCs
          /\ label \in Working => c.batch # <<>>
          /\ \A i \in DOMAIN c.batch : c.batch[i] \in Events /\ Exists(c.batch[i])
          /\ label \notin {"prepare"} \cup Numbered
        BY <1>2, <1>3, <2>4, AfterJobOK
    <2>6. TopAttempt' /\ attempts' \in [Events -> SUBSET AttemptRow] /\ cycle_start' \in [Events -> Nat]
        BY <1>1, <2>3 DEF TopAttempt, TypeOK
    <2>7. w \in Procs
        BY <1>3
    <2> HIDE DEF c, label
    <2>8. /\ w \in Workers /\ label \in {"prepare"} \cup Numbered => c.count # 0
          /\ label \in Numbered => c.number # 0
        BY <2>5
    <2> QED
        BY <2>1, <2>2, <2>3, <2>5, <2>6, <2>7, <2>8, ProcessStep
<1>14. ASSUME NEW w \in Workers, LoadJob(w) PROVE TypeInv'
    <2>1. pc[w] \in Working
        BY <1>14 DEF LoadJob, Working
    <2> DEFINE c == [ctx[w] EXCEPT !.count = jobs[Current(w)].attempt_count + 1]
    <2>2. /\ c \in Context /\ c.batch = ctx[w].batch /\ c.count # 0
          /\ ctx[w].batch # <<>>
        BY <1>1, <1>2, <1>3, <2>1, CurrentRow DEF Context, JobRow, TypeInv, LocalsOK
    <2>3. ctx' = [ctx EXCEPT ![w] = c] /\ Goto(w, "prepare") /\ UNCHANGED <<env, rows, holder>>
        BY <1>14 DEF LoadJob
    <2>4. "prepare" \in PCs \ Numbered
        BY DEF PCs, Numbered
    <2> HIDE DEF c
    <2> QED
        BY <1>1, <1>2, <1>3, <2>2, <2>3, <2>4, LocalStep DEF TypeOK, LockedExist
<1>15. ASSUME NEW w \in Workers, UpdateJob(w) PROVE TypeInv'
    <2>1. pc[w] \in Working /\ pc[w] \in Numbered
        BY <1>15 DEF UpdateJob, Working, Numbered
    <2>2. /\ UNCHANGED <<env, rows>> /\ Goto(w, "commit_job")
          /\ ctx' = [ctx EXCEPT ![w] = ctx[w]]
        BY <1>1, <1>3, <1>15 DEF UpdateJob, TypeOK
    <2>3. /\ holder' \in [Events -> Procs \cup {None}]
          /\ \A e \in Events : holder'[e] # None => Exists(e)
        BY <1>1, <1>3, <1>15, <2>1, CurrentRow, RowsAssumption
        DEF UpdateJob, Locked, TypeOK, LockedExist, Exists
    <2>4. ctx[w].batch # <<>> /\ ctx[w].count # 0 /\ ctx[w].number # 0
        BY <1>1, <1>3, <2>1 DEF LocalsOK
    <2>5. "commit_job" \in PCs
        BY DEF PCs
    <2> QED
        BY <1>2, <1>3, <2>2, <2>3, <2>4, <2>5, LocalStep
<1>16. ASSUME NEW w \in Workers, CommitJob(w) PROVE TypeInv'
    <2> DEFINE e == Current(w)
               b == Tail(ctx[w].batch)
               c == Remaining(ctx[w], b)
               label == AfterJob(b)
    <2>1. pc[w] \in Working /\ pc[w] \in Numbered
        BY <1>16 DEF CommitJob, Working, Numbered
    <2>2. /\ e \in Events /\ jobs[e] \in JobRow /\ b \in Seq(Events)
          /\ \A i \in DOMAIN b : b[i] \in Events /\ Exists(b[i])
        BY <1>3, <2>1, CurrentRow
    <2>3. ctx[w] \in Context /\ ctx[w].count # 0 /\ ctx[w].number # 0
        BY <1>1, <1>2, <1>3, <2>1 DEF LocalsOK
    <2>4. /\ UNCHANGED env /\ cycle_start' = cycle_start /\ holder' = Released(w)
          /\ attempts' = [attempts EXCEPT ![e] = @ \cup {AttemptOf(w)}]
          /\ jobs' = [jobs EXCEPT ![e] = CompletedRow(@, ctx[w])]
          /\ Goto(w, label) /\ ctx' = [ctx EXCEPT ![w] = c]
        BY <1>16 DEF CommitJob
    <2>5. /\ c \in Context /\ label \in PCs
          /\ label \in Working => c.batch # <<>>
          /\ \A i \in DOMAIN c.batch : c.batch[i] \in Events /\ Exists(c.batch[i])
          /\ label \notin {"prepare"} \cup Numbered
        BY <2>2, <2>3, AfterJobOK
    <2>6. CompletedRow(jobs[e], ctx[w]) \in JobRow
        BY <2>2, <2>3, CompletedRows
    <2> HIDE DEF e, b, c, label
    <2>7. /\ jobs' \in [Events -> JobRow \cup {None}]
          /\ \A d \in Events : Exists(d) => jobs'[d] # None
        BY <1>1, <2>2, <2>4, <2>6, RowsAssumption DEF TypeOK, Exists
    <2>8. attempts' \in [Events -> SUBSET AttemptRow] /\ TopAttempt'
        BY <1>1, <1>3, <2>2, <2>3, <2>4, AddAttempt
    <2>9. /\ holder' \in [Events -> Procs \cup {None}]
          /\ \A d \in Events : holder'[d] # None => Exists(d)
        BY <1>1, <2>4 DEF Released, TypeOK, LockedExist
    <2> QED
        BY <1>1, <1>3, <2>4, <2>5, <2>7, <2>8, <2>9, ProcessStep DEF TypeOK
<1>17. ASSUME NEW p \in Workers \cup Deliveries, Prepare(p) PROVE TypeInv'
    <2>1. pc[p] \in Working /\ pc[p] = "prepare"
        BY <1>17 DEF Prepare, Working
    <2> DEFINE c == [ctx[p] EXCEPT !.number = NextNumber(Current(p))]
    <2>2. NextNumber(Current(p)) \in Nat \ {0}
        BY <1>1, <1>3, <2>1, CurrentRow, NextNumberIsFresh
    <2>3. /\ c \in Context /\ c.batch = ctx[p].batch /\ c.number # 0
          /\ c.count = ctx[p].count /\ ctx[p].batch # <<>>
          /\ p \in Workers => ctx[p].count # 0
        BY <1>1, <1>2, <1>3, <2>1, <2>2 DEF Context, LocalsOK
    <2>4. ctx' = [ctx EXCEPT ![p] = c] /\ Goto(p, "send") /\ UNCHANGED <<env, rows, holder>>
        BY <1>17 DEF Prepare
    <2>5. "send" \in PCs
        BY DEF PCs
    <2> HIDE DEF c
    <2> QED
        BY <1>1, <1>2, <1>3, <2>3, <2>4, <2>5, LocalStep DEF TypeOK, LockedExist
<1>18. ASSUME NEW p \in Workers \cup Deliveries, Send(p) \/ RecordAttempt(p) PROVE TypeInv'
    <2>1. pc[p] \in Working /\ pc[p] \in Numbered
        BY <1>18 DEF Send, RecordAttempt, Working, Numbered
    <2>2. /\ ctx[p].batch # <<>> /\ ctx[p].number # 0
          /\ p \in Workers => ctx[p].count # 0
        BY <1>1, <1>3, <2>1 DEF LocalsOK
    <2>3. /\ UNCHANGED <<env, rows, holder>>
          /\ \E label \in {"record", "update", "commit_manual"} : Goto(p, label)
        BY <1>18 DEF Send, RecordAttempt
    <2>4. \E c \in Context :
              /\ ctx' = [ctx EXCEPT ![p] = c]
              /\ c.batch = ctx[p].batch /\ c.number = ctx[p].number
              /\ c.count = ctx[p].count
        <3>1. now \in Instants /\ ctx[p] \in Context
            BY <1>1, <1>2, <1>3 DEF TypeOK
        <3>2. CASE Send(p)
            <4>1. PICK o \in Outcomes :
                      ctx' = [ctx EXCEPT ![p].attempted_at = now, ![p].outcome = o]
                BY <3>2 DEF Send
            <4> DEFINE c == [ctx[p] EXCEPT !.attempted_at = now, !.outcome = o]
            <4>2. c \in Context /\ c.batch = ctx[p].batch
                  /\ c.number = ctx[p].number /\ c.count = ctx[p].count
                BY <3>1 DEF Context
            <4>3. ctx' = [ctx EXCEPT ![p] = c]
                BY <1>1, <1>3, <4>1 DEF TypeOK
            <4> QED
                BY <4>2, <4>3
        <3>3. CASE RecordAttempt(p)
            <4> DEFINE c == [ctx[p] EXCEPT !.decision_at = now]
            <4>1. c \in Context /\ c.batch = ctx[p].batch
                  /\ c.number = ctx[p].number /\ c.count = ctx[p].count
                BY <3>1 DEF Context
            <4>2. ctx' = [ctx EXCEPT ![p] = c]
                BY <3>3 DEF RecordAttempt
            <4> QED
                BY <4>1, <4>2
        <3> QED
            BY <1>18, <3>2, <3>3
    <2>5. {"record", "update", "commit_manual"} \subseteq PCs
        BY DEF PCs
    <2> QED
        BY <1>1, <1>2, <1>3, <2>2, <2>3, <2>4, <2>5, LocalStep DEF TypeOK, LockedExist
<1>19. ASSUME NEW d \in Deliveries, RequestDelivery(d) PROVE TypeInv'
    <2>1. PICK e \in Events : Exists(e) /\ ctx' = [ctx EXCEPT ![d].batch = <<e>>]
        BY <1>19 DEF RequestDelivery
    <2> DEFINE b == <<e>>
               c == [ctx[d] EXCEPT !.batch = b]
    <2>2. /\ b \in Seq(Events) /\ b # <<>>
          /\ \A i \in DOMAIN b : b[i] \in Events /\ Exists(b[i])
        BY <2>1
    <2>3. ctx' = [ctx EXCEPT ![d] = c] /\ Goto(d, "prepare") /\ UNCHANGED <<env, rows, holder>>
        BY <1>19, <2>1 DEF RequestDelivery
    <2> HIDE DEF b
    <2>4. c \in Context /\ c.batch = b
        BY <1>2, <1>3, <2>2 DEF Context
    <2>5. "prepare" \in PCs \ Numbered /\ d \notin Workers
        BY ProcsAssumption DEF PCs, Numbered, Requests
    <2> HIDE DEF c
    <2> QED
        BY <1>1, <1>3, <2>2, <2>3, <2>4, <2>5, LocalStep DEF TypeOK, LockedExist
<1>20. ASSUME NEW d \in Deliveries, CommitDelivery(d) PROVE TypeInv'
    <2> DEFINE e == Current(d)
    <2>1. pc[d] \in Working /\ pc[d] \in Numbered
        BY <1>20 DEF CommitDelivery, Working, Numbered
    <2>2. e \in Events /\ ctx[d].number # 0
        BY <1>1, <1>3, <2>1, CurrentRow DEF LocalsOK
    <2>3. /\ UNCHANGED <<env, jobs, cycle_start, holder>>
          /\ attempts' = [attempts EXCEPT ![e] = @ \cup {AttemptOf(d)}]
          /\ Goto(d, "done") /\ ctx' = [ctx EXCEPT ![d] = NoContext]
        BY <1>20 DEF CommitDelivery
    <2> HIDE DEF e
    <2>4. attempts' \in [Events -> SUBSET AttemptRow] /\ TopAttempt'
        BY <1>1, <1>3, <2>2, <2>3, AddAttempt
    <2>5. /\ NoContext \in Context /\ DOMAIN NoContext.batch = {}
          /\ "done" \in PCs \ (Working \cup {"prepare"} \cup Numbered)
        BY SettingsAssumption
        DEF NoContext, Context, Instants, Outcomes, PCs, Working, Numbered
    <2>6. \A i \in DOMAIN NoContext.batch :
              NoContext.batch[i] \in Events /\ Exists(NoContext.batch[i])
        BY <2>5
    <2> QED
        BY <1>1, <1>3, <2>3, <2>4, <2>5, <2>6, ProcessStep
        DEF TypeOK, LockedExist, Exists
<1>21. ASSUME NEW r \in Replays, RequestReplay(r) PROVE TypeInv'
    <2>1. PICK e \in Events :
              Exists(e) /\ ctx' = [ctx EXCEPT ![r].at = now, ![r].batch = <<e>>]
        BY <1>21 DEF RequestReplay
    <2> DEFINE b == <<e>>
               c == [ctx[r] EXCEPT !.at = now, !.batch = b]
    <2>2. /\ b \in Seq(Events) /\ b # <<>>
          /\ \A i \in DOMAIN b : b[i] \in Events /\ Exists(b[i])
        BY <2>1
    <2>3. ctx' = [ctx EXCEPT ![r] = c] /\ Goto(r, "lock") /\ UNCHANGED <<env, rows, holder>>
        BY <1>1, <1>3, <1>21, <2>1 DEF RequestReplay, TypeOK
    <2> HIDE DEF b
    <2>4. c \in Context /\ c.batch = b
        BY <1>1, <1>2, <1>3, <2>2 DEF Context, TypeOK
    <2>5. "lock" \in PCs \ ({"prepare"} \cup Numbered)
        BY DEF PCs, Numbered
    <2> HIDE DEF c
    <2> QED
        BY <1>1, <1>3, <2>2, <2>3, <2>4, <2>5, LocalStep DEF TypeOK, LockedExist
<1>22. ASSUME NEW r \in Replays, LockReplay(r) PROVE TypeInv'
    <2>1. pc[r] \in Working
        BY <1>22 DEF LockReplay, Working
    <2>2. /\ UNCHANGED <<env, rows>> /\ Goto(r, "commit_replay")
          /\ ctx' = [ctx EXCEPT ![r] = ctx[r]] /\ ctx[r].batch # <<>>
        BY <1>1, <1>3, <1>22, <2>1 DEF LockReplay, TypeOK, LocalsOK
    <2>3. /\ holder' \in [Events -> Procs \cup {None}]
          /\ \A e \in Events : holder'[e] # None => Exists(e)
        BY <1>1, <1>3, <1>22, <2>1, CurrentRow, RowsAssumption
        DEF LockReplay, Locked, TypeOK, LockedExist, Exists
    <2>4. "commit_replay" \in PCs \ ({"prepare"} \cup Numbered)
        BY DEF PCs, Numbered
    <2> QED
        BY <1>2, <1>3, <2>2, <2>3, <2>4, LocalStep
<1>23. ASSUME NEW r \in Replays, CommitReplay(r) PROVE TypeInv'
    <2> DEFINE e == Current(r)
    <2>1. pc[r] \in Working
        BY <1>23 DEF CommitReplay, Working
    <2>2. /\ e \in Events /\ ReplayedRow(jobs[e], ctx[r].at) \in JobRow
          /\ NextNumber(e) - 1 \in Nat
        BY <1>1, <1>2, <1>3, <2>1, CurrentRow, StampedRows, NextNumberIsFresh DEF Context
    <2>3. /\ UNCHANGED env /\ attempts' = attempts /\ holder' = Released(r)
          /\ jobs' = [jobs EXCEPT ![e] = ReplayedRow(@, ctx[r].at)]
          /\ cycle_start' = [cycle_start EXCEPT ![e] = NextNumber(e) - 1]
          /\ Goto(r, "done") /\ ctx' = [ctx EXCEPT ![r] = NoContext]
        BY <1>23 DEF CommitReplay
    <2> HIDE DEF e
    <2>4. /\ jobs' \in [Events -> JobRow \cup {None}]
          /\ \A d \in Events : Exists(d) => jobs'[d] # None
          /\ cycle_start' \in [Events -> Nat] /\ TopAttempt'
        BY <1>1, <2>2, <2>3, RowsAssumption DEF TypeOK, Exists, TopAttempt
    <2>5. /\ holder' \in [Events -> Procs \cup {None}]
          /\ \A d \in Events : holder'[d] # None => Exists(d)
        BY <1>1, <2>3 DEF Released, TypeOK, LockedExist
    <2>6. /\ NoContext \in Context /\ DOMAIN NoContext.batch = {}
          /\ "done" \in PCs \ (Working \cup {"prepare"} \cup Numbered)
        BY SettingsAssumption
        DEF NoContext, Context, Instants, Outcomes, PCs, Working, Numbered
    <2>7. \A i \in DOMAIN NoContext.batch :
              NoContext.batch[i] \in Events /\ Exists(NoContext.batch[i])
        BY <2>6
    <2> QED
        BY <1>1, <1>3, <2>3, <2>4, <2>5, <2>6, <2>7, ProcessStep DEF TypeOK
<1>24. ASSUME NEW p \in Procs, Rollback(p) PROVE TypeInv'
    BY <1>24, RollbackType
<1> QED
    BY <1>3, <1>4, <1>5, <1>6, <1>7, <1>8, <1>9, <1>10, <1>11, <1>12, <1>13, <1>14,
       <1>15, <1>16, <1>17, <1>18, <1>19, <1>20, <1>21, <1>22, <1>23, <1>24
    DEF Next, Iterate, Deliver, Replay, Crash, LoadLostJob, PrepareInactive,
        RecordDuplicate, RefuseReplay

\* Every reachable state is well typed, whatever the settings: in particular
\* the retry decision never leaves a job outside its four statuses and the
\* next number is always defined.
THEOREM TypeCorrect == Spec => []TypeOK
<1>1. TypeInv => TypeOK
    BY DEF TypeInv
<1> QED
    BY <1>1, TypeInvInit, TypeInvStep, PTL DEF Spec

-----------------------------------------------------------------------------
(* Attempt numbers are gapless, unique and chronological although they are  *)
(* read without a lock.  The argument: a number that a process has read     *)
(* follows committed numbers only, and a number that a process has          *)
(* inserted but not committed is nobody else's, because the unique key      *)
(* (event_id, attempt_number) makes a second insert wait or fail.           *)

\* The attempt p is about to record extends the committed numbers.
FollowsCommitted(p) ==
    \A n \in 1..(ctx[p].number - 1) :
        \E a \in attempts[Current(p)] : a.number = n

NumberingInv ==
    /\ GaplessNumbering
    /\ \A p \in Procs : pc[p] \in Numbered => FollowsCommitted(p)
    /\ \A p \in Procs : HasInserted(p) => ~KeyTaken(p) /\ ~KeyPending(p)

\* One process moves; the others keep their locals and their place.
Moves(p) ==
    \A q \in Procs \ {p} : pc'[q] = pc[q] /\ ctx'[q] = ctx[q]

\* A process outside its attempt: nothing to keep but the others' facts.
LEMMA NumberingFrame ==
    ASSUME NumberingInv, attempts' = attempts, NEW p \in Procs, Moves(p),
           pc'[p] \notin Numbered
    PROVE  NumberingInv'
<1>1. \A q \in Procs \ {p} : Current(q)' = Current(q) /\ HasInserted(q)' = HasInserted(q)
    BY DEF Moves, Current, HasInserted
<1>2. ~HasInserted(p)'
    BY DEF HasInserted, Numbered
<1>3. GaplessNumbering'
    BY DEF NumberingInv, GaplessNumbering
<1>4. ASSUME NEW q \in Procs, pc'[q] \in Numbered PROVE FollowsCommitted(q)'
    BY <1>1, <1>4 DEF NumberingInv, FollowsCommitted, Moves
<1>5. ASSUME NEW q \in Procs, HasInserted(q)' PROVE ~KeyTaken(q)' /\ ~KeyPending(q)'
    BY <1>1, <1>2, <1>5 DEF NumberingInv, KeyTaken, KeyPending, Moves
<1> QED
    BY <1>3, <1>4, <1>5 DEF NumberingInv

\* A process goes on with the attempt it has numbered.
LEMMA NumberingKept ==
    ASSUME NumberingInv, attempts' = attempts, NEW p \in Procs, Moves(p),
           pc[p] \in Numbered, HasInserted(p)' = HasInserted(p),
           Current(p)' = Current(p), ctx'[p].number = ctx[p].number
    PROVE  NumberingInv'
<1>1. \A q \in Procs : /\ Current(q)' = Current(q) /\ HasInserted(q)' = HasInserted(q)
                       /\ ctx'[q].number = ctx[q].number
                       /\ pc'[q] \in Numbered => pc[q] \in Numbered
    BY DEF Moves, Current, HasInserted
<1>2. GaplessNumbering'
    BY DEF NumberingInv, GaplessNumbering
<1>3. ASSUME NEW q \in Procs, pc'[q] \in Numbered PROVE FollowsCommitted(q)'
    BY <1>1, <1>3 DEF NumberingInv, FollowsCommitted
<1>4. ASSUME NEW q \in Procs, HasInserted(q)' PROVE ~KeyTaken(q)' /\ ~KeyPending(q)'
    BY <1>1, <1>4 DEF NumberingInv, KeyTaken, KeyPending
<1> QED
    BY <1>2, <1>3, <1>4 DEF NumberingInv

\* A process commits the attempt it has inserted.
LEMMA NumberingCommit ==
    ASSUME TypeInv, NumberingInv, NEW p \in Procs, HasInserted(p), Moves(p),
           pc'[p] \notin Numbered,
           attempts' = [attempts EXCEPT ![Current(p)] = @ \cup {AttemptOf(p)}]
    PROVE  NumberingInv'
<1> DEFINE e == Current(p)
           new == AttemptOf(p)
<1>1. pc[p] \in Working /\ pc[p] \in Numbered
    BY DEF HasInserted, Working, Numbered
<1>2. e \in Events /\ new.number = ctx[p].number /\ new.number \in Nat \ {0}
    BY <1>1, CurrentRow DEF AttemptOf, TypeInv, TypeOK, LocalsOK, Context
<1>3. /\ attempts'[e] = attempts[e] \cup {new}
      /\ \A d \in Events \ {e} : attempts'[d] = attempts[d]
    BY <1>2 DEF TypeInv, TypeOK
<1>4. \A d \in Events : \A a \in attempts[d] : a.number \in Nat \ {0}
    BY DEF TypeInv, TypeOK, AttemptRow
<1>5. /\ \A a \in attempts[e] : a.number # new.number
      /\ \A n \in 1..(new.number - 1) : \E a \in attempts[e] : a.number = n
    BY <1>1, <1>2 DEF NumberingInv, KeyTaken, FollowsCommitted
<1> HIDE DEF e, new
<1>6. GaplessNumbering'
    <2>1. ASSUME NEW d \in Events, NEW a \in attempts'[d], NEW b \in attempts'[d],
                 a.number = b.number
          PROVE  a = b
        BY <1>3, <1>5, <2>1 DEF NumberingInv, GaplessNumbering
    <2>2. ASSUME NEW d \in Events, NEW a \in attempts'[d], NEW n \in 1..a.number
          PROVE  \E b \in attempts'[d] : b.number = n
        <3>1. CASE a \in attempts[d]
            BY <1>3, <3>1 DEF NumberingInv, GaplessNumbering
        <3>2. CASE a \notin attempts[d]
            <4>1. d = e /\ a = new
                BY <1>3, <3>2
            <4>2. n = new.number \/ n \in 1..(new.number - 1)
                BY <1>2, <4>1
            <4> QED
                BY <1>3, <1>5, <4>1, <4>2
        <3> QED
            BY <3>1, <3>2
    <2> QED
        BY <2>1, <2>2 DEF GaplessNumbering
<1>7. \A q \in Procs \ {p} : Current(q)' = Current(q) /\ HasInserted(q)' = HasInserted(q)
    BY DEF Moves, Current, HasInserted
<1>8. ASSUME NEW q \in Procs, pc'[q] \in Numbered PROVE FollowsCommitted(q)'
    <2>1. q # p /\ pc[q] \in Numbered /\ pc[q] \in Working
        BY <1>8 DEF Moves, Numbered, Working
    <2>2. Current(q) \in Events /\ attempts[Current(q)] \subseteq attempts'[Current(q)]
        BY <1>3, <2>1, CurrentRow
    <2> QED
        BY <1>7, <2>1, <2>2 DEF NumberingInv, FollowsCommitted, Moves
<1>9. ASSUME NEW q \in Procs, HasInserted(q)' PROVE ~KeyTaken(q)' /\ ~KeyPending(q)'
    <2>1. q # p /\ HasInserted(q) /\ pc[q] \in Working /\ ~HasInserted(p)'
        BY <1>7, <1>9 DEF HasInserted, Numbered, Working
    <2>2. Current(q) = e => ctx[q].number # new.number
        BY <1>2, <2>1 DEF NumberingInv, KeyPending, e
    <2>3. Current(q) \in Events
        BY <2>1, CurrentRow
    <2>4. ~KeyTaken(q)'
        BY <1>3, <1>7, <2>1, <2>2, <2>3 DEF NumberingInv, KeyTaken, Moves
    <2>5. ~KeyPending(q)'
        BY <1>7, <2>1 DEF NumberingInv, KeyPending, Moves
    <2> QED
        BY <2>4, <2>5
<1> QED
    BY <1>6, <1>8, <1>9 DEF NumberingInv

\* The steps that end outside an attempt and commit none.
LEMMA OutsideAttempt ==
    ASSUME TypeInv, NEW p \in Procs,
           \/ p \in Workers /\ (Start(p) \/ Stop(p) \/ BeginIteration(p))
           \/ p \in Workers /\ (Recover(p) \/ CommitRecovery(p) \/ Claim(p) \/ CommitClaim(p))
           \/ LoadJob(p) \/ Rollback(p)
           \/ RequestDelivery(p) \/ RequestReplay(p) \/ LockReplay(p) \/ CommitReplay(p)
    PROVE  Moves(p) /\ attempts' = attempts /\ pc'[p] \notin Numbered
<1>1. pc \in [Procs -> PCs] /\ ctx \in [Procs -> Context]
    BY DEF TypeInv, TypeOK
<1>2. CASE Start(p) \/ Stop(p) \/ BeginIteration(p)
    BY <1>1, <1>2 DEF Start, Stop, BeginIteration, Goto, Moves, Numbered, rows
<1>3. CASE Recover(p) \/ CommitRecovery(p) \/ Claim(p)
    BY <1>1, <1>3 DEF Recover, CommitRecovery, Claim, Goto, Moves, Numbered, rows
<1>4. CASE CommitClaim(p)
    BY <1>1, <1>4 DEF CommitClaim, AfterJob, Goto, Moves, Numbered
<1>5. CASE LoadJob(p) \/ Rollback(p)
    BY <1>1, <1>5 DEF LoadJob, Rollback, Goto, Moves, Numbered, rows
<1>6. CASE RequestDelivery(p) \/ RequestReplay(p)
    BY <1>1, <1>6 DEF RequestDelivery, RequestReplay, Goto, Moves, Numbered, rows
<1>7. CASE LockReplay(p) \/ CommitReplay(p)
    BY <1>1, <1>7 DEF LockReplay, CommitReplay, Goto, Moves, Numbered, rows
<1> QED
    BY <1>2, <1>3, <1>4, <1>5, <1>6, <1>7

\* The steps inside an attempt that neither number nor insert it.
LEMMA InsideAttempt ==
    ASSUME TypeInv, NEW p \in Procs, Send(p) \/ UpdateJob(p)
    PROVE  /\ Moves(p) /\ attempts' = attempts /\ pc[p] \in Numbered
           /\ HasInserted(p)' = HasInserted(p) /\ Current(p)' = Current(p)
           /\ ctx'[p].number = ctx[p].number
<1>1. pc \in [Procs -> PCs] /\ ctx \in [Procs -> Context]
    BY DEF TypeInv, TypeOK
<1>2. CASE Send(p)
    <2>1. pc'[p] = "record" /\ pc[p] = "send" /\ Moves(p) /\ attempts' = attempts
        BY <1>1, <1>2 DEF Send, Goto, Moves, rows
    <2>2. ctx'[p].batch = ctx[p].batch /\ ctx'[p].number = ctx[p].number
        BY <1>1, <1>2 DEF Send, Context
    <2> QED
        BY <2>1, <2>2 DEF HasInserted, Numbered, Current
<1>3. CASE UpdateJob(p)
    <2>1. /\ pc'[p] = "commit_job" /\ pc[p] = "update" /\ Moves(p)
          /\ attempts' = attempts /\ ctx' = ctx
        BY <1>1, <1>3 DEF UpdateJob, Goto, Moves, rows
    <2> QED
        BY <2>1 DEF HasInserted, Numbered, Current
<1> QED
    BY <1>2, <1>3

\* The steps that commit an attempt.
LEMMA CommitsAttempt ==
    ASSUME TypeInv, NEW p \in Procs, CommitJob(p) \/ CommitDelivery(p)
    PROVE  /\ HasInserted(p) /\ Moves(p) /\ pc'[p] \notin Numbered
           /\ attempts' = [attempts EXCEPT ![Current(p)] = @ \cup {AttemptOf(p)}]
<1>1. pc \in [Procs -> PCs] /\ ctx \in [Procs -> Context]
    BY DEF TypeInv, TypeOK
<1>2. CASE CommitJob(p)
    BY <1>1, <1>2 DEF CommitJob, HasInserted, Moves, Goto, AfterJob, Numbered
<1>3. CASE CommitDelivery(p)
    BY <1>1, <1>3 DEF CommitDelivery, HasInserted, Moves, Goto, Numbered
<1> QED
    BY <1>2, <1>3

LEMMA NumberingInit == Init => NumberingInv
BY DEF Init, NumberingInv, GaplessNumbering, Numbered, HasInserted

LEMMA NumberingStep == TypeInv /\ NumberingInv /\ [Next]_vars => NumberingInv'
<1> SUFFICES ASSUME TypeInv, NumberingInv, [Next]_vars PROVE NumberingInv'
    OBVIOUS
<1>0. /\ Workers \subseteq Procs /\ Deliveries \subseteq Procs /\ Replays \subseteq Procs
      /\ pc \in [Procs -> PCs] /\ ctx \in [Procs -> Context]
    BY DEF Procs, Requests, TypeInv, TypeOK
<1>1. CASE UNCHANGED <<attempts, pc, ctx>>
    BY <1>1 DEF NumberingInv, GaplessNumbering, FollowsCommitted, HasInserted,
                KeyTaken, KeyPending, Current
<1>2. ASSUME NEW p \in Procs,
             \/ p \in Workers /\ (Start(p) \/ Stop(p) \/ BeginIteration(p))
             \/ p \in Workers /\ (Recover(p) \/ CommitRecovery(p) \/ Claim(p) \/ CommitClaim(p))
             \/ LoadJob(p) \/ Rollback(p)
             \/ RequestDelivery(p) \/ RequestReplay(p) \/ LockReplay(p) \/ CommitReplay(p)
      PROVE  NumberingInv'
    BY <1>2, OutsideAttempt, NumberingFrame
<1>3. ASSUME NEW p \in Procs, Send(p) \/ UpdateJob(p) PROVE NumberingInv'
    BY <1>3, InsideAttempt, NumberingKept
<1>4. ASSUME NEW p \in Procs, CommitJob(p) \/ CommitDelivery(p) PROVE NumberingInv'
    BY <1>4, CommitsAttempt, NumberingCommit
<1>5. ASSUME NEW p \in Procs, Prepare(p) PROVE NumberingInv'
    <2>1. /\ pc[p] = "prepare" /\ pc'[p] = "send" /\ Moves(p) /\ attempts' = attempts
          /\ Current(p)' = Current(p) /\ ctx'[p].number = NextNumber(Current(p))
        BY <1>0, <1>5 DEF Prepare, Goto, Moves, rows, Current, Context
    <2>2. Current(p) \in Events
        BY <2>1, CurrentRow DEF Working
    <2>3. FollowsCommitted(p)'
        <3>1. NextNumber(Current(p)) = 1 \/
                  \E a \in attempts[Current(p)] : NextNumber(Current(p)) = a.number + 1
            BY <2>2, NextNumberIsFresh DEF TypeInv
        <3>2. \A a \in attempts[Current(p)] : a.number \in Nat \ {0}
            BY <2>2 DEF TypeInv, TypeOK, AttemptRow
        <3> QED
            BY <2>1, <2>2, <3>1, <3>2 DEF FollowsCommitted, NumberingInv, GaplessNumbering
    <2>4. \A q \in Procs \ {p} : Current(q)' = Current(q) /\ HasInserted(q)' = HasInserted(q)
        BY <2>1 DEF Moves, Current, HasInserted
    <2>5. ~HasInserted(p)'
        BY <2>1 DEF HasInserted
    <2>6. ASSUME NEW q \in Procs, pc'[q] \in Numbered PROVE FollowsCommitted(q)'
        BY <2>1, <2>3, <2>4, <2>6 DEF NumberingInv, FollowsCommitted, Moves
    <2>7. ASSUME NEW q \in Procs, HasInserted(q)' PROVE ~KeyTaken(q)' /\ ~KeyPending(q)'
        BY <2>1, <2>4, <2>5, <2>7 DEF NumberingInv, KeyTaken, KeyPending, Moves
    <2> QED
        BY <2>1, <2>6, <2>7 DEF NumberingInv, GaplessNumbering
<1>6. ASSUME NEW p \in Procs, RecordAttempt(p) PROVE NumberingInv'
    <2>1. /\ pc[p] = "record" /\ Moves(p) /\ attempts' = attempts
          /\ Current(p)' = Current(p) /\ ctx'[p].number = ctx[p].number
          /\ ~KeyPending(p) /\ ~KeyTaken(p)
        BY <1>0, <1>6 DEF RecordAttempt, Goto, Moves, rows, Current, Context
    <2>2. \A q \in Procs : /\ Current(q)' = Current(q) /\ ctx'[q].number = ctx[q].number
                           /\ q # p => HasInserted(q)' = HasInserted(q)
                           /\ pc'[q] \in Numbered => pc[q] \in Numbered
        BY <2>1 DEF Moves, Current, HasInserted, Numbered
    <2>3. ASSUME NEW q \in Procs, pc'[q] \in Numbered PROVE FollowsCommitted(q)'
        BY <2>1, <2>2, <2>3 DEF NumberingInv, FollowsCommitted
    <2>4. ASSUME NEW q \in Procs, HasInserted(q)' PROVE ~KeyTaken(q)' /\ ~KeyPending(q)'
        BY <2>1, <2>2, <2>4 DEF NumberingInv, KeyTaken, KeyPending
    <2> QED
        BY <2>1, <2>3, <2>4 DEF NumberingInv, GaplessNumbering
<1> QED
    BY <1>0, <1>1, <1>2, <1>3, <1>4, <1>5, <1>6
    DEF Next, Iterate, Deliver, Replay, Crash, LoadLostJob, PrepareInactive,
        RecordDuplicate, RefuseReplay, Tick, SetActive, CreateEvent, vars, rows, env

\* The attempt numbers of every event are 1, 2, 3, ... without gap or
\* duplicate (delivery_service.py:72-77 with models.py:163-167), for any number
\* of workers and manual requests, and whatever crashes.
THEOREM NumbersAreGapless == Spec => []GaplessNumbering
<1>1. NumberingInv => GaplessNumbering
    BY DEF NumberingInv
<1> QED
    BY <1>1, TypeInvInit, TypeInvStep, NumberingInit, NumberingStep, PTL DEF Spec

-----------------------------------------------------------------------------
(* Chronology.                                                              *)

\* Processes that have taken attempted_at.
Sent == {"record", "update", "commit_job", "commit_manual"}

\* The attempt p is about to record is younger than every smaller number.
FollowsInTime(p) ==
    /\ ctx[p].attempted_at <= now
    /\ \A a \in attempts[Current(p)] :
           a.number < ctx[p].number => a.attempted_at <= ctx[p].attempted_at

ChronologyInv ==
    /\ Chronology
    /\ \A e \in Events : \A a \in attempts[e] : a.attempted_at <= now
    /\ \A p \in Procs : pc[p] \in Sent => FollowsInTime(p)

LEMMA ChronologyInit == Init => ChronologyInv
BY DEF Init, ChronologyInv, Chronology, Sent

\* A process commits its attempt: no larger number is committed yet, and no
\* other process is about to record a larger one before it.
LEMMA ChronologyCommit ==
    ASSUME TypeInv, NumberingInv, ChronologyInv, NEW p \in Procs,
           HasInserted(p), Moves(p), pc'[p] \notin Sent, now' = now,
           attempts' = [attempts EXCEPT ![Current(p)] = @ \cup {AttemptOf(p)}]
    PROVE  ChronologyInv'
<1> DEFINE e == Current(p)
           new == AttemptOf(p)
<1>1. pc[p] \in Working /\ pc[p] \in Numbered /\ pc[p] \in Sent
    BY DEF HasInserted, Working, Numbered, Sent
<1>2. /\ e \in Events /\ new.number = ctx[p].number /\ new.number \in Nat \ {0}
      /\ new.attempted_at = ctx[p].attempted_at
    BY <1>1, CurrentRow DEF AttemptOf, TypeInv, TypeOK, LocalsOK, Context
<1>3. /\ attempts'[e] = attempts[e] \cup {new}
      /\ \A d \in Events \ {e} : attempts'[d] = attempts[d]
    BY <1>2 DEF TypeInv, TypeOK
<1>4. \A d \in Events : \A a \in attempts[d] : a.number \in Nat \ {0}
    BY DEF TypeInv, TypeOK, AttemptRow
<1>5. \A a \in attempts[e] : a.number # new.number
    BY <1>1, <1>2 DEF NumberingInv, KeyTaken
<1>6. \A a \in attempts[e] : a.number < new.number /\ a.attempted_at <= new.attempted_at
    <2> SUFFICES ASSUME NEW a \in attempts[e]
                 PROVE  a.number < new.number /\ a.attempted_at <= new.attempted_at
        OBVIOUS
    <2>1. ~(new.number \in 1..a.number)
        BY <1>2, <1>5 DEF NumberingInv, GaplessNumbering
    <2>2. a.number < new.number
        BY <1>2, <1>4, <2>1
    <2> QED
        BY <1>1, <1>2, <2>2 DEF ChronologyInv, FollowsInTime
<1>7. new.attempted_at <= now
    BY <1>1, <1>2 DEF ChronologyInv, FollowsInTime
<1> HIDE DEF e, new
<1>8. Chronology'
    BY <1>2, <1>3, <1>4, <1>6 DEF ChronologyInv, Chronology
<1>9. \A d \in Events : \A a \in attempts'[d] : a.attempted_at <= now'
    BY <1>3, <1>7 DEF ChronologyInv
<1>10. ASSUME NEW q \in Procs, pc'[q] \in Sent PROVE FollowsInTime(q)'
    <2>1. /\ q # p /\ pc[q] \in Sent /\ pc[q] \in Numbered /\ pc[q] \in Working
          /\ ctx'[q] = ctx[q] /\ Current(q)' = Current(q)
        BY <1>10 DEF Moves, Sent, Numbered, Working, Current
    <2>2. Current(q) \in Events /\ ctx[q].number \in Nat
        BY <2>1, CurrentRow DEF TypeInv, TypeOK, Context
    <2>3. Current(q) = e => ~(new.number < ctx[q].number)
        <3>1. new.number < ctx[q].number => new.number \in 1..(ctx[q].number - 1)
            BY <1>2, <2>2
        <3> QED
            BY <1>5, <2>1, <3>1 DEF NumberingInv, FollowsCommitted
    <2> QED
        BY <1>3, <2>1, <2>2, <2>3 DEF ChronologyInv, FollowsInTime
<1> QED
    BY <1>8, <1>9, <1>10 DEF ChronologyInv

\* Nothing is committed, and the process that moves is not past its Send or
\* keeps its attempt.
LEMMA ChronologyFrame ==
    ASSUME ChronologyInv, UNCHANGED <<attempts, now>>, NEW p \in Procs, Moves(p),
           \/ pc'[p] \notin Sent
           \/ /\ pc[p] \in Sent /\ Current(p)' = Current(p)
              /\ ctx'[p].number = ctx[p].number
              /\ ctx'[p].attempted_at = ctx[p].attempted_at
    PROVE  ChronologyInv'
<1>1. \A q \in Procs : pc'[q] \in Sent =>
          /\ pc[q] \in Sent /\ Current(q)' = Current(q)
          /\ ctx'[q].number = ctx[q].number
          /\ ctx'[q].attempted_at = ctx[q].attempted_at
    BY DEF Moves, Current
<1>2. \A q \in Procs : pc'[q] \in Sent => FollowsInTime(q)'
    BY <1>1 DEF ChronologyInv, FollowsInTime
<1> QED
    BY <1>2 DEF ChronologyInv, Chronology

LEMMA ChronologyStep ==
    TypeInv /\ NumberingInv /\ ChronologyInv /\ [Next]_vars => ChronologyInv'
<1> SUFFICES ASSUME TypeInv, NumberingInv, ChronologyInv, [Next]_vars
             PROVE  ChronologyInv'
    OBVIOUS
<1>0. /\ Workers \subseteq Procs /\ Deliveries \subseteq Procs /\ Replays \subseteq Procs
      /\ pc \in [Procs -> PCs] /\ ctx \in [Procs -> Context] /\ now \in Int
    BY DEF Procs, Requests, TypeInv, TypeOK, Instants
<1>1. CASE UNCHANGED <<attempts, pc, ctx>> /\ now' \in {now, now + 1}
    <2>1. \A x \in Int : x <= now => x <= now'
        BY <1>0, <1>1
    <2>2. /\ \A e \in Events : \A a \in attempts[e] : a.attempted_at \in Int
          /\ \A p \in Procs : ctx[p].attempted_at \in Int
        BY DEF TypeInv, TypeOK, AttemptRow, Context, Instants
    <2> QED
        BY <1>1, <2>1, <2>2 DEF ChronologyInv, Chronology, FollowsInTime, Current
<1>2. ASSUME NEW p \in Procs,
             \/ p \in Workers /\ (Start(p) \/ Stop(p) \/ BeginIteration(p))
             \/ p \in Workers /\ (Recover(p) \/ CommitRecovery(p) \/ Claim(p) \/ CommitClaim(p))
             \/ LoadJob(p) \/ Rollback(p)
             \/ RequestDelivery(p) \/ RequestReplay(p) \/ LockReplay(p) \/ CommitReplay(p)
      PROVE  ChronologyInv'
    <2>1. now' = now
        BY <1>2 DEF Start, Stop, BeginIteration, Recover, CommitRecovery, Claim, CommitClaim,
                    LoadJob, Rollback, RequestDelivery, RequestReplay, LockReplay,
                    CommitReplay, env
    <2>2. Moves(p) /\ attempts' = attempts /\ pc'[p] \notin Sent
        BY <1>2, OutsideAttempt DEF Numbered, Sent
    <2> QED
        BY <2>1, <2>2, ChronologyFrame
<1>3. ASSUME NEW p \in Procs, Send(p) PROVE ChronologyInv'
    <2>1. /\ Moves(p) /\ attempts' = attempts /\ pc[p] \in Numbered
          /\ Current(p)' = Current(p)
        BY <1>3, InsideAttempt
    <2>2. ctx'[p].attempted_at = now /\ now' = now
        BY <1>0, <1>3 DEF Send, env, Context
    <2>3. Current(p) \in Events
        BY <1>3, CurrentRow DEF Send, Working
    <2>4. \A q \in Procs \ {p} : Current(q)' = Current(q)
        BY <2>1 DEF Moves, Current
    <2>5. \A q \in Procs : pc'[q] \in Sent => FollowsInTime(q)'
        BY <1>0, <2>1, <2>2, <2>3, <2>4 DEF ChronologyInv, FollowsInTime, Moves
    <2> QED
        BY <2>1, <2>2, <2>5 DEF ChronologyInv, Chronology
<1>4. ASSUME NEW p \in Procs, CommitJob(p) \/ CommitDelivery(p) PROVE ChronologyInv'
    <2>1. now' = now
        BY <1>4 DEF CommitJob, CommitDelivery, env
    <2>2. /\ HasInserted(p) /\ Moves(p) /\ pc'[p] \notin Sent
          /\ attempts' = [attempts EXCEPT ![Current(p)] = @ \cup {AttemptOf(p)}]
        BY <1>4, CommitsAttempt DEF Numbered, Sent
    <2> QED
        BY <2>1, <2>2, ChronologyCommit
<1>5. ASSUME NEW p \in Procs, Prepare(p) PROVE ChronologyInv'
    <2>1. /\ pc'[p] = "send" /\ Moves(p) /\ attempts' = attempts /\ now' = now
        BY <1>0, <1>5 DEF Prepare, Goto, Moves, rows, env
    <2> QED
        BY <2>1, ChronologyFrame DEF Sent
<1>6. ASSUME NEW p \in Procs, RecordAttempt(p) \/ UpdateJob(p) PROVE ChronologyInv'
    <2>1. /\ pc[p] \in Sent /\ Moves(p) /\ UNCHANGED <<attempts, now>>
          /\ Current(p)' = Current(p) /\ ctx'[p].number = ctx[p].number
          /\ ctx'[p].attempted_at = ctx[p].attempted_at
        <3>1. pc[p] \in Sent /\ Moves(p) /\ UNCHANGED <<attempts, now>>
            BY <1>0, <1>6 DEF RecordAttempt, UpdateJob, Goto, Moves, rows, env, Sent
        <3>2. CASE RecordAttempt(p)
            BY <1>0, <3>1, <3>2 DEF RecordAttempt, Current, Context
        <3>3. CASE UpdateJob(p)
            BY <1>0, <3>1, <3>3 DEF UpdateJob, Current
        <3> QED
            BY <1>6, <3>1, <3>2, <3>3
    <2> QED
        BY <2>1, ChronologyFrame
<1> QED
    BY <1>0, <1>1, <1>2, <1>3, <1>4, <1>5, <1>6
    DEF Next, Iterate, Deliver, Replay, Crash, LoadLostJob, PrepareInactive,
        RecordDuplicate, RefuseReplay, Tick, SetActive, CreateEvent, vars, rows, env

\* Numbers follow time: an attempt with a later number was never sent earlier
\* (delivery_service.py:93-101), although transactions overlap.
THEOREM NumbersAreChronological == Spec => []Chronology
<1>1. ChronologyInv => Chronology
    BY DEF ChronologyInv
<1> QED
    BY <1>1, TypeInvInit, TypeInvStep, NumberingInit, NumberingStep,
       ChronologyInit, ChronologyStep, PTL DEF Spec

-----------------------------------------------------------------------------
(* The row locks of the jobs, and what they are enough for: a job that      *)
(* waits for a worker always has budget left, even when iterations overlap  *)
(* and completions overwrite each other.                                    *)

Committing == {"commit_recovery", "commit_claim", "commit_job", "commit_replay"}

\* A locked row is as its holder found it.
AsLocked(e, p) ==
    \/ pc[p] = "commit_recovery" /\ jobs[e].status = "processing"
    \/ pc[p] = "commit_claim" /\ jobs[e].status = "pending"
    \/ pc[p] = "commit_job" /\ e = Current(p)
    \/ pc[p] = "commit_replay" /\ e = Current(p) /\ jobs[e].status \in Terminal

LockInv ==
    /\ \A e \in Events, p \in Procs : holder[e] = p => AsLocked(e, p)
    /\ \A p \in Procs : pc[p] \in {"commit_job", "commit_replay"} => holder[Current(p)] = p

LEMMA LockInit == Init => LockInv
BY ProcsAssumption DEF Init, LockInv

\* A process takes no lock, and lets go of those it has if it moves.
LEMMA LockFrame ==
    ASSUME TypeInv, LockInv, NEW p \in Procs, Moves(p), pc'[p] \notin Committing,
           \/ holder' = Released(p)
           \/ holder' = holder /\ pc[p] \notin Committing,
           \A e \in Events : holder[e] \in Procs \ {p} => jobs'[e] = jobs[e]
    PROVE  LockInv'
<1>1. \A e \in Events : holder'[e] = IF holder[e] = p THEN None ELSE holder[e]
    BY DEF TypeInv, TypeOK, Released, LockInv, AsLocked, Committing
<1>2. \A q \in Procs \ {p} : Current(q)' = Current(q) /\ pc'[q] = pc[q]
    BY DEF Moves, Current
<1>3. ASSUME NEW e \in Events, NEW q \in Procs, holder'[e] = q PROVE AsLocked(e, q)'
    <2>1. q # p /\ holder[e] = q
        BY <1>1, <1>3, ProcsAssumption
    <2> QED
        BY <1>2, <2>1 DEF LockInv, AsLocked
<1>4. ASSUME NEW q \in Procs, pc'[q] \in {"commit_job", "commit_replay"}
      PROVE  holder'[Current(q)'] = q
    <2>1. q # p /\ pc[q] \in {"commit_job", "commit_replay"}
        BY <1>2, <1>4 DEF Committing
    <2>2. Current(q) \in Events
        BY <2>1, CurrentRow DEF Working
    <2> QED
        BY <1>1, <1>2, <2>1, <2>2 DEF LockInv
<1> QED
    BY <1>3, <1>4 DEF LockInv

\* A process that holds no lock takes free rows.
LEMMA LockTaken ==
    ASSUME TypeInv, LockInv, jobs' = jobs, NEW p \in Procs, Moves(p),
           pc[p] \notin Committing, NEW S \in SUBSET Events, holder' = Locked(p, S),
           \A e \in S : holder[e] = None /\ AsLocked(e, p)',
           pc'[p] \in {"commit_job", "commit_replay"} => Current(p)' \in S
    PROVE  LockInv'
<1>1. \A e \in Events : holder'[e] = IF e \in S THEN p ELSE holder[e]
    BY DEF Locked
<1>2. \A e \in Events : holder[e] # p
    BY DEF LockInv, AsLocked, Committing
<1>3. \A q \in Procs \ {p} : Current(q)' = Current(q) /\ pc'[q] = pc[q]
    BY DEF Moves, Current
<1>4. ASSUME NEW e \in Events, NEW q \in Procs, holder'[e] = q PROVE AsLocked(e, q)'
    <2>1. CASE e \in S
        BY <1>1, <1>4, <2>1
    <2>2. CASE e \notin S
        BY <1>1, <1>2, <1>3, <1>4, <2>2 DEF LockInv, AsLocked
    <2> QED
        BY <2>1, <2>2
<1>5. ASSUME NEW q \in Procs, pc'[q] \in {"commit_job", "commit_replay"}
      PROVE  holder'[Current(q)'] = q
    <2>1. CASE q = p
        BY <1>1, <1>5, <2>1
    <2>2. CASE q # p
        <3>1. Current(q) \in Events /\ holder[Current(q)] = q
            BY <1>3, <1>5, <2>2, CurrentRow DEF Working, LockInv
        <3> QED
            BY <1>1, <1>3, <2>2, <3>1, ProcsAssumption
    <2> QED
        BY <2>1, <2>2
<1> QED
    BY <1>4, <1>5 DEF LockInv

LEMMA LockStep == TypeInv /\ LockInv /\ [Next]_vars => LockInv'
<1> SUFFICES ASSUME TypeInv, LockInv, [Next]_vars PROVE LockInv'
    OBVIOUS
<1>0. /\ Workers \subseteq Procs /\ Deliveries \subseteq Procs /\ Replays \subseteq Procs
      /\ pc \in [Procs -> PCs] /\ ctx \in [Procs -> Context]
    BY DEF Procs, Requests, TypeInv, TypeOK
<1>1. CASE UNCHANGED <<jobs, holder, pc, ctx>>
    BY <1>1 DEF LockInv, AsLocked, Current
<1>2. ASSUME NEW e \in Events, CreateEvent(e) PROVE LockInv'
    <2>1. /\ UNCHANGED <<holder, pc, ctx>> /\ holder[e] = None
          /\ \A d \in Events \ {e} : jobs'[d] = jobs[d]
        BY <1>2 DEF CreateEvent, TypeInv, TypeOK, LockedExist, Exists
    <2> QED
        BY <2>1, ProcsAssumption DEF LockInv, AsLocked, Current
<1>3. ASSUME NEW w \in Workers, Start(w) \/ Stop(w) \/ BeginIteration(w) \/ LoadJob(w)
      PROVE  LockInv'
    <2>1. Moves(w)
        BY <1>0, <1>3, OutsideAttempt
    <2>2. /\ pc'[w] \notin Committing /\ pc[w] \notin Committing
          /\ holder' = holder /\ jobs' = jobs
        BY <1>0, <1>3 DEF Start, Stop, BeginIteration, LoadJob, Goto, rows, Committing
    <2> QED
        BY <1>0, <2>1, <2>2, LockFrame
<1>4. ASSUME NEW w \in Workers, CommitRecovery(w) \/ CommitClaim(w) PROVE LockInv'
    <2>1. Moves(w)
        BY <1>0, <1>4, OutsideAttempt
    <2>2. pc'[w] \notin Committing /\ holder' = Released(w)
        BY <1>0, <1>4 DEF CommitRecovery, CommitClaim, Goto, AfterJob, Committing
    <2>3. \A e \in Events : holder[e] \in Procs \ {w} => jobs'[e] = jobs[e]
        BY <1>4 DEF CommitRecovery, CommitClaim
    <2> QED
        BY <1>0, <2>1, <2>2, <2>3, LockFrame
<1>5. ASSUME NEW w \in Workers, Recover(w) PROVE LockInv'
    <2> DEFINE C == StaleRows(ctx[w].at - StaleTimeout)
    <2>1. PICK list \in Selections(C, "updated_at", RecoveryLimit) :
              holder' = Locked(w, Range(list))
        BY <1>5 DEF Recover
    <2>2. C \in SUBSET Events
        BY DEF StaleRows
    <2>3. Range(list) \subseteq C
        BY <2>2, SelectionIsBatch, SettingsAssumption
    <2>4. /\ Moves(w) /\ pc[w] \notin Committing /\ pc'[w] = "commit_recovery"
          /\ jobs' = jobs
        BY <1>0, <1>5, OutsideAttempt DEF Recover, Goto, rows, Committing
    <2>5. \A e \in Range(list) : holder[e] = None /\ AsLocked(e, w)'
        BY <2>3, <2>4 DEF StaleRows, AsLocked
    <2> HIDE DEF C
    <2> QED
        BY <1>0, <2>1, <2>2, <2>3, <2>4, <2>5, LockTaken
<1>6. ASSUME NEW w \in Workers, Claim(w) PROVE LockInv'
    <2> DEFINE C == DueRows(ctx[w].at)
    <2>1. PICK list \in Selections(C, "next_attempt_at", ProcessingLimit) :
              holder' = Locked(w, Range(list))
        BY <1>6 DEF Claim
    <2>2. C \in SUBSET Events
        BY DEF DueRows
    <2>3. Range(list) \subseteq C
        BY <2>2, SelectionIsBatch, SettingsAssumption
    <2>4. /\ Moves(w) /\ pc[w] \notin Committing /\ pc'[w] = "commit_claim"
          /\ jobs' = jobs
        BY <1>0, <1>6, OutsideAttempt DEF Claim, Goto, rows, Committing
    <2>5. \A e \in Range(list) : holder[e] = None /\ AsLocked(e, w)'
        BY <2>3, <2>4 DEF DueRows, AsLocked
    <2> HIDE DEF C
    <2> QED
        BY <1>0, <2>1, <2>2, <2>3, <2>4, <2>5, LockTaken
<1>7. ASSUME NEW p \in Procs, Prepare(p) \/ Send(p) \/ RecordAttempt(p) PROVE LockInv'
    <2>1. /\ Moves(p) /\ pc'[p] \notin Committing /\ pc[p] \notin Committing
          /\ holder' = holder /\ jobs' = jobs
        BY <1>0, <1>7 DEF Prepare, Send, RecordAttempt, Goto, Moves, rows, Committing
    <2> QED
        BY <2>1, LockFrame
<1>8. ASSUME NEW w \in Workers, UpdateJob(w) PROVE LockInv'
    <2>1. /\ Moves(w) /\ Current(w)' = Current(w) /\ pc'[w] = "commit_job"
          /\ pc[w] \notin Committing /\ pc[w] \in Working /\ jobs' = jobs
          /\ holder[Current(w)] = None /\ holder' = Locked(w, {Current(w)})
        BY <1>0, <1>8 DEF UpdateJob, Goto, Moves, rows, Committing, Working, Current
    <2>2. Current(w) \in Events
        BY <1>0, <2>1, CurrentRow
    <2> QED
        BY <1>0, <2>1, <2>2, LockTaken DEF AsLocked
<1>9. ASSUME NEW w \in Workers, CommitJob(w) PROVE LockInv'
    <2>1. /\ Moves(w) /\ pc'[w] \notin Committing /\ holder' = Released(w)
          /\ jobs' = [jobs EXCEPT ![Current(w)] = CompletedRow(@, ctx[w])]
          /\ pc[w] = "commit_job"
        BY <1>0, <1>9 DEF CommitJob, Goto, Moves, AfterJob, Committing
    <2>2. \A e \in Events : holder[e] \in Procs \ {w} => jobs'[e] = jobs[e]
        BY <1>0, <2>1 DEF LockInv, TypeInv, TypeOK
    <2> QED
        BY <1>0, <2>1, <2>2, LockFrame
<1>10. ASSUME NEW d \in Deliveries, RequestDelivery(d) \/ CommitDelivery(d) PROVE LockInv'
    <2>1. /\ Moves(d) /\ pc'[d] \notin Committing /\ pc[d] \notin Committing
          /\ holder' = holder /\ jobs' = jobs
        BY <1>0, <1>10 DEF RequestDelivery, CommitDelivery, Goto, Moves, rows, Committing
    <2> QED
        BY <1>0, <2>1, LockFrame
<1>11. ASSUME NEW r \in Replays, RequestReplay(r) PROVE LockInv'
    <2>1. /\ Moves(r) /\ pc'[r] \notin Committing /\ pc[r] \notin Committing
          /\ holder' = holder /\ jobs' = jobs
        BY <1>0, <1>11 DEF RequestReplay, Goto, Moves, rows, Committing
    <2> QED
        BY <1>0, <2>1, LockFrame
<1>12. ASSUME NEW r \in Replays, LockReplay(r) PROVE LockInv'
    <2>1. /\ Moves(r) /\ Current(r)' = Current(r) /\ pc'[r] = "commit_replay"
          /\ pc[r] \notin Committing /\ pc[r] \in Working /\ jobs' = jobs
          /\ holder[Current(r)] = None /\ holder' = Locked(r, {Current(r)})
          /\ jobs[Current(r)].status \in Terminal
        BY <1>0, <1>12 DEF LockReplay, Goto, Moves, rows, Committing, Working, Current
    <2>2. Current(r) \in Events
        BY <1>0, <2>1, CurrentRow
    <2> QED
        BY <1>0, <2>1, <2>2, LockTaken DEF AsLocked
<1>13. ASSUME NEW r \in Replays, CommitReplay(r) PROVE LockInv'
    <2>1. /\ Moves(r) /\ pc'[r] \notin Committing /\ holder' = Released(r)
          /\ jobs' = [jobs EXCEPT ![Current(r)] = ReplayedRow(@, ctx[r].at)]
          /\ pc[r] = "commit_replay"
        BY <1>0, <1>13 DEF CommitReplay, Goto, Moves, Committing
    <2>2. \A e \in Events : holder[e] \in Procs \ {r} => jobs'[e] = jobs[e]
        BY <1>0, <2>1 DEF LockInv, TypeInv, TypeOK
    <2> QED
        BY <1>0, <2>1, <2>2, LockFrame
<1>14. ASSUME NEW p \in Procs, Rollback(p) PROVE LockInv'
    <2>1. /\ Moves(p) /\ pc'[p] \notin Committing /\ holder' = Released(p) /\ jobs' = jobs
        BY <1>0, <1>14 DEF Rollback, Goto, Moves, rows, Committing
    <2> QED
        BY <2>1, LockFrame
<1> QED
    BY <1>0, <1>1, <1>2, <1>3, <1>4, <1>5, <1>6, <1>7, <1>8, <1>9, <1>10, <1>11, <1>12,
       <1>13, <1>14
    DEF Next, Iterate, Deliver, Replay, Crash, LoadLostJob, PrepareInactive,
        RecordDuplicate, RefuseReplay, Tick, SetActive, vars, rows

-----------------------------------------------------------------------------
\* Only four steps write a job row, and each leaves a row that awaits a worker
\* with budget left.
LEMMA BudgetStep == TypeInv /\ LockInv /\ BudgetLeft /\ [Next]_vars => BudgetLeft'
<1> SUFFICES ASSUME TypeInv, LockInv, BudgetLeft, [Next]_vars PROVE BudgetLeft'
    OBVIOUS
<1>0. Workers \subseteq Procs /\ Replays \subseteq Procs
    BY DEF Procs, Requests
<1>1. CASE jobs' = jobs
    BY <1>1 DEF BudgetLeft, Exists
<1>2. ASSUME NEW e \in Events, CreateEvent(e) PROVE BudgetLeft'
    BY <1>2, SettingsAssumption DEF CreateEvent, BudgetLeft, Exists, TypeInv, TypeOK
<1>3. ASSUME NEW w \in Workers, CommitRecovery(w) PROVE BudgetLeft'
    <2>1. \A e \in Events : holder[e] = w =>
              Exists(e) /\ jobs[e] \in JobRow /\ jobs[e].status = "processing"
        BY <1>0, <1>3, ProcsAssumption
        DEF LockInv, AsLocked, CommitRecovery, TypeInv, TypeOK, LockedExist, Exists
    <2>2. \A e \in Events : holder[e] = w =>
              RecoveredRow(jobs[e], ctx[w].at).attempt_count = jobs[e].attempt_count
        BY <2>1 DEF RecoveredRow, JobRow
    <2> QED
        BY <1>3, <2>1, <2>2 DEF CommitRecovery, BudgetLeft, Terminal, Exists
<1>4. ASSUME NEW w \in Workers, CommitClaim(w) PROVE BudgetLeft'
    <2>1. \A e \in Events : holder[e] = w =>
              Exists(e) /\ jobs[e] \in JobRow /\ jobs[e].status = "pending"
        BY <1>0, <1>4, ProcsAssumption
        DEF LockInv, AsLocked, CommitClaim, TypeInv, TypeOK, LockedExist, Exists
    <2>2. \A e \in Events : holder[e] = w =>
              ClaimedRow(jobs[e], ctx[w].at).attempt_count = jobs[e].attempt_count
        BY <2>1 DEF ClaimedRow, JobRow
    <2> QED
        BY <1>4, <2>1, <2>2 DEF CommitClaim, BudgetLeft, Terminal, Exists
<1>5. ASSUME NEW w \in Workers, CommitJob(w) PROVE BudgetLeft'
    <2>1. jobs' = [jobs EXCEPT ![Current(w)] = CompletedRow(@, ctx[w])]
        BY <1>5 DEF CommitJob
    <2>2. Current(w) \in Events /\ jobs[Current(w)] \in JobRow /\ ctx[w].count \in Nat
        BY <1>0, <1>5, CurrentRow DEF CommitJob, Working, TypeInv, TypeOK, Context
    <2> DEFINE row == CompletedRow(jobs[Current(w)], ctx[w])
    <2>3. row.status \in Terminal \/ row.attempt_count < MaxAttempts
        BY <2>2, SettingsAssumption DEF CompletedRow, Decision, Terminal, JobRow
    <2> HIDE DEF row
    <2>4. jobs'[Current(w)] = row /\ \A e \in Events \ {Current(w)} : jobs'[e] = jobs[e]
        BY <2>1, <2>2 DEF row, TypeInv, TypeOK
    <2> QED
        BY <2>3, <2>4 DEF BudgetLeft, Exists
<1>6. ASSUME NEW r \in Replays, CommitReplay(r) PROVE BudgetLeft'
    <2>1. jobs' = [jobs EXCEPT ![Current(r)] = ReplayedRow(@, ctx[r].at)]
        BY <1>6 DEF CommitReplay
    <2>2. Current(r) \in Events /\ jobs[Current(r)] \in JobRow
        BY <1>0, <1>6, CurrentRow DEF CommitReplay, Working
    <2>3. ReplayedRow(jobs[Current(r)], ctx[r].at).attempt_count = 0
        BY <2>2 DEF ReplayedRow, JobRow
    <2>4. /\ jobs'[Current(r)] = ReplayedRow(jobs[Current(r)], ctx[r].at)
          /\ \A e \in Events \ {Current(r)} : jobs'[e] = jobs[e]
        BY <2>1, <2>2 DEF TypeInv, TypeOK
    <2>5. jobs'[Current(r)].attempt_count < MaxAttempts
        BY <2>3, <2>4, SettingsAssumption
    <2> QED
        BY <2>4, <2>5 DEF BudgetLeft, Exists
<1> QED
    BY <1>1, <1>2, <1>3, <1>4, <1>5, <1>6
    DEF Next, Iterate, Deliver, Replay, Crash, LoadLostJob, PrepareInactive,
        RecordDuplicate, RefuseReplay, Tick, SetActive, vars, rows, Rollback,
        Start, Stop, BeginIteration, Recover, Claim, LoadJob, UpdateJob, Prepare, Send,
        RecordAttempt, RequestDelivery, CommitDelivery, RequestReplay, LockReplay

\* A job that is pending or processing has made fewer than max_attempts
\* attempts (delivery_job_execution_service.py:60-84, retry_policy.py:110-111),
\* even when stale completions overwrite newer ones.
THEOREM AwaitingJobsHaveBudget == Spec => []BudgetLeft
<1>1. Init => BudgetLeft
    BY DEF Init, BudgetLeft, Exists
<1> QED
    BY <1>1, TypeInvInit, TypeInvStep, LockInit, LockStep, BudgetStep, PTL DEF Spec

-----------------------------------------------------------------------------
(* The row a completion writes, and the CHECK constraint of the job table.  *)

\* Where a worker has loaded a job and not completed it yet.
Attempting == {"prepare", "send", "record", "update", "commit_job"}

\* The transactions that write job rows, as far as any timing goes.
LEMMA StampedByWorker ==
    ASSUME TypeInv, LockInv, NEW w \in Workers, CommitRecovery(w) \/ CommitClaim(w),
           NEW e \in Events
    PROVE  \/ jobs'[e] = jobs[e]
           \/ /\ Exists(e) /\ jobs[e] \in JobRow /\ ctx[w].at \in Nat
              /\ \/ jobs[e].status = "processing" /\ jobs'[e] = RecoveredRow(jobs[e], ctx[w].at)
                 \/ jobs[e].status = "pending" /\ jobs'[e] = ClaimedRow(jobs[e], ctx[w].at)
<1>1. CASE holder[e] # w
    BY <1>1 DEF CommitRecovery, CommitClaim
<1>2. CASE holder[e] = w
    <2>1. w \in Procs /\ AsLocked(e, w)
        BY <1>2 DEF Procs, LockInv
    <2>2. Exists(e) /\ jobs[e] \in JobRow /\ ctx[w].at \in Nat
        BY <1>2, <2>1, ProcsAssumption, SettingsAssumption
        DEF TypeInv, TypeOK, LockedExist, Exists, Context, Instants
    <2> QED
        BY <1>2, <2>1, <2>2 DEF CommitRecovery, CommitClaim, AsLocked
<1> QED
    BY <1>1, <1>2

LEMMA WrittenByCompletion ==
    ASSUME TypeInv, NEW w \in Workers, CommitJob(w), NEW e, e = Current(w)
    PROVE  /\ e \in Events /\ jobs[e] \in JobRow /\ ctx[w] \in Context
           /\ ctx[w].count \in Nat \ {0} /\ ctx[w].decision_at \in Nat
           /\ jobs'[e] = CompletedRow(jobs[e], ctx[w])
           /\ attempts'[e] = attempts[e] \cup {AttemptOf(w)}
           /\ \A d \in Events \ {e} : jobs'[d] = jobs[d] /\ attempts'[d] = attempts[d]
<1>1. w \in Procs /\ pc[w] = "commit_job"
    BY DEF CommitJob, Procs
<1>2. /\ e \in Events /\ jobs[e] \in JobRow /\ ctx[w] \in Context
      /\ ctx[w].count \in Nat \ {0} /\ ctx[w].decision_at \in Nat
    <2>1. e \in Events /\ jobs[e] \in JobRow
        BY <1>1, CurrentRow DEF Working
    <2>2. ctx[w] \in Context /\ ctx[w].count # 0
        BY <1>1 DEF TypeInv, TypeOK, LocalsOK, Numbered
    <2> QED
        BY <2>1, <2>2, SettingsAssumption DEF Context, Instants
<1> QED
    BY <1>2 DEF CommitJob, TypeInv, TypeOK

LEMMA WrittenByReplay ==
    ASSUME TypeInv, NEW r \in Replays, CommitReplay(r), NEW e, e = Current(r)
    PROVE  /\ e \in Events /\ jobs[e] \in JobRow /\ ctx[r].at \in Nat
           /\ jobs'[e] = ReplayedRow(jobs[e], ctx[r].at)
           /\ \A d \in Events \ {e} : jobs'[d] = jobs[d]
<1>1. r \in Procs /\ pc[r] = "commit_replay"
    BY DEF CommitReplay, Procs, Requests
<1>2. e \in Events /\ jobs[e] \in JobRow /\ ctx[r].at \in Nat
    <2>1. e \in Events /\ jobs[e] \in JobRow
        BY <1>1, CurrentRow DEF Working
    <2>2. ctx[r] \in Context
        BY <1>1 DEF TypeInv, TypeOK
    <2> QED
        BY <2>1, <2>2, SettingsAssumption DEF Context, Instants
<1> QED
    BY <1>2 DEF CommitReplay, TypeInv, TypeOK

LEMMA DueStep == TypeInv /\ LockInv /\ DueWhileAwaiting /\ [Next]_vars => DueWhileAwaiting'
<1> SUFFICES ASSUME TypeInv, LockInv, DueWhileAwaiting, [Next]_vars
             PROVE  DueWhileAwaiting'
    OBVIOUS
<1>0. now \in Nat /\ \A n \in Nat : n # None
    BY SettingsAssumption DEF TypeInv, TypeOK, Instants
<1>1. CASE jobs' = jobs
    BY <1>1 DEF DueWhileAwaiting, Exists
<1>2. ASSUME NEW e \in Events, CreateEvent(e) PROVE DueWhileAwaiting'
    <2>1. /\ jobs'[e].next_attempt_at = now /\ jobs'[e].status = "pending"
          /\ \A d \in Events \ {e} : jobs'[d] = jobs[d]
        BY <1>2 DEF CreateEvent, TypeInv, TypeOK
    <2> QED
        BY <1>0, <2>1 DEF DueWhileAwaiting, Exists, Terminal
<1>3. ASSUME NEW w \in Workers, CommitRecovery(w) \/ CommitClaim(w), NEW e \in Events,
             Exists(e)'
      PROVE  jobs'[e].status \in Terminal <=> jobs'[e].next_attempt_at = None
    <2>1. CASE jobs'[e] = jobs[e]
        BY <1>3, <2>1 DEF DueWhileAwaiting, Exists
    <2>2. ASSUME Exists(e), jobs[e] \in JobRow, ctx[w].at \in Nat,
                 jobs'[e] = RecoveredRow(jobs[e], ctx[w].at)
          PROVE  jobs'[e].status \in Terminal <=> jobs'[e].next_attempt_at = None
        BY <1>0, <2>2 DEF RecoveredRow, JobRow, Terminal
    <2>3. ASSUME Exists(e), jobs[e] \in JobRow, jobs[e].status = "pending",
                 jobs'[e] = ClaimedRow(jobs[e], ctx[w].at)
          PROVE  jobs'[e].status \in Terminal <=> jobs'[e].next_attempt_at = None
        BY <2>3 DEF ClaimedRow, JobRow, Terminal, DueWhileAwaiting
    <2> QED
        BY <1>3, <2>1, <2>2, <2>3, StampedByWorker
<1>4. ASSUME NEW w \in Workers, CommitJob(w) PROVE DueWhileAwaiting'
    <2>0. PICK e : e = Current(w)
        OBVIOUS
    <2>1. /\ e \in Events /\ jobs[e] \in JobRow
          /\ ctx[w].count \in Nat \ {0} /\ ctx[w].decision_at \in Nat
          /\ jobs'[e] = CompletedRow(jobs[e], ctx[w])
          /\ \A d \in Events \ {e} : jobs'[d] = jobs[d]
        BY <1>4, <2>0, WrittenByCompletion
    <2> DEFINE row == CompletedRow(jobs[e], ctx[w])
    <2>2. row.status \in Terminal <=> row.next_attempt_at = None
        <3>1. ctx[w].count < MaxAttempts =>
                  ctx[w].decision_at + RetryDelay[ctx[w].count] \in Nat
            BY <2>1, SettingsAssumption
        <3> QED
            BY <1>0, <2>1, <3>1, SettingsAssumption
            DEF CompletedRow, Decision, JobRow, Terminal
    <2> HIDE DEF row
    <2> QED
        BY <2>1, <2>2 DEF DueWhileAwaiting, Exists, row
<1>5. ASSUME NEW r \in Replays, CommitReplay(r) PROVE DueWhileAwaiting'
    <2>0. PICK e : e = Current(r)
        OBVIOUS
    <2>1. /\ e \in Events /\ jobs[e] \in JobRow /\ ctx[r].at \in Nat
          /\ jobs'[e] = ReplayedRow(jobs[e], ctx[r].at)
          /\ \A d \in Events \ {e} : jobs'[d] = jobs[d]
        BY <1>5, <2>0, WrittenByReplay
    <2>2. jobs'[e].status = "pending" /\ jobs'[e].next_attempt_at = ctx[r].at
        BY <2>1 DEF ReplayedRow, JobRow
    <2> QED
        BY <1>0, <2>1, <2>2 DEF DueWhileAwaiting, Exists, Terminal
<1> QED
    BY <1>1, <1>2, <1>3, <1>4, <1>5
    DEF Next, Iterate, Deliver, Replay, Crash, LoadLostJob, PrepareInactive,
        RecordDuplicate, RefuseReplay, Tick, SetActive, vars, rows, Rollback,
        Start, Stop, BeginIteration, Recover, Claim, LoadJob, UpdateJob, Prepare, Send,
        RecordAttempt, RequestDelivery, CommitDelivery, RequestReplay, LockReplay,
        DueWhileAwaiting

LEMMA DueInit == Init => DueWhileAwaiting
BY DEF Init, DueWhileAwaiting, Exists

\* The CHECK constraint on status and next_attempt_at (models.py:93-98) aborts
\* no transaction: every row that recovery, claim, completion and replay write
\* satisfies it, whatever they overwrite.
THEOREM ConstraintNeverFails == Spec => []DueWhileAwaiting
BY TypeInvInit, TypeInvStep, LockInit, LockStep, DueInit, DueStep, PTL DEF Spec

-----------------------------------------------------------------------------
(* The counts of the rows are backed by attempts.                           *)

Failed(e) == Cardinality(WorkerAttempts(e, "failed"))

\* RowBackedByAttempts, of one job.
Backed(e) ==
    /\ jobs[e].status # "succeeded" => Failed(e) >= jobs[e].attempt_count
    /\ jobs[e].status = "succeeded" => /\ WorkerAttempts(e, "succeeded") # {}
                                       /\ Failed(e) + 1 >= jobs[e].attempt_count
    /\ jobs[e].status = "dead_letter" => jobs[e].attempt_count = MaxAttempts

\* The count a worker goes by is within the budget, and all but the attempt it
\* is making are recorded failures, even if the row has changed since.
LoadedOK(w) ==
    pc[w] \in Attempting =>
        ctx[w].count <= Failed(Current(w)) + 1 /\ ctx[w].count <= MaxAttempts

BackedInv ==
    /\ \A e \in Events : IsFiniteSet(attempts[e])
    /\ \A e \in Events : Exists(e) => Backed(e)
    /\ \A w \in Workers : LoadedOK(w)

\* The failures of an event only grow.
LEMMA FailedGrows ==
    ASSUME NEW e \in Events, IsFiniteSet(attempts'[e]), attempts[e] \subseteq attempts'[e]
    PROVE  /\ Failed(e) \in Nat /\ Failed(e)' \in Nat /\ Failed(e) <= Failed(e)'
           /\ WorkerAttempts(e, "succeeded") \subseteq WorkerAttempts(e, "succeeded")'
<1>1. /\ WorkerAttempts(e, "failed") \subseteq WorkerAttempts(e, "failed")'
      /\ WorkerAttempts(e, "failed")' \subseteq attempts'[e]
      /\ WorkerAttempts(e, "succeeded") \subseteq WorkerAttempts(e, "succeeded")'
    BY DEF WorkerAttempts
<1>2. IsFiniteSet(WorkerAttempts(e, "failed")')
    BY <1>1, FS_Subset
<1> QED
    BY <1>1, <1>2, FS_Subset, FS_CardinalityType DEF Failed

\* A process moves: rows that stay are backed by the grown attempts.
LEMMA BackedFrame ==
    ASSUME TypeInv, BackedInv, NEW p \in Procs, Moves(p),
           \A e \in Events : IsFiniteSet(attempts'[e]) /\ attempts[e] \subseteq attempts'[e],
           \A e \in Events : jobs'[e] # jobs[e] /\ Exists(e)' => Backed(e)',
           p \in Workers => LoadedOK(p)'
    PROVE  BackedInv'
<1>1. ASSUME NEW e \in Events, Exists(e)' PROVE Backed(e)'
    <2>1. CASE jobs'[e] = jobs[e]
        <3>1. Exists(e) /\ Backed(e) /\ jobs[e].attempt_count \in Nat
            BY <1>1, <2>1 DEF Exists, BackedInv, TypeInv, TypeOK, JobRow
        <3> QED
            BY <2>1, <3>1, FailedGrows DEF Backed
    <2> QED
        BY <1>1, <2>1
<1>2. ASSUME NEW v \in Workers \ {p} PROVE LoadedOK(v)'
    <2>1. v \in Procs /\ pc'[v] = pc[v] /\ ctx'[v] = ctx[v] /\ Current(v)' = Current(v)
        BY DEF Moves, Procs, Current
    <2>2. ASSUME pc[v] \in Attempting PROVE ctx[v].count <= Failed(Current(v))' + 1
        <3>1. ctx[v].count \in Nat /\ Current(v) \in Events
            BY <2>1, <2>2, CurrentRow DEF Attempting, Working, TypeInv, TypeOK, Context
        <3>2. PICK e : e = Current(v)
            OBVIOUS
        <3>3. Failed(e) \in Nat /\ Failed(e)' \in Nat /\ Failed(e) <= Failed(e)'
            BY <3>1, <3>2, FailedGrows
        <3>4. ctx[v].count <= Failed(e) + 1
            BY <2>2, <3>2 DEF BackedInv, LoadedOK
        <3>5. Failed(Current(v))' = Failed(e)'
            BY <2>1, <3>2 DEF Failed, WorkerAttempts
        <3> QED
            BY <3>1, <3>3, <3>4, <3>5
    <2> QED
        BY <2>1, <2>2 DEF BackedInv, LoadedOK
<1> QED
    BY <1>1, <1>2 DEF BackedInv

\* A worker completes its attempt: a failure is counted and recorded at once.
LEMMA BackedComplete ==
    ASSUME TypeInv, LockInv, NumberingInv, BackedInv, NEW w \in Workers, CommitJob(w)
    PROVE  BackedInv'
<1>0. PICK e, new : e = Current(w) /\ new = AttemptOf(w)
    OBVIOUS
<1>1. /\ e \in Events /\ jobs[e] \in JobRow /\ ctx[w] \in Context
      /\ ctx[w].count \in Nat \ {0}
      /\ jobs'[e] = CompletedRow(jobs[e], ctx[w])
      /\ attempts'[e] = attempts[e] \cup {new}
      /\ \A d \in Events \ {e} : jobs'[d] = jobs[d] /\ attempts'[d] = attempts[d]
    BY <1>0, WrittenByCompletion
<1>2. /\ w \in Procs /\ pc \in [Procs -> PCs] /\ pc[w] = "commit_job"
      /\ ctx[w].outcome \in Outcomes
    BY <1>1 DEF Procs, TypeInv, TypeOK, CommitJob, Context
<1>3. Moves(w) /\ pc'[w] \notin Attempting
    BY <1>2, CommitsAttempt DEF CommitJob, Goto, AfterJob, Attempting
<1>4. \A d \in Events : IsFiniteSet(attempts'[d]) /\ attempts[d] \subseteq attempts'[d]
    <2>1. \A d \in Events : IsFiniteSet(attempts[d])
        BY DEF BackedInv
    <2>2. IsFiniteSet(attempts'[e]) /\ attempts[e] \subseteq attempts'[e]
        <3>1. e \in Events /\ attempts'[e] = attempts[e] \cup {new}
            BY <1>1
        <3> QED
            BY <2>1, <3>1, FS_AddElement
    <2> QED
        BY <1>1, <2>1, <2>2
<1>5. new.by = "worker" /\ new.outcome = ctx[w].outcome /\ new \notin attempts[e]
    <2>1. \A a \in attempts[e] : a.number # ctx[w].number
        BY <1>0, <1>2 DEF NumberingInv, HasInserted, KeyTaken
    <2> QED
        BY <1>0, <2>1 DEF AttemptOf
<1>6. ctx[w].count <= Failed(e) + 1 /\ ctx[w].count <= MaxAttempts
    BY <1>0, <1>2 DEF BackedInv, LoadedOK, Attempting
<1>7. Failed(e) \in Nat /\ Failed(e)' \in Nat /\ Failed(e) <= Failed(e)'
    BY <1>1, <1>4, FailedGrows
<1> DEFINE row == CompletedRow(jobs[e], ctx[w])
<1>8. row.attempt_count = ctx[w].count
    BY <1>1 DEF CompletedRow, JobRow
<1>9. CASE ctx[w].outcome = "succeeded"
    <2>1. row.status = "succeeded"
        BY <1>1, <1>9 DEF CompletedRow, Decision, JobRow
    <2>2. new \in WorkerAttempts(e, "succeeded")'
        BY <1>1, <1>5, <1>9 DEF WorkerAttempts
    <2> HIDE DEF row
    <2>3. Backed(e)'
        BY <1>1, <1>6, <1>7, <1>8, <2>1, <2>2 DEF Backed, row
    <2> QED
        BY <1>1, <1>2, <1>3, <1>4, <2>3, BackedFrame DEF LoadedOK
<1>10. CASE ctx[w].outcome = "failed"
    <2>1. Failed(e)' = Failed(e) + 1
        <3>1. WorkerAttempts(e, "failed")' = WorkerAttempts(e, "failed") \cup {new}
            BY <1>1, <1>5, <1>10 DEF WorkerAttempts
        <3>2. IsFiniteSet(WorkerAttempts(e, "failed")) /\ new \notin WorkerAttempts(e, "failed")
            BY <1>1, <1>5, FS_Subset DEF WorkerAttempts, BackedInv
        <3> QED
            BY <3>1, <3>2, FS_AddElement DEF Failed
    <2>2. /\ row.status # "succeeded"
          /\ row.status = "dead_letter" => ctx[w].count >= MaxAttempts
        BY <1>1, <1>10 DEF CompletedRow, Decision, JobRow
    <2> HIDE DEF row
    <2>3. Backed(e)'
        BY <1>1, <1>6, <1>7, <1>8, <2>1, <2>2, SettingsAssumption DEF Backed, row
    <2> QED
        BY <1>1, <1>2, <1>3, <1>4, <2>3, BackedFrame DEF LoadedOK
<1> QED
    BY <1>2, <1>9, <1>10 DEF Outcomes

LEMMA BackedStep ==
    TypeInv /\ LockInv /\ NumberingInv /\ BudgetLeft /\ BackedInv /\ [Next]_vars => BackedInv'
<1> SUFFICES ASSUME TypeInv, LockInv, NumberingInv, BudgetLeft, BackedInv, [Next]_vars
             PROVE  BackedInv'
    OBVIOUS
<1>0. /\ Workers \subseteq Procs /\ Deliveries \subseteq Procs /\ Replays \subseteq Procs
      /\ \A p \in Deliveries \cup Replays : p \notin Workers
      /\ pc \in [Procs -> PCs] /\ ctx \in [Procs -> Context]
      /\ \A e \in Events : IsFiniteSet(attempts[e]) /\ Failed(e) \in Nat
    BY ProcsAssumption, FS_Subset, FS_CardinalityType
    DEF Procs, Requests, TypeInv, TypeOK, BackedInv, Failed, WorkerAttempts
<1>1. CASE UNCHANGED <<rows, pc, ctx>>
    BY <1>1 DEF rows, BackedInv, Backed, LoadedOK, Failed, WorkerAttempts, Exists, Current
<1>2. ASSUME NEW e \in Events, CreateEvent(e) PROVE BackedInv'
    <2>1. /\ UNCHANGED <<attempts, pc, ctx>>
          /\ jobs'[e].status = "pending" /\ jobs'[e].attempt_count = 0
          /\ \A d \in Events \ {e} : jobs'[d] = jobs[d]
        BY <1>2 DEF CreateEvent, TypeInv, TypeOK
    <2>2. ASSUME NEW d \in Events, Exists(d)' PROVE Backed(d)'
        <3>1. Failed(d)' = Failed(d) /\ Failed(d) \in Nat
              /\ WorkerAttempts(d, "succeeded")' = WorkerAttempts(d, "succeeded")
            BY <1>0, <2>1 DEF Failed, WorkerAttempts
        <3>2. CASE d = e
            BY <2>1, <3>1, <3>2 DEF Backed
        <3>3. CASE d # e
            BY <2>1, <2>2, <3>1, <3>3 DEF BackedInv, Backed, Exists
        <3> QED
            BY <3>2, <3>3
    <2> QED
        BY <2>1, <2>2 DEF BackedInv, LoadedOK, Failed, WorkerAttempts, Current
<1>3. ASSUME NEW w \in Workers, CommitRecovery(w) \/ CommitClaim(w) PROVE BackedInv'
    <2>1. Moves(w) /\ attempts' = attempts /\ pc'[w] \notin Attempting
        BY <1>0, <1>3, OutsideAttempt
        DEF CommitRecovery, CommitClaim, Goto, AfterJob, Attempting
    <2>2. ASSUME NEW e \in Events, jobs'[e] # jobs[e] PROVE Backed(e)'
        <3>1. /\ Exists(e) /\ jobs[e] \in JobRow
              /\ \/ jobs[e].status = "processing"
                    /\ jobs'[e] = RecoveredRow(jobs[e], ctx[w].at)
                 \/ jobs[e].status = "pending"
                    /\ jobs'[e] = ClaimedRow(jobs[e], ctx[w].at)
            BY <1>3, <2>2, StampedByWorker
        <3>2. /\ jobs'[e].attempt_count = jobs[e].attempt_count
              /\ jobs'[e].status \in {"pending", "processing"}
            BY <3>1 DEF RecoveredRow, ClaimedRow, JobRow
        <3>3. Failed(e) >= jobs[e].attempt_count
            BY <3>1 DEF BackedInv, Backed
        <3> QED
            BY <2>1, <3>2, <3>3 DEF Backed, Failed, WorkerAttempts
    <2> QED
        BY <1>0, <2>1, <2>2, BackedFrame DEF LoadedOK
<1>4. ASSUME NEW d \in Deliveries, CommitDelivery(d) PROVE BackedInv'
    <2>1. Moves(d) /\ jobs' = jobs
        BY <1>0, <1>4, CommitsAttempt DEF CommitDelivery
    <2>2. \A e \in Events : IsFiniteSet(attempts'[e]) /\ attempts[e] \subseteq attempts'[e]
        <3>1. \A e \in Events : \/ attempts'[e] = attempts[e]
                                \/ attempts'[e] = attempts[e] \cup {AttemptOf(d)}
            BY <1>4 DEF CommitDelivery, TypeInv, TypeOK
        <3>2. ASSUME NEW e \in Events
              PROVE  IsFiniteSet(attempts[e]) /\ IsFiniteSet(attempts[e] \cup {AttemptOf(d)})
            BY <1>0, FS_AddElement DEF BackedInv
        <3> QED
            BY <3>1, <3>2
    <2> QED
        BY <1>0, <2>1, <2>2, BackedFrame
<1>5. ASSUME NEW r \in Replays, CommitReplay(r) PROVE BackedInv'
    <2>0. PICK e : e = Current(r)
        OBVIOUS
    <2>1. /\ jobs[e] \in JobRow /\ e \in Events
          /\ jobs'[e] = ReplayedRow(jobs[e], ctx[r].at)
          /\ \A d \in Events \ {e} : jobs'[d] = jobs[d]
        BY <1>5, <2>0, WrittenByReplay
    <2>2. jobs'[e].status = "pending" /\ jobs'[e].attempt_count = 0
        BY <2>1 DEF ReplayedRow, JobRow
    <2>3. Moves(r) /\ attempts' = attempts
        BY <1>0, <1>5, OutsideAttempt
    <2>4. Backed(e)'
        BY <1>0, <2>1, <2>2, <2>3 DEF Backed, Failed, WorkerAttempts
    <2> QED
        BY <1>0, <2>1, <2>3, <2>4, BackedFrame
<1>6. ASSUME NEW p \in Procs,
             \/ p \in Workers /\ (Start(p) \/ Stop(p) \/ BeginIteration(p))
             \/ p \in Workers /\ (Recover(p) \/ Claim(p))
             \/ Rollback(p) \/ RequestReplay(p) \/ LockReplay(p)
             \/ p \in Deliveries /\ RequestDelivery(p)
      PROVE  BackedInv'
    <2>1. Moves(p) /\ attempts' = attempts
        BY <1>6, OutsideAttempt
    <2>2. jobs' = jobs /\ (p \in Workers => pc'[p] \notin Attempting)
        BY <1>0, <1>6
        DEF Start, Stop, BeginIteration, Recover, Claim, Rollback, RequestReplay, LockReplay,
            RequestDelivery, Goto, Attempting, rows
    <2> QED
        BY <1>0, <2>1, <2>2, BackedFrame DEF LoadedOK
<1>7. ASSUME NEW w \in Workers, LoadJob(w) PROVE BackedInv'
    <2>1. /\ Moves(w) /\ attempts' = attempts /\ jobs' = jobs
          /\ pc[w] = "load" /\ jobs[Current(w)].status = "processing"
          /\ Current(w)' = Current(w) /\ ctx'[w].count = jobs[Current(w)].attempt_count + 1
        BY <1>0, <1>7, OutsideAttempt DEF LoadJob, rows, Current, Context
    <2>2. PICK e : e = Current(w)
        OBVIOUS
    <2>3. e \in Events /\ jobs[e] \in JobRow /\ Exists(e)
        BY <1>0, <2>1, <2>2, CurrentRow, RowsAssumption DEF Working, Exists
    <2>4. jobs[e].attempt_count <= Failed(e) /\ jobs[e].attempt_count < MaxAttempts
        BY <1>0, <2>1, <2>2, <2>3 DEF BackedInv, Backed, BudgetLeft, Terminal, JobRow
    <2>5. LoadedOK(w)'
        <3>1. Failed(Current(w))' = Failed(e)
            BY <2>1, <2>2 DEF Failed, WorkerAttempts
        <3> QED
            BY <1>0, <2>1, <2>2, <2>3, <2>4, <3>1, SettingsAssumption DEF LoadedOK, JobRow
    <2> QED
        BY <1>0, <2>1, <2>5, BackedFrame
<1>8. ASSUME NEW p \in Procs, Prepare(p) \/ Send(p) \/ RecordAttempt(p) \/ UpdateJob(p)
      PROVE  BackedInv'
    <2>1. /\ Moves(p) /\ attempts' = attempts /\ jobs' = jobs /\ Current(p)' = Current(p)
          /\ pc[p] \in Attempting /\ ctx'[p].count = ctx[p].count
        <3>1. /\ Moves(p) /\ attempts' = attempts /\ jobs' = jobs /\ pc[p] \in Attempting
            BY <1>0, <1>8
            DEF Prepare, Send, RecordAttempt, UpdateJob, Goto, Moves, rows, Attempting
        <3>2. CASE Prepare(p)
            BY <1>0, <3>1, <3>2 DEF Prepare, Current, Context
        <3>3. CASE Send(p)
            BY <1>0, <3>1, <3>3 DEF Send, Current, Context
        <3>4. CASE RecordAttempt(p)
            BY <1>0, <3>1, <3>4 DEF RecordAttempt, Current, Context
        <3>5. CASE UpdateJob(p)
            BY <1>0, <3>1, <3>5 DEF UpdateJob, Current
        <3> QED
            BY <1>8, <3>1, <3>2, <3>3, <3>4, <3>5
    <2>2. p \in Workers => LoadedOK(p)'
        BY <2>1 DEF BackedInv, LoadedOK, Failed, WorkerAttempts
    <2> QED
        BY <1>0, <2>1, <2>2, BackedFrame
<1>9. ASSUME NEW w \in Workers, CommitJob(w) PROVE BackedInv'
    BY <1>9, BackedComplete
<1> QED
    BY <1>0, <1>1, <1>2, <1>3, <1>4, <1>5, <1>6, <1>7, <1>8, <1>9
    DEF Next, Iterate, Deliver, Replay, Crash, LoadLostJob, PrepareInactive,
        RecordDuplicate, RefuseReplay, Tick, SetActive, vars, rows

\* What a job row claims is backed by attempt rows (delivery_job_execution_
\* service.py:60-84): the completion commits both together, and a completion
\* that overwrites a newer one never claims more than is recorded.
THEOREM RowsNeverOverclaim == Spec => []RowBackedByAttempts
<1>1. Init => BackedInv /\ BudgetLeft
    BY FS_EmptySet DEF Init, BackedInv, BudgetLeft, LoadedOK, Attempting, Exists, Procs
<1>2. BackedInv => RowBackedByAttempts
    BY DEF BackedInv, Backed, RowBackedByAttempts, Failed
<1> QED
    BY <1>1, <1>2, TypeInvInit, TypeInvStep, LockInit, LockStep, NumberingInit, NumberingStep,
       BudgetStep, BackedStep, PTL DEF Spec
=============================================================================
