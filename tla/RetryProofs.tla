---------------------------- MODULE RetryProofs ----------------------------
(***************************************************************************)
(* Theorems about the retry policy, for any settings and representation     *)
(* limits: the delay is the capped doubling of the base delay, and a cycle  *)
(* driven by the policy spends exactly its budget.                          *)
(***************************************************************************)
EXTENDS RetrySchedule, FiniteSetTheorems, FunctionTheorems, TLAPS

-----------------------------------------------------------------------------
(* Powers of two, by counting the subsets of an interval.                   *)

LEMMA SubsetsOfInterval ==
    ASSUME NEW n \in Nat
    PROVE  /\ IsFiniteSet(SUBSET (1..n)) /\ Cardinality(SUBSET (1..n)) = 2^n
           /\ 2^n \in Nat
<1>1. IsFiniteSet(1..n) /\ Cardinality(1..n) = n
    BY FS_Interval
<1>2. IsFiniteSet(SUBSET (1..n)) /\ Cardinality(SUBSET (1..n)) = 2^n
    BY <1>1, FS_SUBSET
<1> QED
    BY <1>2, FS_CardinalityType

\* A power of two is positive.
LEMMA PowerPositive == ASSUME NEW n \in Nat PROVE 2^n \in Nat \ {0}
<1>1. IsFiniteSet(SUBSET (1..n)) /\ Cardinality(SUBSET (1..n)) = 2^n /\ 2^n \in Nat
    BY SubsetsOfInterval
<1>2. {} \in SUBSET (1..n)
    OBVIOUS
<1>3. Cardinality(SUBSET (1..n)) # 0
    BY <1>1, <1>2, FS_EmptySet
<1> QED
    BY <1>1, <1>3

\* The next power is the double: a subset of 1..n+1 has n+1 or has it not.
LEMMA PowerDoubles == ASSUME NEW n \in Nat PROVE 2^(n + 1) = 2 * 2^n
<1> DEFINE Without == SUBSET (1..n)
           With == {s \in SUBSET (1..(n + 1)) : n + 1 \in s}
           Add == [s \in Without |-> s \cup {n + 1}]
<1>1. IsFiniteSet(Without) /\ Cardinality(Without) = 2^n /\ 2^n \in Nat
    BY SubsetsOfInterval
<1>2. n + 1 \in Nat /\ 1..(n + 1) = (1..n) \cup {n + 1} /\ n + 1 \notin 1..n
    OBVIOUS
<1>3. Add \in Bijection(Without, With)
    <2>1. \A s \in Without : Add[s] \in With
        BY <1>2
    <2>2. \A s, t \in Without : Add[s] = Add[t] => s = t
        BY <1>2
    <2>3. \A t \in With : \E s \in Without : Add[s] = t
        <3> SUFFICES ASSUME NEW t \in With PROVE \E s \in Without : Add[s] = t
            OBVIOUS
        <3>1. t \ {n + 1} \in Without
            BY <1>2
        <3>2. Add[t \ {n + 1}] = t
            BY <3>1
        <3> QED
            BY <3>1, <3>2
    <2> QED
        BY <2>1, <2>2, <2>3, Fun_IsBij
<1>4. IsFiniteSet(With) /\ Cardinality(With) = 2^n
    <2>1. ExistsBijection(Without, With)
        BY <1>3 DEF ExistsBijection
    <2> QED
        BY <1>1, <2>1, FS_Bijection
<1>5. SUBSET (1..(n + 1)) = Without \cup With /\ Without \cap With = {}
    BY <1>2
<1>6. ASSUME NEW W, NEW V, IsFiniteSet(W), IsFiniteSet(V), W \cap V = {},
             NEW k \in Nat, Cardinality(W) = k, Cardinality(V) = k
      PROVE  Cardinality(W \cup V) = 2 * k
    <2>1. Cardinality(W \cup V) = Cardinality(W) + Cardinality(V) - Cardinality(W \cap V)
        BY <1>6, FS_Union
    <2> QED
        BY <1>6, <2>1, FS_EmptySet
<1>7. Cardinality(Without \cup With) = 2 * 2^n
    <2> HIDE DEF Without, With
    <2> QED
        BY <1>1, <1>4, <1>5, <1>6
<1>8. 2^(n + 1) = Cardinality(SUBSET (1..(n + 1)))
    BY <1>2, SubsetsOfInterval
<1> QED
    BY <1>5, <1>7, <1>8, Zenon

-----------------------------------------------------------------------------
(* The policy.                                                              *)

\* A float that cannot be represented is above every maximum, so the delay is
\* the smaller of the maximum and the base delay times a power of two.
LEMMA CappedDelay ==
    ASSUME NEW n \in Nat \ {0}, NEW base \in Nat, NEW max \in Nat, max <= FloatMax
    PROVE  /\ base * 2^(n - 1) \in Nat
           /\ CalculateRetryDelay(n, base, max) =
                  IF base * 2^(n - 1) > max THEN max ELSE base * 2^(n - 1)
           /\ CalculateRetryDelay(n, base, max) \in 0..max
<1>1. 2^(n - 1) \in Nat
    BY PowerPositive
<1>2. PICK d \in Nat : d = base * 2^(n - 1)
    BY <1>1
<1>3. Ldexp(base, n - 1) = IF d > FloatMax THEN None ELSE d
    BY <1>2, Zenon DEF Ldexp
<1>4. CalculateRetryDelay(n, base, max) =
          IF Ldexp(base, n - 1) = None \/ Ldexp(base, n - 1) > max
          THEN max ELSE Ldexp(base, n - 1)
    BY Zenon DEF CalculateRetryDelay
<1>5. CalculateRetryDelay(n, base, max) = IF d > max THEN max ELSE d
    <2>1. CASE d > FloatMax
        BY <1>3, <1>4, <2>1, LimitsAssumption
    <2>2. CASE ~(d > FloatMax)
        BY <1>3, <1>4, <2>2, DecisionsAssumption
    <2> QED
        BY <2>1, <2>2
<1> QED
    BY <1>2, <1>5

\* The first delay is the base delay and every later one doubles the one before
\* it, until the maximum: also where math.ldexp overflows
\* (calculate_retry_delay_seconds).
THEOREM DelaysDouble ==
    ASSUME NEW n \in Nat \ {0}, NEW base \in Nat, NEW max \in Nat,
           base <= max, max <= FloatMax
    PROVE  LET delay(k) == CalculateRetryDelay(k, base, max)
           IN  /\ delay(1) = base
               /\ delay(n + 1) = IF 2 * delay(n) > max THEN max ELSE 2 * delay(n)
<1>1. 2^(1 - 1) = 1 /\ base * 1 = base
    OBVIOUS
<1>2. CalculateRetryDelay(1, base, max) = base
    <2>1. CalculateRetryDelay(1, base, max) =
              IF base * 2^(1 - 1) > max THEN max ELSE base * 2^(1 - 1)
        <3>1. 1 \in Nat \ {0}
            OBVIOUS
        <3> QED
            BY <3>1, CappedDelay, Zenon
    <2> QED
        BY <1>1, <2>1
<1>3. PICK d \in Nat : d = base * 2^(n - 1)
    BY CappedDelay
<1>4. base * 2^((n + 1) - 1) = 2 * d
    <2>1. PICK k \in Nat : k = 2^(n - 1)
        BY PowerPositive
    <2>2. n - 1 \in Nat /\ (n - 1) + 1 = (n + 1) - 1
        OBVIOUS
    <2>3. 2^((n + 1) - 1) = 2 * k
        BY <2>1, <2>2, PowerDoubles
    <2>4. base * (2 * k) = 2 * (base * k)
        BY <2>1
    <2> QED
        BY <1>3, <2>1, <2>3, <2>4
<1>5. CalculateRetryDelay(n, base, max) = IF d > max THEN max ELSE d
    BY <1>3, CappedDelay
<1>6. CalculateRetryDelay(n + 1, base, max) = IF 2 * d > max THEN max ELSE 2 * d
    BY <1>4, CappedDelay
<1> QED
    BY <1>2, <1>5, <1>6

\* What the policy decides: it refuses only a retry that is needed and whose
\* instant is out of range.
LEMMA DecisionKinds ==
    ASSUME NEW outcome \in {"succeeded", "failed"}, NEW n \in Nat \ {0}, NEW at \in Nat,
           NEW budget \in Nat, NEW base \in Nat, NEW max \in Nat, max <= FloatMax
    PROVE  LET decision == DecideWebhookRetry(outcome, n, at, budget, base, max)
               next == at + CalculateRetryDelay(n, base, max)
           IN  /\ decision = None <=> outcome = "failed" /\ n < budget /\ next > DatetimeMax
               /\ decision # None => decision =
                      IF outcome = "succeeded"
                      THEN [status |-> "succeeded", next_attempt_at |-> None]
                      ELSE IF n >= budget
                           THEN [status |-> "dead_letter", next_attempt_at |-> None]
                           ELSE [status |-> "pending", next_attempt_at |-> next]
<1>1. PICK next \in Nat : next = at + CalculateRetryDelay(n, base, max)
    BY CappedDelay
<1>2. None # [status |-> "succeeded", next_attempt_at |-> None]
    BY DecisionsAssumption
<1>3. None # [status |-> "dead_letter", next_attempt_at |-> None]
    BY DecisionsAssumption
<1>4. None # [status |-> "pending", next_attempt_at |-> next]
    BY DecisionsAssumption
<1>5. CASE outcome = "succeeded"
    BY <1>2, <1>5 DEF DecideWebhookRetry
<1>6. CASE outcome = "failed" /\ n >= budget
    BY <1>3, <1>6 DEF DecideWebhookRetry
<1>7. CASE outcome = "failed" /\ n < budget
    BY <1>1, <1>4, <1>7, LimitsAssumption DEF DecideWebhookRetry
<1> QED
    BY <1>5, <1>6, <1>7

-----------------------------------------------------------------------------
(* The cycle.                                                               *)

Delay(i) == CalculateRetryDelay(i, settings.base, settings.max)

\* Every wait so far is the policy's; a pending job has waited once per attempt
\* and has one left; a job that was cut short had, and was near the last instant.
ScheduleInv ==
    /\ settings \in [base : Nat, max : Nat, budget : Nat \ {0}]
    /\ settings.base <= settings.max /\ settings.max <= FloatMax
    /\ status \in {"pending", "processing", "succeeded", "dead_letter"}
    /\ attempt_count \in Nat /\ delays \in Seq(Nat)
    /\ \A i \in 1..Len(delays) : delays[i] = Delay(i)
    /\ status = "pending" => /\ due \in Nat /\ attempt_count < settings.budget
                             /\ Len(delays) = attempt_count
    /\ status = "processing" => /\ due \in Nat /\ attempt_count + 1 < settings.budget
                                /\ due + MaxLateness + settings.max > DatetimeMax
    /\ status = "succeeded" => attempt_count <= settings.budget
    /\ status = "dead_letter" => /\ attempt_count = settings.budget
                                 /\ Len(delays) = settings.budget - 1

LEMMA ScheduleInit == Init => ScheduleInv
<1> SUFFICES ASSUME Init PROVE ScheduleInv
    OBVIOUS
<1>1. /\ settings \in [base : Nat, max : Nat, budget : Nat \ {0}]
      /\ settings.base <= settings.max /\ settings.max <= FloatMax
    BY SchedulesAssumption DEF Init
<1>2. status = "pending" /\ due = 0 /\ attempt_count = 0 /\ delays = <<>>
    BY DEF Init
<1>3. delays \in Seq(Nat) /\ Len(delays) = 0
    BY <1>2
<1> QED
    BY <1>1, <1>2, <1>3 DEF ScheduleInv

LEMMA AttemptKeeps ==
    ASSUME ScheduleInv, NEW late \in 0..MaxLateness, NEW outcome \in {"succeeded", "failed"},
           Attempt(outcome, due + late)
    PROVE  ScheduleInv'
<1> DEFINE n == attempt_count + 1
           at == due + late
           decision == DecideWebhookRetry(outcome, n, at, settings.budget,
                                          settings.base, settings.max)
           next == at + Delay(n)
<1>1. /\ status = "pending" /\ decision # None /\ settings' = settings
      /\ status' = decision.status /\ attempt_count' = n
      /\ due' = decision.next_attempt_at
      /\ delays' = IF decision.status = "pending"
                   THEN Append(delays, decision.next_attempt_at - at) ELSE delays
    BY DEF Attempt
<1>2. /\ settings.base \in Nat /\ settings.max \in Nat /\ settings.budget \in Nat \ {0}
      /\ settings.base <= settings.max /\ settings.max <= FloatMax
      /\ attempt_count \in Nat /\ delays \in Seq(Nat)
      /\ \A i \in 1..Len(delays) : delays[i] = Delay(i)
    BY DEF ScheduleInv
<1>3. due \in Nat /\ attempt_count < settings.budget /\ Len(delays) = attempt_count
    BY <1>1 DEF ScheduleInv
<1>4. n \in Nat \ {0} /\ at \in Nat
    BY <1>2, <1>3, SchedulesAssumption
<1> HIDE DEF n, at
<1>5. Delay(n) \in Nat /\ next \in Nat /\ next - at = Delay(n)
    <2>1. Delay(n) \in 0..settings.max
        BY <1>2, <1>4, CappedDelay DEF Delay
    <2> QED
        BY <1>2, <1>4, <2>1
<1>6. decision = IF outcome = "succeeded"
                 THEN [status |-> "succeeded", next_attempt_at |-> None]
                 ELSE IF n >= settings.budget
                      THEN [status |-> "dead_letter", next_attempt_at |-> None]
                      ELSE [status |-> "pending", next_attempt_at |-> next]
    <2>1. /\ settings.base \in Nat /\ settings.max \in Nat /\ settings.budget \in Nat
          /\ settings.max <= FloatMax /\ decision # None
        BY <1>1, <1>2
    <2>2. decision # None => decision =
              IF outcome = "succeeded"
              THEN [status |-> "succeeded", next_attempt_at |-> None]
              ELSE IF n >= settings.budget
                   THEN [status |-> "dead_letter", next_attempt_at |-> None]
                   ELSE [status |-> "pending",
                         next_attempt_at |->
                             at + CalculateRetryDelay(n, settings.base, settings.max)]
        BY <1>4, <2>1, DecisionKinds
    <2> HIDE DEF decision
    <2> QED
        BY <2>1, <2>2 DEF Delay
<1> HIDE DEF decision
<1> USE DEF n
<1>7. CASE decision.status # "pending"
    <2>1. /\ status' \in {"succeeded", "dead_letter"}
          /\ status' = "dead_letter" => n = settings.budget
        BY <1>1, <1>2, <1>3, <1>6, <1>7
    <2>2. delays' = delays /\ \A i : Delay(i)' = Delay(i)
        BY <1>1, <1>7 DEF Delay
    <2> QED
        BY <1>1, <1>2, <1>3, <2>1, <2>2 DEF ScheduleInv
<1>8. CASE decision.status = "pending"
    <2>1. decision = [status |-> "pending", next_attempt_at |-> next] /\ n < settings.budget
        BY <1>2, <1>4, <1>6, <1>8
    <2>2. delays' = Append(delays, Delay(n)) /\ due' = next /\ status' = "pending"
        BY <1>1, <1>5, <2>1
    <2>3. /\ delays' \in Seq(Nat) /\ Len(delays') = n
          /\ \A i \in 1..n : delays'[i] = IF i = n THEN Delay(n) ELSE delays[i]
        BY <1>2, <1>3, <1>5, <2>2
    <2>4. \A i \in 1..Len(delays') : delays'[i] = Delay(i)'
        <3>1. \A i : Delay(i)' = Delay(i)
            BY <1>1 DEF Delay
        <3>2. \A i \in 1..n : delays'[i] = Delay(i)
            BY <1>2, <1>3, <2>3
        <3> QED
            BY <2>3, <3>1, <3>2
    <2> QED
        BY <1>1, <1>2, <1>4, <1>5, <2>1, <2>2, <2>3, <2>4 DEF ScheduleInv
<1> QED
    BY <1>7, <1>8

LEMMA OverflowKeeps ==
    ASSUME ScheduleInv, NEW late \in 0..MaxLateness, Overflow(due + late)
    PROVE  ScheduleInv'
<1>1. /\ status = "pending" /\ status' = "processing"
      /\ settings' = settings /\ due' = due /\ attempt_count' = attempt_count
      /\ delays' = delays
      /\ DecideWebhookRetry("failed", attempt_count + 1, due + late, settings.budget,
                            settings.base, settings.max) = None
    BY DEF Overflow
<1>2. /\ settings.base \in Nat /\ settings.max \in Nat /\ settings.budget \in Nat \ {0}
      /\ settings.max <= FloatMax /\ due \in Nat /\ attempt_count \in Nat
      /\ late \in Nat /\ late <= MaxLateness /\ MaxLateness \in Nat
    BY <1>1, SchedulesAssumption DEF ScheduleInv
<1>3. attempt_count + 1 \in Nat \ {0} /\ due + late \in Nat
    BY <1>2
<1>4. /\ attempt_count + 1 < settings.budget
      /\ due + late + Delay(attempt_count + 1) > DatetimeMax
    BY <1>1, <1>2, <1>3, DecisionKinds DEF Delay
<1>5. Delay(attempt_count + 1) \in 0..settings.max
    BY <1>2, <1>3, CappedDelay DEF Delay
<1>6. due + MaxLateness + settings.max > DatetimeMax
    BY <1>2, <1>4, <1>5, LimitsAssumption
<1>7. \A i : Delay(i)' = Delay(i)
    BY <1>1 DEF Delay
<1> QED
    BY <1>1, <1>4, <1>6, <1>7 DEF ScheduleInv

LEMMA ScheduleStep == ScheduleInv /\ [Next]_vars => ScheduleInv'
<1> SUFFICES ASSUME ScheduleInv, [Next]_vars PROVE ScheduleInv'
    OBVIOUS
<1>1. CASE UNCHANGED vars
    BY <1>1 DEF vars, ScheduleInv, Delay
<1>2. CASE Next
    BY <1>2, AttemptKeeps, OverflowKeeps DEF Next
<1> QED
    BY <1>1, <1>2

LEMMA ScheduleHolds == Spec => []ScheduleInv
BY ScheduleInit, ScheduleStep, PTL DEF Spec

\* For any settings, the waits of a cycle are the base delay and then its
\* doublings, until the maximum (calculate_retry_delay_seconds).
THEOREM WaitsDouble == Spec => []BackoffDoubles
<1>1. ScheduleInv => BackoffDoubles
    <2> SUFFICES ASSUME ScheduleInv, NEW i \in 1..Len(delays)
                 PROVE  LET doubled == IF i = 1 THEN settings.base ELSE 2 * delays[i - 1]
                        IN  delays[i] = IF doubled > settings.max THEN settings.max ELSE doubled
        BY DEF BackoffDoubles
    <2>1. /\ settings.base \in Nat /\ settings.max \in Nat /\ settings.base <= settings.max
          /\ settings.max <= FloatMax /\ i \in Nat \ {0} /\ delays[i] = Delay(i)
        BY DEF ScheduleInv
    <2>2. CASE i = 1
        BY <2>1, <2>2, DelaysDouble DEF Delay
    <2>3. CASE i # 1
        <3>1. i - 1 \in Nat \ {0} /\ i - 1 \in 1..Len(delays) /\ (i - 1) + 1 = i
            BY <2>3
        <3>2. delays[i - 1] = Delay(i - 1)
            BY <3>1 DEF ScheduleInv
        <3>3. Delay((i - 1) + 1) = IF 2 * Delay(i - 1) > settings.max
                                   THEN settings.max ELSE 2 * Delay(i - 1)
            BY <2>1, <3>1, DelaysDouble DEF Delay
        <3> QED
            BY <2>1, <2>3, <3>1, <3>2, <3>3
    <2> QED
        BY <2>2, <2>3
<1> QED
    BY <1>1, ScheduleHolds, PTL

\* A cycle dead-letters exactly on the attempt that exhausts max_attempts, after
\* a wait between any two attempts (decide_webhook_retry).
THEOREM CycleSpendsItsBudget == Spec => []BudgetIsExact
<1>1. ScheduleInv => BudgetIsExact
    BY DEF ScheduleInv, BudgetIsExact
<1> QED
    BY <1>1, ScheduleHolds, PTL

\* The ValueError of an unrepresentable instant needs a retry that the budget
\* still allows and an instant within a maximal delay of datetime.max
\* (decide_webhook_retry).
THEOREM OnlyRangeCutsShort == Spec => []CutShortOnlyByRange
<1>1. ScheduleInv => CutShortOnlyByRange
    BY DEF ScheduleInv, CutShortOnlyByRange
<1> QED
    BY <1>1, ScheduleHolds, PTL
=============================================================================
