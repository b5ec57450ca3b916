---------------------------- MODULE WorkerProofs ----------------------------
(***************************************************************************)
(* Theorems about WorkerProcess, for any bounds on iterations and signals:  *)
(* its type invariant, what a stop request does to the iterations, what the *)
(* exit code means, and what is left behind.                                *)
(***************************************************************************)
EXTENDS WorkerProcess, SequenceTheorems, TLAPS

\* Phases in which the process's own SIGTERM handler is installed.
Guarded == Looping \cup {"open_client", "enter_client", "exit_client",
                         "close_client", "restore_term"}

\* Phases of the way out.
Closing == {"exit_client", "close_client", "restore_term", "restore_int",
            "dispose", "exit"}

\* Which resources and handlers exist is a matter of the phase alone.
ResourceInv ==
    /\ phase \in {"configure", "install_int", "install_term", "open_client"} =>
           client = "absent"
    /\ phase \in {"restore_term", "restore_int", "dispose", "exit"} =>
           client \in {"absent", "closed"}
    /\ handler["SIGTERM"] = IF phase \in Guarded THEN "shutdown" ELSE "default"
    /\ handler["SIGINT"] =
           IF phase \in Guarded \cup {"install_term", "restore_int"}
           THEN "shutdown" ELSE "default"
    /\ phase = "configure" => engine = "absent"
    /\ phase = "exit" /\ raised # "interrupt" => engine \in {"absent", "disposed"}

\* An iteration that has passed its check is counted as allowed; a wait that
\* reports a stop has seen the flag.
StopInv ==
    /\ flag => started + (IF phase = "begin" THEN 1 ELSE 0) <= allowed
    /\ phase = "begin" => started < MaxIterations
    /\ gotit => flag

\* Without an exception every started iteration but the running one is
\* complete, and the loop is only left for a stop.
OutcomeInv ==
    /\ raised # "nothing" => phase \in Closing
    /\ raised = "nothing" => started = completed + (IF phase = "iterate" THEN 1 ELSE 0)
    /\ raised = "nothing" /\ phase \in Closing => flag

\* How a process ended tells where it was.
EndInv ==
    /\ ended \in {"success", "failure", "interrupted"} =>
           phase = "exit" /\ ended = ExitCode
    /\ ended = "terminated" => phase \notin Guarded

WorkerInv == TypeOK /\ ResourceInv /\ StopInv /\ OutcomeInv /\ EndInv

-----------------------------------------------------------------------------
\* A fresh process satisfies the invariant.
LEMMA WorkerInit == Init => WorkerInv
  <1> SUFFICES ASSUME Init PROVE WorkerInv
    OBVIOUS
  <1> USE DEF Init, Looping, Locking, Phases, Guarded, Closing
  <1>1. TypeOK
    <2>1. frames \in Seq({"acquire", "set"})
      BY EmptySeq
    <2>2. handler \in [Signals -> {"default", "shutdown"}]
      OBVIOUS
    <2>3. started \in 0..MaxIterations /\ completed \in 0..started
          /\ signals \in 0..MaxSignals /\ allowed \in 0..MaxIterations
      BY BoundsAssumption
    <2> QED
      BY <2>1, <2>2, <2>3, Zenon DEF TypeOK, Endings
  <1>2. ResourceInv
    BY DEF ResourceInv, Signals
  <1>3. StopInv
    BY DEF StopInv
  <1>4. OutcomeInv
    BY DEF OutcomeInv
  <1>5. EndInv
    BY DEF EndInv
  <1> QED
    BY <1>1, <1>2, <1>3, <1>4, <1>5 DEF WorkerInv

(* The stack of handlers.                                                   *)

\* A signal arrives: request_shutdown goes on top.
LEMMA PushHandler ==
  ASSUME frames \in Seq({"acquire", "set"})
  PROVE  Append(frames, "acquire") \in Seq({"acquire", "set"})
  OBVIOUS

\* The running handler goes on.
LEMMA TurnHandler ==
  ASSUME frames \in Seq({"acquire", "set"}), frames # <<>>
  PROVE  [frames EXCEPT ![Len(frames)] = "set"] \in Seq({"acquire", "set"})
  OBVIOUS

\* The running handler returns.
LEMMA PopHandler ==
  ASSUME frames \in Seq({"acquire", "set"}), frames # <<>>
  PROVE  SubSeq(frames, 1, Len(frames) - 1) \in Seq({"acquire", "set"})
  <1>1. Len(frames) \in Nat /\ Len(frames) # 0
    BY EmptySeq
  <1> QED
    BY <1>1, SubSeqProperties
-----------------------------------------------------------------------------
\* A step of the main thread.
LEMMA MainStep == WorkerInv /\ Main => WorkerInv'
  <1> SUFFICES ASSUME WorkerInv, Main PROVE WorkerInv'
    OBVIOUS
  <1> USE BoundsAssumption
      DEF WorkerInv, TypeOK, ResourceInv, StopInv, OutcomeInv, EndInv, ExitCode,
          Looping, Locking, Phases, Endings, Signals, Guarded, Closing,
          loop, event, resources, fate, MainRuns, Step, Raise
  <1>1. CASE Configure
    BY <1>1 DEF Configure
  <1>2. CASE InstallInt
    BY <1>2 DEF InstallInt
  <1>3. CASE InstallTerm
    BY <1>3 DEF InstallTerm
  <1>4. CASE OpenClient
    BY <1>4 DEF OpenClient
  <1>5. CASE EnterClient
    BY <1>5 DEF EnterClient
  <1>6. CASE CheckBefore
    BY <1>6 DEF CheckBefore
  <1>7. CASE Begin
    BY <1>7 DEF Begin
  <1>8. CASE Iterate
    BY <1>8 DEF Iterate
  <1>9. CASE CheckAfter
    BY <1>9 DEF CheckAfter
  <1>10. CASE WaitAcquire
    BY <1>10 DEF WaitAcquire
  <1>11. CASE WaitBlock
    BY <1>11 DEF WaitBlock
  <1>12. CASE WaitWake
    BY <1>12 DEF WaitWake
  <1>13. CASE WaitReacquire
    BY <1>13 DEF WaitReacquire
  <1>14. CASE WaitReturn
    BY <1>14 DEF WaitReturn
  <1>15. CASE ExitClient
    BY <1>15 DEF ExitClient
  <1>16. CASE RestoreTerm
    BY <1>16 DEF RestoreTerm
  <1>17. CASE RestoreInt
    BY <1>17 DEF RestoreInt
  <1>18. CASE Dispose
    BY <1>18 DEF Dispose
  <1>19. CASE Exit
    BY <1>19 DEF Exit
  <1> QED
    BY <1>1, <1>2, <1>3, <1>4, <1>5, <1>6, <1>7, <1>8, <1>9, <1>10, <1>11, <1>12, <1>13, <1>14, <1>15, <1>16, <1>17, <1>18, <1>19 DEF Main

\* A step of a signal handler that is on the stack.
LEMMA HandlerStep == WorkerInv /\ Handler => WorkerInv'
  <1> SUFFICES ASSUME WorkerInv, Handler PROVE WorkerInv'
    OBVIOUS
  <1> USE BoundsAssumption
      DEF WorkerInv, TypeOK, ResourceInv, StopInv, OutcomeInv, EndInv, ExitCode,
          Looping, Locking, Phases, Endings, Signals, Guarded, Closing,
          loop, event, resources, fate
  <1>1. CASE HandlerAcquire
    <2>1. frames' \in Seq({"acquire", "set"})
      BY <1>1, TurnHandler DEF HandlerAcquire
    <2> QED
      BY <1>1, <2>1 DEF HandlerAcquire
  <1>2. CASE HandlerSet
    <2>1. frames' \in Seq({"acquire", "set"})
      BY <1>2, PopHandler DEF HandlerSet
    <2>2. /\ flag' = TRUE /\ locked' = FALSE
          /\ allowed' = IF flag THEN allowed
                        ELSE IF phase = "begin" THEN started + 1 ELSE started
          /\ UNCHANGED <<phase, signals, loop, resources, fate>>
      BY <1>2 DEF HandlerSet
    <2>3. allowed' \in 0..MaxIterations
      BY <2>2
    <2>4. TypeOK'
      <3> HIDE DEF ResourceInv, StopInv, OutcomeInv, EndInv, ExitCode
      <3>1. /\ phase' \in Phases /\ flag' \in BOOLEAN /\ locked' \in BOOLEAN
            /\ gotit' \in BOOLEAN
        BY <2>2
      <3> QED
        BY <2>1, <2>2, <2>3, <3>1
    <2>5. StopInv'
      BY <2>2
    <2> QED
      BY <2>2, <2>4, <2>5
  <1> QED
    BY <1>1, <1>2 DEF Handler

\* The arrival of a signal, and the end of a process that is killed.
LEMMA SignalStep == WorkerInv /\ (Signal \/ Kill) => WorkerInv'
  <1> SUFFICES ASSUME WorkerInv, Signal \/ Kill PROVE WorkerInv'
    OBVIOUS
  <1> USE BoundsAssumption
      DEF WorkerInv, TypeOK, ResourceInv, StopInv, OutcomeInv, EndInv, ExitCode,
          Looping, Locking, Phases, Endings, Signals, Guarded, Closing,
          loop, event, resources, fate, Arrive
  <1>1. ASSUME NEW s \in Signals, Handle(s) PROVE WorkerInv'
    <2>1. frames' \in Seq({"acquire", "set"})
      BY <1>1, PushHandler DEF Handle
    <2> QED
      BY <1>1, <2>1 DEF Handle
  <1>2. CASE Interrupt
    BY <1>2 DEF Interrupt
  <1>3. CASE Terminate
    BY <1>3 DEF Terminate
  <1>4. CASE Kill
    BY <1>4 DEF Kill
  <1> QED
    BY <1>1, <1>2, <1>3, <1>4 DEF Signal

\* Every step of the process preserves the invariant.
LEMMA WorkerStep == WorkerInv /\ [Next]_vars => WorkerInv'
  <1>1. WorkerInv /\ UNCHANGED vars => WorkerInv'
    BY DEF vars, loop, event, resources, fate, WorkerInv, TypeOK, ResourceInv,
           StopInv, OutcomeInv, EndInv, ExitCode
  <1> QED
    BY <1>1, MainStep, HandlerStep, SignalStep DEF Next

\* The invariant of run_worker_process and run_webhook_worker.
THEOREM WorkerInvariant == Spec => []WorkerInv
  BY WorkerInit, WorkerStep, PTL DEF Spec

-----------------------------------------------------------------------------
\* Every variable keeps its type; completed iterations never outnumber started ones.
THEOREM WorkerTypeCorrect == Spec => []TypeOK
  <1>1. WorkerInv => TypeOK
    BY DEF WorkerInv
  <1> QED
    BY <1>1, WorkerInvariant, PTL

\* After the flag is set the loop starts no iteration but the one it had already
\* decided on, at whatever step the signal arrived.
THEOREM StopsAreHonouredByLoop == Spec => []NoIterationAfterStop
  <1>1. WorkerInv => NoIterationAfterStop
    BY BoundsAssumption DEF WorkerInv, TypeOK, StopInv, NoIterationAfterStop
  <1> QED
    BY <1>1, WorkerInvariant, PTL

\* main returns 0 only after a stop request, with every iteration complete.
THEOREM ZeroMeansGraceful == Spec => []SuccessIsGraceful
  <1>1. WorkerInv => SuccessIsGraceful
    BY DEF WorkerInv, TypeOK, OutcomeInv, EndInv, ExitCode, Closing, SuccessIsGraceful
  <1> QED
    BY <1>1, WorkerInvariant, PTL

\* A process that returns from main has closed its client, disposed its engine
\* and restored both handlers, wherever set-up or loop failed.
THEOREM NothingLeftBehind == Spec => []CleanedUp
  <1>1. WorkerInv => CleanedUp
    BY DEF WorkerInv, TypeOK, ResourceInv, EndInv, ExitCode, Guarded, Looping, Locking,
           Signals, CleanedUp
  <1> QED
    BY <1>1, WorkerInvariant, PTL

\* No signal ends the process while the loop runs or the client is open.
THEOREM NoIterationIsCut == Spec => []SignalsCutNoIteration
  <1>1. WorkerInv => SignalsCutNoIteration
    BY DEF WorkerInv, TypeOK, ResourceInv, EndInv, Guarded, Looping, Locking, Phases,
           SignalsCutNoIteration
  <1> QED
    BY <1>1, WorkerInvariant, PTL
=============================================================================
