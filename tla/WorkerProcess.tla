--------------------------- MODULE WorkerProcess ---------------------------
(***************************************************************************)
(* One worker process: worker.py around the loop of worker_loop_service.   *)
(* The main thread builds its engine, signal handlers and HTTP client,     *)
(* repeats check - iteration - check - wait, and takes everything down     *)
(* again.  CPython runs a signal handler in the main thread, between any   *)
(* two of its steps, as a frame on top of whatever it was doing.           *)
(*                                                                         *)
(* The shutdown event is a threading.Event: a flag and a lock that is not  *)
(* re-entrant.  set() and wait() take the lock, is_set() does not, and     *)
(* wait() gives it up only while it blocks.                                *)
(*                                                                         *)
(* What an iteration does to the database is the matter of                 *)
(* WebhookDelivery; here it ends or raises.                                *)
(***************************************************************************)
EXTENDS Naturals, Sequences

CONSTANTS
    MaxIterations,  \* bound on the iterations that are started
    MaxSignals      \* bound on the signals that arrive

ASSUME BoundsAssumption == MaxIterations \in Nat /\ MaxSignals \in Nat

VARIABLES
    phase,     \* the next step of the main thread, also after the process died
    frames,    \* signal handlers on the stack, the running one last
    flag,      \* shutdown_event: its flag
    locked,    \* shutdown_event: its lock is held
    gotit,     \* the result of the blocked wait
    handler,   \* what the process does on each signal
    client,    \* owned_http_client
    engine,    \* local_engine
    raised,    \* the exception that unwinds the stack
    ended,     \* how the process ended
    started,   \* iterations_started
    completed, \* iterations_completed
    signals,   \* signals that have arrived (a bound, not in the code)
    allowed    \* iterations that may have been started when the process ends
               \* (history, not in the code)

loop == <<gotit, started, completed>>
event == <<flag, locked, allowed>>
resources == <<handler, client, engine>>
fate == <<raised, ended>>
vars == <<phase, frames, signals, loop, event, resources, fate>>

Signals == {"SIGINT", "SIGTERM"}

\* Phases in which the main thread holds the event's lock.
Locking == {"wait_locked", "wait_return"}

\* Phases of run_webhook_worker.
Looping == {"check_before", "begin", "iterate", "check_after", "wait",
            "waiting", "wake"} \cup Locking

Phases == Looping \cup
    {"configure", "install_int", "install_term", "open_client", "enter_client",
     "exit_client", "close_client", "restore_term", "restore_int", "dispose",
     "exit"}

Endings == {"running", "success", "failure", "interrupted", "terminated", "killed"}

Init ==
    /\ phase = "configure"
    /\ frames = <<>>
    /\ flag = FALSE /\ locked = FALSE /\ gotit = FALSE
    /\ handler = [s \in Signals |-> "default"]
    /\ client = "absent" /\ engine = "absent"
    /\ raised = "nothing" /\ ended = "running"
    /\ started = 0 /\ completed = 0 /\ signals = 0 /\ allowed = 0

\* The main thread runs when no handler is on top of it.
MainRuns(p) == ended = "running" /\ frames = <<>> /\ phase = p

Step(from, to) == MainRuns(from) /\ phase' = to /\ UNCHANGED <<frames, signals>>

\* A step of the main thread raises an ordinary exception; clean-up goes on at
\* the given phase.
Raise(from, to) == Step(from, to) /\ raised' = "error" /\ UNCHANGED ended

-----------------------------------------------------------------------------
(* Setting up: run_worker_process.                                          *)

\* Settings() and create_engine.
Configure ==
    \/ /\ Step("configure", "install_int")
       /\ engine' = "open"
       /\ UNCHANGED <<loop, event, handler, client, fate>>
    \/ Raise("configure", "exit") /\ UNCHANGED <<loop, event, resources>>

InstallInt ==
    \/ /\ Step("install_int", "install_term")
       /\ handler' = [handler EXCEPT !["SIGINT"] = "shutdown"]
       /\ UNCHANGED <<loop, event, client, engine, fate>>
    \/ Raise("install_int", "dispose") /\ UNCHANGED <<loop, event, resources>>

\* Plausible bug: the second handler is not installed.
InstallTermSkipped ==
    Step("install_term", "open_client") /\ UNCHANGED <<loop, event, resources, fate>>

\* A failure half way restores the handler that is installed already.
InstallTerm ==
    \/ /\ Step("install_term", "open_client")
       /\ handler' = [handler EXCEPT !["SIGTERM"] = "shutdown"]
       /\ UNCHANGED <<loop, event, client, engine, fate>>
    \/ Raise("install_term", "restore_int") /\ UNCHANGED <<loop, event, resources>>

OpenClient ==
    \/ /\ Step("open_client", "enter_client")
       /\ client' = "constructed"
       /\ UNCHANGED <<loop, event, handler, engine, fate>>
    \/ Raise("open_client", "restore_term") /\ UNCHANGED <<loop, event, resources>>

\* Plausible bug: a client whose __enter__ raised is not closed.
EnterClientUnguarded ==
    \/ /\ Step("enter_client", "check_before")
       /\ client' = "entered"
       /\ UNCHANGED <<loop, event, handler, engine, fate>>
    \/ Raise("enter_client", "restore_term") /\ UNCHANGED <<loop, event, resources>>

EnterClient ==
    \/ /\ Step("enter_client", "check_before")
       /\ client' = "entered"
       /\ UNCHANGED <<loop, event, handler, engine, fate>>
    \/ Raise("enter_client", "close_client") /\ UNCHANGED <<loop, event, resources>>

-----------------------------------------------------------------------------
(* The loop: run_webhook_worker.                                            *)

\* Plausible bug: the loop only checks for a stop after an iteration.
CheckBeforeMissing ==
    /\ Step("check_before", "begin")
    /\ started < MaxIterations
    /\ UNCHANGED <<loop, event, resources, fate>>

\* stop_requested() before an iteration.  The bound stops the loop here, where
\* a later signal still finds it.
CheckBefore ==
    /\ \/ flag /\ Step("check_before", "exit_client")
       \/ ~flag /\ started < MaxIterations /\ Step("check_before", "begin")
    /\ UNCHANGED <<loop, event, resources, fate>>

\* The cutoff of the iteration is computed, which overflows for a huge timeout.
Begin ==
    \/ /\ Step("begin", "iterate")
       /\ started' = started + 1
       /\ UNCHANGED <<gotit, completed, event, resources, fate>>
    \/ Raise("begin", "exit_client") /\ UNCHANGED <<loop, event, resources>>

\* run_webhook_worker_iteration returns, or raises and ends the loop.
Iterate ==
    \/ /\ Step("iterate", "check_after")
       /\ completed' = completed + 1
       /\ UNCHANGED <<gotit, started, event, resources, fate>>
    \/ Raise("iterate", "exit_client") /\ UNCHANGED <<loop, event, resources>>

\* Plausible bug: an iteration is counted twice.
CheckAfterCounting ==
    /\ Step("check_after", IF flag THEN "exit_client" ELSE "wait")
    /\ completed' = completed + 1
    /\ UNCHANGED <<gotit, started, event, resources, fate>>

CheckAfter ==
    /\ Step("check_after", IF flag THEN "exit_client" ELSE "wait")
    /\ UNCHANGED <<loop, event, resources, fate>>

\* Event.wait: take the lock, ...
WaitAcquire ==
    /\ Step("wait", "wait_locked")
    /\ ~locked /\ locked' = TRUE
    /\ UNCHANGED <<loop, flag, allowed, resources, fate>>

\* ... return if the flag is set, otherwise enlist, give up the lock, block, ...
WaitBlock ==
    /\ Step("wait_locked", IF flag THEN "wait_return" ELSE "waiting")
    /\ locked' = flag
    /\ gotit' = flag
    /\ UNCHANGED <<started, completed, flag, allowed, resources, fate>>

\* ... be notified or time out, ...
WaitWake ==
    /\ Step("waiting", "wake")
    /\ gotit' = flag
    /\ UNCHANGED <<started, completed, event, resources, fate>>

\* ... take the lock again, ...
WaitReacquire ==
    /\ Step("wake", "wait_return")
    /\ ~locked /\ locked' = TRUE
    /\ UNCHANGED <<loop, flag, allowed, resources, fate>>

\* Plausible bug: every return of wait counts as a stop.
WaitReturnStopping ==
    /\ Step("wait_return", "exit_client")
    /\ locked' = FALSE
    /\ UNCHANGED <<loop, flag, allowed, resources, fate>>

\* Plausible bug: the event is cleared once the wait is over.
WaitReturnClearing ==
    /\ Step("wait_return", "check_before")
    /\ locked' = FALSE /\ flag' = FALSE
    /\ UNCHANGED <<loop, allowed, resources, fate>>

\* ... and release it; the loop ends if the wait was notified.
WaitReturn ==
    /\ Step("wait_return", IF gotit THEN "exit_client" ELSE "check_before")
    /\ locked' = FALSE
    /\ UNCHANGED <<loop, flag, allowed, resources, fate>>

-----------------------------------------------------------------------------
(* Taking down: the context managers and finally clauses, inside out.       *)

ExitClient ==
    /\ \E p \in {"exit_client", "close_client"} : Step(p, "restore_term")
    /\ client' = "closed"
    /\ UNCHANGED <<loop, event, handler, engine, fate>>

RestoreTerm ==
    /\ Step("restore_term", "restore_int")
    /\ handler' = [handler EXCEPT !["SIGTERM"] = "default"]
    /\ UNCHANGED <<loop, event, client, engine, fate>>

RestoreInt ==
    /\ Step("restore_int", "dispose")
    /\ handler' = [handler EXCEPT !["SIGINT"] = "default"]
    /\ UNCHANGED <<loop, event, client, engine, fate>>

Dispose ==
    /\ Step("dispose", "exit")
    /\ engine' = "disposed"
    /\ UNCHANGED <<loop, event, handler, client, fate>>

\* main: 0 for a result, 1 for an Exception; a KeyboardInterrupt passes.
ExitCode ==
    CASE raised = "nothing"   -> "success"
      [] raised = "error"     -> "failure"
      [] raised = "interrupt" -> "interrupted"

Exit ==
    /\ Step("exit", "exit")
    /\ ended' = ExitCode
    /\ UNCHANGED <<loop, event, resources, raised>>

-----------------------------------------------------------------------------
(* Signals.                                                                 *)

Arrive ==
    /\ ended = "running" /\ signals < MaxSignals
    /\ signals' = signals + 1

\* request_shutdown is called on top of the current frame.
Handle(s) ==
    /\ Arrive /\ handler[s] = "shutdown"
    /\ frames' = Append(frames, "acquire")
    /\ UNCHANGED <<phase, loop, event, resources, fate>>

\* Python's own SIGINT handler raises KeyboardInterrupt.  The engine is
\* disposed on the way out, unless it hits the finally clause itself.
Interrupt ==
    /\ Arrive /\ handler["SIGINT"] = "default" /\ frames = <<>>
    /\ \/ phase \in {"install_int", "dispose"} /\ phase' = "dispose"
       \/ phase \in {"configure", "dispose", "exit"} /\ phase' = "exit"
    /\ raised' = "interrupt"
    /\ UNCHANGED <<frames, loop, event, resources, ended>>

\* SIGTERM without a handler ends the process at once.
Terminate ==
    /\ Arrive /\ handler["SIGTERM"] = "default"
    /\ ended' = "terminated"
    /\ UNCHANGED <<phase, frames, loop, event, resources, raised>>

Top == frames[Len(frames)]

\* shutdown_event.set(): take the lock ...
HandlerAcquire ==
    /\ ended = "running" /\ frames # <<>> /\ Top = "acquire"
    /\ ~locked /\ locked' = TRUE
    /\ frames' = [frames EXCEPT ![Len(frames)] = "set"]
    /\ UNCHANGED <<phase, signals, loop, flag, allowed, resources, fate>>

\* ... set the flag, notify the waiter and release the lock.  An iteration
\* that has passed its check is still going to start.
HandlerSet ==
    /\ ended = "running" /\ frames # <<>> /\ Top = "set"
    /\ flag' = TRUE /\ locked' = FALSE
    /\ allowed' = IF flag THEN allowed
                  ELSE IF phase = "begin" THEN started + 1 ELSE started
    /\ frames' = SubSeq(frames, 1, Len(frames) - 1)
    /\ UNCHANGED <<phase, signals, loop, resources, fate>>

\* The process is killed without any say in it.
Kill ==
    /\ ended = "running"
    /\ ended' = "killed"
    /\ UNCHANGED <<phase, frames, signals, loop, event, resources, raised>>

-----------------------------------------------------------------------------
Main ==
    \/ Configure \/ InstallInt \/ InstallTerm \/ OpenClient \/ EnterClient
    \/ CheckBefore \/ Begin \/ Iterate \/ CheckAfter
    \/ WaitAcquire \/ WaitBlock \/ WaitWake \/ WaitReacquire \/ WaitReturn
    \/ ExitClient \/ RestoreTerm \/ RestoreInt \/ Dispose \/ Exit

Handler == HandlerAcquire \/ HandlerSet

Signal == (\E s \in Signals : Handle(s)) \/ Interrupt \/ Terminate

Next == Main \/ Handler \/ Signal \/ Kill

Spec == Init /\ [][Next]_vars

\* The thread runs: an iteration ends (WebhookDelivery's IterationsEnd), a wait
\* times out, a handler returns once it gets its lock.  No signal has to come.
FairSpec == Spec /\ WF_vars(Main) /\ WF_vars(Handler)

-----------------------------------------------------------------------------
TypeOK ==
    /\ phase \in Phases
    /\ frames \in Seq({"acquire", "set"})
    /\ flag \in BOOLEAN /\ locked \in BOOLEAN /\ gotit \in BOOLEAN
    /\ handler \in [Signals -> {"default", "shutdown"}]
    /\ client \in {"absent", "constructed", "entered", "closed"}
    /\ engine \in {"absent", "open", "disposed"}
    /\ raised \in {"nothing", "error", "interrupt"}
    /\ ended \in Endings
    /\ started \in 0..MaxIterations /\ completed \in 0..started
    /\ signals \in 0..MaxSignals /\ allowed \in 0..MaxIterations

\* Once the flag is set no iteration starts, but the one that had passed its
\* check: neither after the running iteration, nor when the signal hits the end
\* of a wait that has timed out already (worker_loop_service.py:126-189).
NoIterationAfterStop == flag => started <= allowed

\* The process exits with 0 only for a stop request, with no iteration cut or
\* failed (worker.py:99-118).
SuccessIsGraceful ==
    ended = "success" => flag /\ completed = started

\* However the set-up, the loop or a handler installation failed half way: a
\* process that exits on its own has closed the client it constructed, restored
\* both handlers and disposed its engine (worker.py:36-96).
CleanedUp ==
    ended \in {"success", "failure"} =>
        /\ client \in {"absent", "closed"}
        /\ engine \in {"absent", "disposed"}
        /\ \A s \in Signals : handler[s] = "default"

\* A signal never cuts an iteration: one that ends the process finds the client
\* closed or not yet there and no iteration running (worker.py:67-94).
SignalsCutNoIteration ==
    ended \in {"interrupted", "terminated"} =>
        phase \notin Looping /\ client \in {"absent", "closed"}

\* A handler waits for a lock that a frame below it holds.
Stuck == frames # <<>> /\ Top = "acquire" /\ locked

\* A stop request, from the moment its handler is called, ends the process, or
\* the process hangs on its own event.
StopEnds == (flag \/ frames # <<>>) ~> (ended # "running" \/ Stuck)

-----------------------------------------------------------------------------
(* What the documentation says and the event's lock breaks.                 *)

\* docs/delivery-execution.md:125-129: SIGINT and SIGTERM request a shutdown;
\* a request during the poll wait ends that wait early and exits with 0.
StopHonoured == (flag \/ frames # <<>>) ~> ended # "running"
=============================================================================
