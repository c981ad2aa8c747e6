------------------------- MODULE CodeModeExecution -------------------------
(***************************************************************************)
(* One execution of a TypeScript program in the executor child             *)
(* (crates/s2-mcp-codemode/src/runtime.rs, ExecutionApi::execute in        *)
(* lib.rs).  The program, its event loop and its host calls are polled by  *)
(* one future, `main` below; the watchdog is a tokio task of its own and   *)
(* needs a worker thread to run on.  A host call takes a trace ticket,     *)
(* spends the call budget, waits its turn at a FIFO semaphore and is then  *)
(* polled at the host until it answers.                                    *)
(*                                                                         *)
(* The program itself is any JavaScript: its steps are nondeterministic    *)
(* and none is fair.  deno_core, V8 and tokio's Semaphore and Timeout are  *)
(* modelled from how runtime.rs relies on them.                            *)
(***************************************************************************)
EXTENDS Integers, Sequences, FiniteSets

CONSTANTS
    Calls,          \* the host calls the program may make
    MaxCalls,       \* Limits::max_calls
    MaxConcurrent,  \* Limits::max_concurrent_calls
    MaxTrace,       \* Limits::max_callback_trace_calls
    Workers         \* threads of the tokio runtime: 1 in the shipped child

\* validate_limits rejects a zero limit.
ASSUME LimitsAssumption ==
    /\ IsFiniteSet(Calls)
    /\ MaxCalls \in Nat \ {0}
    /\ MaxConcurrent \in Nat \ {0}
    /\ MaxTrace \in Nat \ {0}
    /\ Workers \in Nat \ {0}

VARIABLES
    main,        \* where `runtime::execute` is
    evaluation,  \* the promise of the module's evaluation
    loopError,   \* how run_event_loop ended: "none", "script", "terminated"
    output,      \* what extract_output found: the default export, or nothing
    timer,       \* the program has a pending setTimeout
    ready,       \* JavaScript has something to run: an answer, a timer
    call,        \* the state of each host call
    queue,       \* the semaphore's FIFO of waiting calls
    permits,     \* the semaphore's free permits
    spent,       \* RuntimeInvoker.calls
    ticketed,    \* the calls `begin` gave a sequence number
    recorded,    \* the calls `finish` pushed on the trace
    truncated,   \* Trace.truncated
    expired,     \* execution_timeout has elapsed
    watchdog,    \* "sleeping", "fired" (timed_out stored), "terminated"
    outcome      \* what ExecutionApi::execute returned

control == <<main, evaluation, loopError, output, timer, ready>>
limiter == <<queue, permits, spent>>
trace   == <<ticketed, recorded, truncated>>
clock   == <<expired, watchdog>>
vars    == <<control, call, limiter, trace, clock, outcome>>

CallState == {"idle", "refused", "queued", "granted", "host", "answered",
              "dropped", "abandoned"}
Mains     == {"load", "script", "loop", "join", "extract", "check", "capture",
              "done"}
Outcomes  == {"none", "success", "failure", "timeout", "depth",
              "setupFailed", "captureFailed"}

InState(S) == {c \in Calls : call[c] \in S}
Holders    == InState({"granted", "host"})
InFlight   == InState({"queued", "granted", "host"})
Made       == InState(CallState \ {"idle"})
\* Every call that has been handed to the host.
Served     == InState({"host", "answered", "abandoned"})
\* Every call that spent its share of the budget and was let through.
Admitted   == InState({"queued", "granted", "host", "answered", "dropped",
                       "abandoned"})

Init ==
    /\ main = "load"
    /\ evaluation = "pending"
    /\ loopError = "none"
    /\ output = FALSE
    /\ timer = FALSE
    /\ ready = FALSE
    /\ call = [c \in Calls |-> "idle"]
    /\ queue = <<>>
    /\ permits = MaxConcurrent
    /\ spent = 0
    /\ ticketed = {}
    /\ recorded = {}
    /\ truncated = FALSE
    /\ expired = FALSE
    /\ watchdog = "sleeping"
    /\ outcome = "none"

-----------------------------------------------------------------------------
(* Host calls: op_codemode_invoke. *)

Begin(c) ==
    IF Cardinality(ticketed) >= MaxTrace
    THEN truncated' = TRUE /\ UNCHANGED ticketed
    ELSE ticketed' = ticketed \cup {c} /\ UNCHANGED truncated

\* Mutant: a call without a sequence number is pushed on the trace too.
Finish_NoSequence(c, tickets) == recorded' = recorded \cup {c}

Finish(c, tickets) == recorded' = recorded \cup ({c} \cap tickets)

\* Over the budget, or arguments nested too deeply: the op returns an error
\* at once, without a permit.
Refuse(c) ==
    /\ call' = [call EXCEPT ![c] = "refused"]
    /\ Finish(c, ticketed')
    /\ ready' = TRUE
    /\ UNCHANGED <<queue, permits>>

\* Mutant: the first waiter does not wait.
Admit_Barging(c) ==
    /\ IF queue = <<>> /\ permits >= 0
       THEN /\ call' = [call EXCEPT ![c] = "host"]
            /\ permits' = permits - 1
            /\ UNCHANGED queue
       ELSE /\ call' = [call EXCEPT ![c] = "queued"]
            /\ queue' = Append(queue, c)
            /\ UNCHANGED permits
    /\ UNCHANGED <<recorded, ready>>

\* acquire_owned: with a free permit the host is polled in the same poll,
\* otherwise the call waits behind the ones before it.
Admit(c) ==
    /\ IF permits > 0
       THEN /\ call' = [call EXCEPT ![c] = "host"]
            /\ permits' = permits - 1
            /\ UNCHANGED queue
       ELSE /\ call' = [call EXCEPT ![c] = "queued"]
            /\ queue' = Append(queue, c)
            /\ UNCHANGED permits
    /\ UNCHANGED <<recorded, ready>>

\* The host answers in the poll that calls it: the permit is dropped before
\* anything else runs, and nobody waits, since it was free.
AnswerAtOnce(c) ==
    /\ permits > 0
    /\ call' = [call EXCEPT ![c] = "answered"]
    /\ Finish(c, ticketed')
    /\ ready' = TRUE
    /\ UNCHANGED <<queue, permits>>

Running == main = "script" /\ watchdog # "terminated"

\* Mutant: the previous value of the counter is compared with the limit.
Issue_OffByOne(c) ==
    /\ Running
    /\ call[c] = "idle"
    /\ Begin(c)
    /\ spent' = spent + 1
    /\ \/ Refuse(c)
       \/ spent <= MaxCalls /\ (Admit(c) \/ AnswerAtOnce(c))
    /\ UNCHANGED <<main, evaluation, loopError, output, timer, clock, outcome>>

Issue(c) ==
    /\ Running
    /\ call[c] = "idle"
    /\ Begin(c)
    /\ spent' = spent + 1
    /\ \/ Refuse(c)
       \/ spent < MaxCalls /\ (Admit(c) \/ AnswerAtOnce(c))
    /\ UNCHANGED <<main, evaluation, loopError, output, timer, clock, outcome>>

\* A waiting call that was handed a permit is polled and reaches the host.
EnterHost(c) ==
    /\ main = "loop"
    /\ call[c] = "granted"
    /\ call' = [call EXCEPT ![c] = "host"]
    /\ UNCHANGED <<control, limiter, trace, clock, outcome>>

\* Mutant: the permit goes back to the pool past the waiters.
Release_NoHandOver(c) ==
    /\ call' = [call EXCEPT ![c] = "answered"]
    /\ permits' = permits + 1
    /\ UNCHANGED queue

\* drop(permit): the semaphore hands the permit to the first waiter, if any.
Release(c) ==
    IF queue = <<>>
    THEN /\ call' = [call EXCEPT ![c] = "answered"]
         /\ permits' = permits + 1
         /\ UNCHANGED queue
    ELSE /\ call' = [call EXCEPT ![c] = "answered", ![Head(queue)] = "granted"]
         /\ queue' = Tail(queue)
         /\ UNCHANGED permits

\* Mutant: an answer that forgets `finish`.
Answer_Untraced(c) ==
    /\ main = "loop"
    /\ call[c] = "host"
    /\ Release(c)
    /\ ready' = TRUE
    /\ UNCHANGED <<main, evaluation, loopError, output, timer, spent, trace,
                   clock, outcome>>

\* The host answers, well or badly: permit, trace and response in one poll.
Answer(c) ==
    /\ main = "loop"
    /\ call[c] = "host"
    /\ Release(c)
    /\ Finish(c, ticketed)
    /\ ready' = TRUE
    /\ UNCHANGED <<main, evaluation, loopError, output, timer, spent, ticketed,
                   truncated, clock, outcome>>

-----------------------------------------------------------------------------
(* The program and its event loop: load, mod_evaluate, run_event_loop. *)

LoadModule ==
    /\ main = "load"
    /\ \/ main' = "script" /\ UNCHANGED loopError
       \/ main' = "capture" /\ loopError' = "script"  \* no watchdog check here
    /\ UNCHANGED <<evaluation, output, timer, ready, call, limiter, trace,
                   clock, outcome>>

\* run() returns or throws; fire-and-forget calls and timers may remain.
SettleRun ==
    /\ Running
    /\ evaluation = "pending"
    /\ evaluation' \in {"fulfilled", "rejected"}
    /\ UNCHANGED <<main, loopError, output, timer, ready, call, limiter, trace,
                   clock, outcome>>

SetTimer ==
    /\ Running
    /\ ~timer
    /\ timer' = TRUE
    /\ UNCHANGED <<main, evaluation, loopError, output, ready, call, limiter,
                   trace, clock, outcome>>

Yield ==
    /\ Running
    /\ main' = "loop"
    /\ UNCHANGED <<evaluation, loopError, output, timer, ready, call, limiter,
                   trace, clock, outcome>>

\* A promise rejected with no handler ends run_event_loop at once, whatever
\* is still in flight.
RejectUnhandled ==
    /\ Running
    /\ main' = "join"
    /\ loopError' = "script"
    /\ UNCHANGED <<evaluation, output, timer, ready, call, limiter, trace,
                   clock, outcome>>

\* V8 unwinds a script that terminate_execution has hit.  During the first
\* evaluation this settles the module, later it only ends the loop.
ScriptTerminated ==
    /\ main = "script"
    /\ watchdog = "terminated"
    /\ main' = "join"
    /\ loopError' = "terminated"
    /\ evaluation' \in {evaluation} \cup
           (IF evaluation = "pending" THEN {"rejected"} ELSE {})
    /\ UNCHANGED <<output, timer, ready, call, limiter, trace, clock, outcome>>

TimerFires ==
    /\ main = "loop"
    /\ timer
    /\ timer' = FALSE
    /\ ready' = TRUE
    /\ UNCHANGED <<main, evaluation, loopError, output, call, limiter, trace,
                   clock, outcome>>

Resume ==
    /\ main = "loop"
    /\ ready
    /\ ready' = FALSE
    /\ main' = "script"
    /\ UNCHANGED <<evaluation, loopError, output, timer, call, limiter, trace,
                   clock, outcome>>

\* Mutant: the loop is left as soon as run() has returned.
LoopDrains_OnReturn ==
    /\ main = "loop"
    /\ evaluation # "pending"
    /\ main' = "join"
    /\ UNCHANGED <<evaluation, loopError, output, timer, ready, call, limiter,
                   trace, clock, outcome>>

\* Nothing is left to poll.  A module still pending then is reported as
\* stalled.
LoopDrains ==
    /\ main = "loop"
    /\ InFlight = {} /\ ~timer /\ ~ready
    /\ main' = "join"
    /\ loopError' = IF evaluation = "pending" THEN "script" ELSE loopError
    /\ UNCHANGED <<evaluation, output, timer, ready, call, limiter, trace,
                   clock, outcome>>

-----------------------------------------------------------------------------
(* After the loop: evaluation.await, extract_output, watchdog.check,       *)
(* finish.  Nothing after the join awaits.                                 *)

\* evaluation.await is ready only once the module is settled.
Join ==
    /\ main = "join"
    /\ evaluation # "pending"
    /\ main' = IF evaluation = "fulfilled" /\ loopError = "none"
               THEN "extract" ELSE "check"
    /\ UNCHANGED <<evaluation, loopError, output, timer, ready, call, limiter,
                   trace, clock, outcome>>

\* Returning drops the runtime and with it the futures of unfinished calls.
Return(result) ==
    /\ main' = "done"
    /\ outcome' = result
    /\ call' = [c \in Calls |->
                 CASE call[c] \in {"queued", "granted"} -> "dropped"
                   [] call[c] = "host" -> "abandoned"
                   [] OTHER -> call[c]]
    /\ queue' = <<>>
    /\ permits' = MaxConcurrent
    /\ UNCHANGED <<evaluation, loopError, timer, ready, spent, trace, clock>>

\* The isolate cannot be made, or a script of the runtime's own fails: `?`
\* leaves before the program is loaded, and no watchdog check follows.
SetupFails ==
    /\ main = "load"
    /\ Return("setupFailed")
    /\ UNCHANGED output

ExtractOutput ==
    /\ main = "extract"
    /\ \/ Return("depth") /\ UNCHANGED output  \* `?` leaves before the check
       \/ /\ main' = "check"
          /\ output' \in BOOLEAN
          /\ UNCHANGED <<evaluation, loopError, timer, ready, call, limiter,
                         trace, clock, outcome>>

\* Mutant: timed_out is not looked at.
CheckWatchdog_Skipped ==
    /\ main = "check"
    /\ main' = "capture"
    /\ UNCHANGED <<evaluation, loopError, output, timer, ready, call, limiter,
                   trace, clock, outcome>>

CheckWatchdog ==
    /\ main = "check"
    /\ IF watchdog # "sleeping"
       THEN Return("timeout") /\ UNCHANGED output
       ELSE /\ main' = "capture"
            /\ UNCHANGED <<evaluation, loopError, output, timer, ready, call,
                           limiter, trace, clock, outcome>>

\* capture_console runs JavaScript, so a terminated isolate fails it.
Capture ==
    /\ main = "capture"
    /\ IF watchdog = "terminated"
       THEN Return("captureFailed")
       ELSE Return(IF output THEN "success" ELSE "failure")
    /\ UNCHANGED output

-----------------------------------------------------------------------------
(* Time. *)

\* The future is suspended at an await, so its thread is free.
Parked == main = "loop" \/ (main = "join" /\ evaluation = "pending")

Deadline ==
    /\ ~expired
    /\ main # "done"
    /\ expired' = TRUE
    /\ UNCHANGED <<control, call, limiter, trace, watchdog, outcome>>

\* The watchdog task: sleep, store timed_out, then terminate_execution.  It
\* runs beside the script only if the runtime has a second thread; on one
\* thread its two stores are one poll, between two polls of the execution.  It
\* is aborted when the execution returns.
WatchdogOn(threadFree, oneThread) ==
    /\ expired
    /\ main # "done"
    /\ threadFree
    /\ \/ /\ watchdog = "sleeping"
          /\ watchdog' = IF oneThread THEN "terminated" ELSE "fired"
       \/ /\ watchdog = "fired"
          /\ watchdog' = "terminated"
    /\ UNCHANGED <<control, call, limiter, trace, expired, outcome>>

\* Mutants: a watchdog thread where the child has none, and the reverse.
Watchdog_OwnThread  == WatchdogOn(TRUE, FALSE)
Watchdog_NeedsAwait == WatchdogOn(Parked, TRUE)

Watchdog == WatchdogOn(Workers > 1 \/ Parked, Workers = 1)

\* tokio::time::timeout around runtime::execute: looked at whenever the
\* polled execution is pending.
OuterTimeout ==
    /\ expired
    /\ Parked
    /\ Return("timeout")
    /\ UNCHANGED output

Done == main = "done" /\ UNCHANGED vars

-----------------------------------------------------------------------------

Program == SettleRun \/ SetTimer \/ Yield \/ RejectUnhandled

HostCall(c) == Issue(c) \/ EnterHost(c) \/ Answer(c)

Epilogue == Join \/ ExtractOutput \/ CheckWatchdog \/ Capture

Next ==
    \/ SetupFails \/ LoadModule \/ Program \/ ScriptTerminated
    \/ TimerFires \/ Resume \/ LoopDrains
    \/ \E c \in Calls : HostCall(c)
    \/ Epilogue
    \/ Deadline \/ Watchdog \/ OuterTimeout
    \/ Done

\* Time passes, the runtime polls what is ready, V8 honours a termination;
\* the Timeout looks at its deadline after every pending poll, hence SF.
\* Nothing is assumed of the program or of the host.
Fairness ==
    /\ WF_vars(LoadModule)
    /\ WF_vars(ScriptTerminated)
    /\ WF_vars(Epilogue)
    /\ WF_vars(Deadline)
    /\ WF_vars(Watchdog)
    /\ SF_vars(OuterTimeout)

Spec     == Init /\ [][Next]_vars
FairSpec == Spec /\ Fairness

-----------------------------------------------------------------------------
(* Properties. *)

TypeOK ==
    /\ main \in Mains
    /\ evaluation \in {"pending", "fulfilled", "rejected"}
    /\ loopError \in {"none", "script", "terminated"}
    /\ output \in BOOLEAN /\ timer \in BOOLEAN /\ ready \in BOOLEAN
    /\ call \in [Calls -> CallState]
    /\ queue \in Seq(Calls)
    /\ permits \in 0..MaxConcurrent
    /\ spent \in Nat
    /\ ticketed \subseteq Calls /\ recorded \subseteq ticketed
    /\ truncated \in BOOLEAN /\ expired \in BOOLEAN
    /\ watchdog \in {"sleeping", "fired", "terminated"}
    /\ outcome \in Outcomes

\* No permit of the concurrency limiter is lost or forged, and none is free
\* while a call waits for one: a leak in any early return of
\* op_codemode_invoke would starve the calls after it.
PermitsConserved ==
    /\ permits + Cardinality(Holders) = MaxConcurrent
    /\ queue # <<>> => permits = 0

\* However the calls interleave, no more than max_calls of them are handed
\* to the host in one execution.
HostCallsWithinBudget == Cardinality(Served) <= MaxCalls

\* An execution is reported successful only when every call it made was
\* answered, and the trace then lists each of them or says it is truncated:
\* a fire-and-forget call cannot be cut off behind a success.
SuccessIsComplete ==
    outcome = "success" =>
        /\ Made \subseteq InState({"answered", "refused"})
        /\ Made \subseteq recorded \/ truncated

\* With the shipped limits (more trace entries than calls) every call the
\* host answered is in the trace, even when refused calls overflow it.
AnsweredCallsTraced ==
    MaxTrace >= MaxCalls => InState({"answered"}) \subseteq recorded

\* A program the watchdog terminated is never reported as an ordinary result:
\* timed_out is stored before terminate_execution, and checked after.
TerminatedNeverReported ==
    loopError = "terminated" => outcome \in {"none", "timeout"}

\* On one thread the watchdog cannot fire between watchdog.check and the
\* capture of the console, so a timeout is never turned into a runtime error.
NoCaptureFailure == outcome # "captureFailed"

\* Every execution ends: the watchdog stops a program that never awaits, the
\* outer timeout one that never settles.
Terminates == <>(main = "done")

\* The host calls of an execution are a bounded service: however they
\* interleave, each reaches the host once at most, no more than max_calls do,
\* and no more than max_concurrent_calls are there together.
Service == INSTANCE BoundedService
             WITH Clients <- Calls, MaxServed <- MaxCalls,
                  inService <- InState({"host"}), served <- Served
ImplementsService == Service!Spec
=============================================================================
