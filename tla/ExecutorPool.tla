---------------------------- MODULE ExecutorPool ----------------------------
(***************************************************************************)
(* The server side of the `execute` tool (crates/s2-mcp/src/executor.rs    *)
(* and dispatch_tool/execute_code in server.rs): every request runs its    *)
(* program in a child process of its own, at most MaxExecutors at a time,  *)
(* under a supervisor timeout, inside a biased select with the request's   *)
(* cancellation.                                                           *)
(*                                                                         *)
(* Requests are tasks on a multi-thread runtime, so their steps interleave *)
(* freely.  A step of a request stands for one poll of its task: the       *)
(* biased select looks at the cancellation first, so a step that makes     *)
(* progress is guarded by ~cancelled.  A child may hang, die or answer.    *)
(***************************************************************************)
EXTENDS Integers, Sequences, FiniteSets, SequencesExt

CONSTANTS
    Requests,     \* the `execute` calls the client makes
    MaxExecutors  \* MAX_CONCURRENT_EXECUTORS

ASSUME PoolAssumption ==
    /\ IsFiniteSet(Requests)
    /\ MaxExecutors \in Nat \ {0}

VARIABLES
    request,    \* where each request's future is
    cancelled,  \* the requests whose cancellation token is set
    expired,    \* the requests whose supervisor timeout has elapsed
    child,      \* the executor process of each request
    result,     \* what the request was, or is about to be, answered
    pool,       \* executor_pool is initialised
    queue,      \* the semaphore's FIFO of waiting requests
    permits     \* the semaphore's free permits

vars == <<request, cancelled, expired, child, result, pool, queue, permits>>

RequestState == {"new", "configuring", "select", "queued", "granted",
                 "spawning", "writing", "awaiting", "releasing", "answered"}
ChildState   == {"none", "alive", "replied", "exited", "killed"}
Results      == {"none", "invalid", "unconfigured", "cancelled", "poolFailed",
                 "spawnFailed", "ioFailed", "frameTooLarge", "success",
                 "childError", "childTimeout", "timeout", "failed"}

InState(S) == {r \in Requests : request[r] \in S}
\* The requests that own a permit of the pool.
Holders    == InState({"granted", "spawning", "writing", "awaiting",
                       "releasing"})
\* The executor processes that have neither exited nor been killed.
Live       == {r \in Requests : child[r] \in {"alive", "replied"}}
Spawned    == {r \in Requests : child[r] # "none"}

Init ==
    /\ request = [r \in Requests |-> "new"]
    /\ cancelled = {}
    /\ expired = {}
    /\ child = [r \in Requests |-> "none"]
    /\ result = [r \in Requests |-> "none"]
    /\ pool = FALSE
    /\ queue = <<>>
    /\ permits = MaxExecutors

-----------------------------------------------------------------------------
(* Answering. *)

\* Answer without a permit or a child.
Answer(r, why) ==
    /\ request' = [request EXCEPT ![r] = "answered"]
    /\ result' = [result EXCEPT ![r] = why]

\* Mutant: the permit is dropped with the worker still alive.
Stop_PermitFirst(r, why) ==
    /\ request' = [request EXCEPT ![r] = "releasing"]
    /\ result' = [result EXCEPT ![r] = why]
    /\ UNCHANGED <<cancelled, expired, child, pool, queue, permits>>

\* The execution future ends or is dropped.  Its worker goes first, and
\* kill_on_drop kills a child that still lives; the permit goes after it.
Stop(r, why) ==
    /\ request' = [request EXCEPT ![r] = "releasing"]
    /\ result' = [result EXCEPT ![r] = why]
    /\ child' = [child EXCEPT ![r] = IF @ \in {"alive", "replied"}
                                     THEN "killed" ELSE @]
    /\ UNCHANGED <<cancelled, expired, pool, queue, permits>>

\* Mutant: a waiter is woken although the permit went back to the pool.
Release_Twice(r) ==
    /\ request[r] = "releasing"
    /\ permits' = permits + 1
    /\ IF queue = <<>>
       THEN /\ request' = [request EXCEPT ![r] = "answered"]
            /\ UNCHANGED queue
       ELSE /\ request' = [request EXCEPT ![r] = "answered",
                                          ![Head(queue)] = "granted"]
            /\ queue' = Tail(queue)
    /\ UNCHANGED <<cancelled, expired, child, result, pool>>

\* drop(_permit): handed to the first waiter, if any.
Release(r) ==
    /\ request[r] = "releasing"
    /\ IF queue = <<>>
       THEN /\ request' = [request EXCEPT ![r] = "answered"]
            /\ permits' = permits + 1
            /\ UNCHANGED queue
       ELSE /\ request' = [request EXCEPT ![r] = "answered",
                                          ![Head(queue)] = "granted"]
            /\ queue' = Tail(queue)
            /\ UNCHANGED permits
    /\ UNCHANGED <<cancelled, expired, child, result, pool>>

-----------------------------------------------------------------------------
(* dispatch_tool: decoding and configuration, outside the select. *)

Arrive(r) ==
    /\ request[r] = "new"
    /\ \/ Answer(r, "invalid")
       \/ /\ request' = [request EXCEPT ![r] = "configuring"]
          /\ UNCHANGED result
    /\ UNCHANGED <<cancelled, expired, child, pool, queue, permits>>

\* runtime.configuration() returns.  A cancellation does not interrupt it.
Configure(r) ==
    /\ request[r] = "configuring"
    /\ \/ Answer(r, "unconfigured")
       \/ /\ request' = [request EXCEPT ![r] = "select"]
          /\ UNCHANGED result
    /\ UNCHANGED <<cancelled, expired, child, pool, queue, permits>>

\* The client withdraws a request it has no answer to yet.
Cancel(r) ==
    /\ request[r] # "answered"
    /\ cancelled' = cancelled \cup {r}
    /\ UNCHANGED <<request, expired, child, result, pool, queue, permits>>

-----------------------------------------------------------------------------
(* execute_code: the pool, its semaphore, and one worker. *)

\* First poll: the pool is made once; then a permit, or a place in the queue.
Acquire(r) ==
    /\ request[r] = "select"
    /\ r \notin cancelled
    /\ \/ /\ ~pool                      \* current_exe fails: retried next time
          /\ Answer(r, "poolFailed")
          /\ UNCHANGED <<pool, queue, permits>>
       \/ /\ pool' = TRUE
          /\ UNCHANGED result
          /\ IF permits > 0
             THEN /\ request' = [request EXCEPT ![r] = "spawning"]
                  /\ permits' = permits - 1
                  /\ UNCHANGED queue
             ELSE /\ request' = [request EXCEPT ![r] = "queued"]
                  /\ queue' = Append(queue, r)
                  /\ UNCHANGED permits
    /\ UNCHANGED <<cancelled, expired, child>>

Start(r) ==
    /\ request[r] = "granted"
    /\ r \notin cancelled
    /\ request' = [request EXCEPT ![r] = "spawning"]
    /\ UNCHANGED <<cancelled, expired, child, result, pool, queue, permits>>

\* Command::spawn.  The supervisor timeout runs from here on.
Spawn(r) ==
    /\ request[r] = "spawning"
    /\ r \notin cancelled
    /\ \/ Stop(r, "spawnFailed")
       \/ /\ request' = [request EXCEPT ![r] = "writing"]
          /\ child' = [child EXCEPT ![r] = "alive"]
          /\ UNCHANGED <<cancelled, expired, result, pool, queue, permits>>

\* write_frame: refused for its size, broken pipe, or taken by the child.
Write(r) ==
    /\ request[r] = "writing"
    /\ r \notin cancelled
    /\ \/ Stop(r, "frameTooLarge")
       \/ child[r] = "exited" /\ Stop(r, "ioFailed")
       \/ /\ request' = [request EXCEPT ![r] = "awaiting"]
          /\ UNCHANGED <<cancelled, expired, child, result, pool, queue,
                         permits>>

\* read_frame: a response of the child, or the end of its stdout.
Receive(r) ==
    /\ request[r] = "awaiting"
    /\ r \notin cancelled
    /\ \/ /\ child[r] = "replied"
          /\ \E answer \in {"success", "childError", "childTimeout"} :
                 Stop(r, answer)
       \/ child[r] = "exited" /\ Stop(r, "failed")

\* Mutant: the timeout covers the response only, not the request frame.
Supervised_ResponseOnly(r) == request[r] = "awaiting"

Supervised(r) == request[r] \in {"writing", "awaiting"}

Expire(r) ==
    /\ Supervised(r)
    /\ expired' = expired \cup {r}
    /\ UNCHANGED <<request, cancelled, child, result, pool, queue, permits>>

Timeout(r) ==
    /\ Supervised(r)
    /\ r \in expired
    /\ r \notin cancelled
    /\ Stop(r, "timeout")

\* Mutant: a waiter is answered but stays in the queue.
Withdraw_StillQueued(r) ==
    /\ request[r] = "queued"
    /\ Answer(r, "cancelled")
    /\ UNCHANGED <<cancelled, expired, child, pool, queue, permits>>

\* A waiter leaves the queue.
Withdraw(r) ==
    /\ request[r] = "queued"
    /\ Answer(r, "cancelled")
    /\ \E i \in DOMAIN queue : queue[i] = r /\ queue' = RemoveAt(queue, i)
    /\ UNCHANGED <<cancelled, expired, child, pool, permits>>

\* Mutant: the future that was handed a permit is dropped without it.
DropCall_PermitLost(r) ==
    /\ r \in cancelled
    /\ \/ /\ request[r] \in {"select", "granted"}
          /\ Answer(r, "cancelled")
          /\ UNCHANGED <<cancelled, expired, child, pool, queue, permits>>
       \/ Withdraw(r)
       \/ /\ request[r] \in {"spawning", "writing", "awaiting"}
          /\ Stop(r, "cancelled")

\* The select's first branch: execute_code is dropped where it stands.  A
\* holder, even one not polled since it was handed the permit, gives it up.
DropCall(r) ==
    /\ r \in cancelled
    /\ \/ /\ request[r] = "select"
          /\ Answer(r, "cancelled")
          /\ UNCHANGED <<cancelled, expired, child, pool, queue, permits>>
       \/ Withdraw(r)
       \/ /\ request[r] \in {"granted", "spawning", "writing", "awaiting"}
          /\ Stop(r, "cancelled")

-----------------------------------------------------------------------------
(* run_child. *)

ChildReply(r) ==
    /\ child[r] = "alive"
    /\ request[r] = "awaiting"
    /\ child' = [child EXCEPT ![r] = "replied"]
    /\ UNCHANGED <<request, cancelled, expired, result, pool, queue, permits>>

ChildExit(r) ==
    /\ child[r] = "alive"
    /\ child' = [child EXCEPT ![r] = "exited"]
    /\ UNCHANGED <<request, cancelled, expired, result, pool, queue, permits>>

-----------------------------------------------------------------------------

Server(r) == Start(r) \/ Spawn(r) \/ Timeout(r) \/ DropCall(r) \/ Release(r)

Next ==
    \/ \E r \in Requests :
           \/ Arrive(r) \/ Configure(r) \/ Cancel(r)
           \/ Acquire(r) \/ Write(r) \/ Receive(r) \/ Expire(r)
           \/ Server(r)
           \/ ChildReply(r) \/ ChildExit(r)
    \/ request = [r \in Requests |-> "answered"] /\ UNCHANGED vars

Spec == Init /\ [][Next]_vars

-----------------------------------------------------------------------------
(* Properties. *)

TypeOK ==
    /\ request \in [Requests -> RequestState]
    /\ cancelled \subseteq Requests
    /\ expired \subseteq Requests
    /\ child \in [Requests -> ChildState]
    /\ result \in [Requests -> Results]
    /\ pool \in BOOLEAN
    /\ queue \in Seq(Requests)
    /\ permits \in 0..MaxExecutors

\* No request that fails, times out or is cancelled at any point, even between
\* being handed a permit and being polled, loses or forges a permit, and no
\* permit is free while a request waits.
PermitsConserved ==
    /\ permits + Cardinality(Holders) = MaxExecutors
    /\ queue # <<>> => permits = 0

\* The queue holds exactly the waiting requests, so a permit is never handed
\* to one that has been answered.
QueueIsWaiting == Range(queue) = InState({"queued"})

\* A live executor process belongs to a request that still owns its permit:
\* no answer, be it an error, a timeout or a cancellation, leaves one behind.
NoStrayChild == Live \subseteq Holders

\* The executor processes are a bounded service: one per request at most, and
\* at most MaxExecutors alive.
Service == INSTANCE BoundedService
             WITH Clients <- Requests, MaxServed <- Cardinality(Requests),
                  MaxConcurrent <- MaxExecutors,
                  inService <- Live, served <- Spawned
ImplementsService == Service!Spec
=============================================================================
