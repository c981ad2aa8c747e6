-------------------------------- MODULE Server --------------------------------
(***************************************************************************)
(* The server in Code Mode, from the arrival of an `execute` call to its   *)
(* answer: S2McpServer::dispatch_tool (crates/s2-mcp/src/server.rs) takes  *)
(* the connection of ManagedRuntime into the executor pool of              *)
(* ExecutorPool.  Both see the same requests and the same cancellations,   *)
(* and every step of a request is one of either or of both.                *)
(***************************************************************************)
EXTENDS Integers, Sequences, FiniteSets

CONSTANTS
    Requests,     \* the `execute` calls the client makes
    MaxExecutors  \* MAX_CONCURRENT_EXECUTORS

\* A request is none of the names ManagedRuntime uses beside requests.
ASSUME ServerAssumption ==
    /\ IsFiniteSet(Requests)
    /\ Requests \cap {"nobody", "none", "cloud", "file", "url", "variables"} = {}
    /\ MaxExecutors \in Nat \ {0}

VARIABLES
    cancelled,                               \* of both
    intent, at, value, owner, waiting, lite, \* of ManagedRuntime
    request, expired, child, result, queue, permits  \* of ExecutorPool

Runtime == INSTANCE ManagedRuntime WITH mode <- "code", queue <- waiting

\* The pool is the value of its OnceCell.
Pool == INSTANCE ExecutorPool WITH pool <- value["pool"] # Runtime!Empty

runtimeVars == <<intent, at, value, owner, waiting, lite>>
poolVars    == <<request, expired, child, result, queue, permits>>
vars        == <<cancelled, runtimeVars, poolVars>>

Init == Runtime!Init /\ Pool!Init

-----------------------------------------------------------------------------

\* Both parts answer a request together.
AnsweredTogether(r) == (at'[r] = "answered") = (request'[r] = "answered")

Arrive(r) == Runtime!Arrive(r) /\ Pool!Arrive(r) /\ AnsweredTogether(r)

Cancel(r) ==
    /\ Runtime!Cancel(r)
    /\ request[r] # "answered"
    /\ UNCHANGED poolVars

\* runtime.configuration(), outside the select.
Configuration(r) ==
    /\ Runtime!Ask(r, "runtime") \/ Runtime!StartLite(r) \/ Runtime!Manage(r)
    /\ IF at'[r] \in {"runtime", "starting", "started"} THEN UNCHANGED poolVars
       ELSE Pool!Configure(r) /\ AnsweredTogether(r)

\* Mutant: the request that makes the pool goes ahead without a permit.
ExecutorPool_NoPermit(r) ==
    /\ Runtime!Ask(r, "pool") \/ Runtime!Open(r)
    /\ IF at'[r] \in {"pool", "opening"} THEN UNCHANGED poolVars
       ELSE IF value["pool"] # Runtime!Empty \/ at'[r] = "answered"
       THEN Pool!Acquire(r) /\ AnsweredTogether(r)
       ELSE /\ request' = [request EXCEPT ![r] = "spawning"]
            /\ UNCHANGED <<expired, child, result, queue, permits>>

\* executor_pool.get_or_try_init(); the poll that returns it goes on to acquire
\* a permit.
ExecutorPool(r) ==
    /\ Runtime!Ask(r, "pool") \/ Runtime!Open(r)
    /\ IF at'[r] \in {"pool", "opening"} THEN UNCHANGED poolVars
       ELSE Pool!Acquire(r) /\ AnsweredTogether(r)

\* pool.execute().
Execute(r) ==
    /\ UNCHANGED runtimeVars
    /\ Pool!Start(r) \/ Pool!Spawn(r) \/ Pool!Timeout(r)

Expire(r) == UNCHANGED runtimeVars /\ Pool!Expire(r)

\* The child reads its request, answers or dies.
Child(r) ==
    /\ UNCHANGED runtimeVars
    /\ Pool!Write(r) \/ Pool!Receive(r) \/ Pool!ChildReply(r) \/ Pool!ChildExit(r)

\* Mutant: a cancellation does not reach the executor pool.
DropCall_BeforePool(r) ==
    /\ at[r] \in {"pool", "opening"}
    /\ Runtime!DropCall(r)
    /\ Pool!DropCall(r)

\* The biased select drops execute_code: before it has a permit it ends, later
\* it gives up its child first.
DropCall(r) ==
    \/ /\ request[r] \in {"select", "queued"}
       /\ Runtime!DropCall(r)
       /\ Pool!DropCall(r)
    \/ /\ request[r] \notin {"select", "queued"}
       /\ UNCHANGED runtimeVars
       /\ Pool!DropCall(r)

\* execute_code returns, or is dropped, and the request is answered.
Finish(r) ==
    /\ Runtime!Answer(r) \/ Runtime!DropCall(r)
    /\ Pool!Release(r)

-----------------------------------------------------------------------------

Prepare(r) == Configuration(r) \/ ExecutorPool(r)
Serve(r)   == Execute(r) \/ DropCall(r) \/ Finish(r)

Next ==
    \/ \E r \in Requests :
           Arrive(r) \/ Cancel(r) \/ Prepare(r) \/ Serve(r) \/ Expire(r) \/ Child(r)
    \/ request = [r \in Requests |-> "answered"] /\ UNCHANGED vars

\* The server polls what is woken, S2Lite::start returns, and time passes.  A
\* child owes nothing.
Fairness ==
    \A r \in Requests :
        WF_vars(Prepare(r)) /\ WF_vars(Serve(r)) /\ WF_vars(Expire(r))

Spec     == Init /\ [][Next]_vars
FairSpec == Spec /\ Fairness

-----------------------------------------------------------------------------
(* Properties. *)

\* What is proved and checked of each part holds in the whole: a step of the
\* server is a step of its pool or none, and so for its runtime.
ImplementsParts == Pool!Spec /\ Runtime!Spec

\* An executor lives only while its request executes, and all that time the
\* endpoint chosen at start is the one it works at: no failure or cancellation
\* of another request takes its container away.
ChildHasItsEndpoint ==
    /\ \A r \in Pool!Live : at[r] = "executing"
    /\ Runtime!ChosenConnection

\* Every call is answered, though containers fail to start, the requests ahead
\* are cancelled or their children hang.
EveryCallIsAnswered ==
    \A r \in Requests : request[r] # "new" ~> request[r] = "answered"

\* A call that is cancelled, wherever it stands, is answered and its child gone.
CancelledIsStopped ==
    \A r \in Requests :
        r \in cancelled /\ request[r] # "new"
            ~> request[r] = "answered" /\ r \notin Pool!Live
=============================================================================
