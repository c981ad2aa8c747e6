--------------------------- MODULE BoundedService ---------------------------
(***************************************************************************)
(* What a concurrency limit promises: each client is served at most once,  *)
(* at most MaxServed clients are ever served and at most MaxConcurrent at  *)
(* a time.  Two parts of the program promise it, with a tokio semaphore    *)
(* each: the host calls of one execution (CodeModeExecution) and the       *)
(* executor children of the server (ExecutorPool).                         *)
(***************************************************************************)
EXTENDS Naturals, FiniteSets

CONSTANTS
    Clients,       \* who may be served
    MaxServed,     \* how many are served in all
    MaxConcurrent  \* how many are served at a time

VARIABLES
    inService,  \* the clients being served
    served      \* the clients that have been served, ever

vars == <<inService, served>>

Init == inService = {} /\ served = {}

Enter(c) ==
    /\ c \notin served
    /\ Cardinality(served) < MaxServed
    /\ Cardinality(inService) < MaxConcurrent
    /\ inService' = inService \cup {c}
    /\ served' = served \cup {c}

Leave(c) ==
    /\ c \in inService
    /\ inService' = inService \ {c}
    /\ UNCHANGED served

\* Everyone is dropped together.
LeaveAll ==
    /\ inService' = {}
    /\ UNCHANGED served

\* Served at once: there was a place, and nobody saw it taken.
Pass(c) ==
    /\ c \notin served
    /\ Cardinality(served) < MaxServed
    /\ Cardinality(inService) < MaxConcurrent
    /\ served' = served \cup {c}
    /\ UNCHANGED inService

Next == LeaveAll \/ \E c \in Clients : Enter(c) \/ Pass(c) \/ Leave(c)

Spec == Init /\ [][Next]_vars
=============================================================================
