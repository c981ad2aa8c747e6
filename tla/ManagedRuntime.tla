--------------------------- MODULE ManagedRuntime ---------------------------
(***************************************************************************)
(* How a request gets its connection to S2: the launch intent resolved at  *)
(* start (crates/s2-mcp/src/launch.rs, config.rs) and the nested OnceCells *)
(* that are filled by the first requests (launch.rs, server.rs,            *)
(* operations/mod.rs).  With `--dev` the first of them starts an S2 Lite   *)
(* container; others wait for it, and try themselves if it failed.         *)
(*                                                                         *)
(* tokio's OnceCell is modelled from how the code relies on it: one        *)
(* initialiser at a time, a FIFO of waiters, of which the first takes over *)
(* when an initialiser fails or is dropped, and all see the value once it  *)
(* is there.  Requests run on two threads, so steps interleave freely.     *)
(* What a request does with its connection is ExecutorPool (Code Mode) or  *)
(* PolicyGate (Tools Mode).                                                *)
(***************************************************************************)
EXTENDS Integers, Sequences, FiniteSets, SequencesExt

CONSTANT Requests  \* the tool calls of the client

\* A request is none of the names used below beside requests.
ASSUME RequestsAssumption ==
    /\ IsFiniteSet(Requests)
    /\ Requests \cap {"nobody", "none", "cloud", "file", "url", "variables"} = {}

VARIABLES
    mode,       \* ServerMode
    intent,     \* LaunchIntent
    at,         \* where each request's future is
    cancelled,  \* the requests whose cancellation token is set
    value,      \* what each OnceCell holds
    owner,      \* who is initialising it
    queue,      \* who waits for that, in order
    lite        \* the S2 Lite container each request has started

launch == <<mode, intent>>
cells  == <<value, owner, queue>>
vars   == <<launch, at, cancelled, cells, lite>>

Cells  == {"operations", "runtime", "s2", "pool"}
Empty  == [endpoint |-> "none"]
Nobody == "nobody"

\* The places inside the select with the cancellation, and those before it.
InSelect == {"s2", "connecting", "calling", "pool", "opening", "executing"}
Places   == {"new", "operations", "runtime", "starting", "started", "building",
             "answered"} \cup InSelect

Live == {r \in Requests : lite[r] = "up"}

-----------------------------------------------------------------------------
(* S2Configuration.  Both endpoints are set or neither is; a container's    *)
(* endpoint is named by the request that started it.                        *)

Endpoints  == {"cloud", "file", "url", "variables"} \cup Requests
Connection == [endpoint    : Endpoints,
               environment : {"cloud", "managed_lite", "custom_endpoint"},
               token       : BOOLEAN,
               key         : {"none", "valid", "invalid"}]

\* What serializing and deserializing a configuration leaves of it.
Transferred(c) ==
    [c EXCEPT !.environment =
        IF c.endpoint = "cloud" THEN "cloud"
        ELSE IF @ = "managed_lite" THEN @ ELSE "custom_endpoint"]

\* The S2 CLI's file, which may name endpoints, and the variables over it.
Persisted == {Transferred(c) : c \in {c \in Connection :
                c.endpoint \in {"cloud", "file"}}}

\* Mutant: the file's endpoints are kept.
LoadCloud_FileEndpoints == Persisted

LoadCloud ==
    {[c EXCEPT !.endpoint = "cloud", !.environment = "cloud"] : c \in Persisted}

Custom(endpoint, environment) ==
    [endpoint |-> endpoint, environment |-> environment, token |-> TRUE,
     key |-> "none"]

\* What ResolvedRuntime::resolve leaves in the runtime.
Resolve ==
    CASE intent = "cloud"       -> LoadCloud
      [] intent = "managed"     -> {Empty}
      [] intent = "endpoint"    -> {Custom("url", "custom_endpoint")}
      [] intent = "environment" -> {Custom("variables", "custom_endpoint")}

Init ==
    /\ mode \in {"code", "tools"}
    /\ intent \in {"cloud", "managed", "endpoint", "environment"}
    /\ at = [r \in Requests |-> "new"]
    /\ cancelled = {}
    /\ \E runtime \in Resolve :
           value = [c \in Cells |-> IF c = "runtime" THEN runtime ELSE Empty]
    /\ owner = [c \in Cells |-> Nobody]
    /\ queue = [c \in Cells |-> <<>>]
    /\ lite = [r \in Requests |-> "none"]

-----------------------------------------------------------------------------
(* OnceCell::get_or_try_init. *)

\* The first thing a cell's closure does, and where its value leads.
Inside(c) == CASE c = "operations" -> "runtime"
               [] c = "runtime"    -> "starting"
               [] c = "s2"         -> "connecting"
               [] c = "pool"       -> "opening"

After(c) == CASE c = "operations" -> "s2"
              [] c = "runtime"    -> IF mode = "code" THEN "pool" ELSE "building"
              [] c = "s2"         -> "calling"
              [] c = "pool"       -> "executing"

Waits(r, c) == r \in Range(queue[c])

\* The biased select looks at the cancellation before it polls the rest.
Polled(r) == at[r] \in InSelect => r \notin cancelled

Ask(r, c) ==
    /\ at[r] = c /\ ~Waits(r, c)
    /\ Polled(r)
    /\ \/ /\ value[c] # Empty
          /\ at' = [at EXCEPT ![r] = After(c)]
          /\ UNCHANGED <<owner, queue>>
       \/ /\ value[c] = Empty /\ owner[c] = Nobody
          /\ owner' = [owner EXCEPT ![c] = r]
          /\ at' = [at EXCEPT ![r] = Inside(c)]
          /\ UNCHANGED queue
       \/ /\ value[c] = Empty /\ owner[c] # Nobody
          /\ queue' = [queue EXCEPT ![c] = Append(@, r)]
          /\ UNCHANGED <<at, owner>>
    /\ UNCHANGED <<launch, cancelled, value, lite>>

\* r's closure returned the value: the semaphore is closed and all wake up.
Fill(r, c, v) ==
    /\ value' = [value EXCEPT ![c] = v]
    /\ owner' = [owner EXCEPT ![c] = Nobody]
    /\ queue' = [queue EXCEPT ![c] = <<>>]
    /\ at' = [at EXCEPT ![r] = After(c)]

Owns(r, c) == owner[c] = r
Heirs(r)   == {c \in Cells : Owns(r, c) /\ queue[c] # <<>>}

\* A dropped waiter gives up its place.
Without(waiters, r) ==
    IF r \in Range(waiters)
    THEN RemoveAt(waiters, CHOOSE i \in DOMAIN waiters : waiters[i] = r)
    ELSE waiters

\* Mutant: a failed initialiser stays the cell's owner.
Leave_StillOwner(r) ==
    /\ at' = [at EXCEPT ![r] = "answered"]
    /\ queue' = [c \in Cells |-> Without(queue[c], r)]
    /\ UNCHANGED owner

\* r is answered: it gives up its place in every queue, and each cell it was
\* initialising goes to the first of its waiters.
Leave(r) ==
    /\ at' = [x \in Requests |->
                IF x = r THEN "answered"
                ELSE IF \E c \in Heirs(r) : Head(queue[c]) = x
                THEN Inside(CHOOSE c \in Heirs(r) : Head(queue[c]) = x)
                ELSE at[x]]
    /\ owner' = [c \in Cells |->
                   IF ~Owns(r, c) THEN owner[c]
                   ELSE IF c \in Heirs(r) THEN Head(queue[c]) ELSE Nobody]
    /\ queue' = [c \in Cells |->
                   IF c \in Heirs(r) THEN Tail(queue[c])
                   ELSE Without(queue[c], r)]

Fail(r) == Leave(r) /\ UNCHANGED <<launch, cancelled, value>>

-----------------------------------------------------------------------------
(* dispatch_tool. *)

\* Invalid arguments, or `search`, are answered at once.
Arrive(r) ==
    /\ at[r] = "new"
    /\ at' \in {[at EXCEPT ![r] = place] :
                place \in {"answered",
                           IF mode = "code" THEN "runtime" ELSE "operations"}}
    /\ UNCHANGED <<launch, cancelled, cells, lite>>

Cancel(r) ==
    /\ at[r] # "answered"
    /\ cancelled' = cancelled \cup {r}
    /\ UNCHANGED <<launch, at, cells, lite>>

\* S2Lite::start creates a container, or cannot.
StartLite(r) ==
    /\ at[r] = "starting"
    /\ \/ /\ lite' = [lite EXCEPT ![r] = "up"]
          /\ at' = [at EXCEPT ![r] = "started"]
          /\ UNCHANGED <<launch, cancelled, cells>>
       \/ Fail(r) /\ UNCHANGED lite

\* Mutant: the configuration is kept, the container's guard is not.
Manage_NoGuard(r) ==
    /\ at[r] = "started"
    /\ lite' = [lite EXCEPT ![r] = "removed"]
    /\ \/ /\ Fill(r, "runtime", Custom(r, "managed_lite"))
          /\ UNCHANGED <<launch, cancelled>>
       \/ Fail(r)

\* The container comes up and its endpoint is accepted; if not, the closure
\* returns an error and drops the container with it.
Manage(r) ==
    /\ at[r] = "started"
    /\ \/ /\ Fill(r, "runtime", Custom(r, "managed_lite"))
          /\ UNCHANGED <<launch, cancelled, lite>>
       \/ /\ lite' = [lite EXCEPT ![r] = "removed"]
          /\ Fail(r)

\* Operations::new parses the encryption key.
Build(r) ==
    /\ at[r] = "building"
    /\ IF value["runtime"].key = "invalid"
       THEN Fail(r)
       ELSE Fill(r, "operations", value["runtime"])
            /\ UNCHANGED <<launch, cancelled>>
    /\ UNCHANGED lite

\* A tool call that needs no service: connection_info, or one that is refused.
Local(r) ==
    /\ at[r] = "s2" /\ ~Waits(r, "s2")
    /\ Polled(r)
    /\ Fail(r)
    /\ UNCHANGED lite

\* S2::new of a configuration with an access token.
Connect(r) ==
    /\ at[r] = "connecting"
    /\ Polled(r)
    /\ \/ /\ value["operations"].token
          /\ Fill(r, "s2", value["operations"])
          /\ UNCHANGED <<launch, cancelled>>
       \/ Fail(r)
    /\ UNCHANGED lite

\* ExecutorPool::new with a clone of the connection, or no current_exe.
Open(r) ==
    /\ at[r] = "opening"
    /\ Polled(r)
    /\ \/ /\ Fill(r, "pool", value["runtime"])
          /\ UNCHANGED <<launch, cancelled>>
       \/ Fail(r)
    /\ UNCHANGED lite

\* The operation, or the executor child, answers.
Answer(r) ==
    /\ at[r] \in {"calling", "executing"}
    /\ Polled(r)
    /\ Fail(r)
    /\ UNCHANGED lite

DropCall(r) ==
    /\ r \in cancelled
    /\ at[r] \in InSelect
    /\ Fail(r)
    /\ UNCHANGED lite

-----------------------------------------------------------------------------

Server(r) ==
    \/ \E c \in Cells : Ask(r, c)
    \/ StartLite(r) \/ Manage(r) \/ Build(r)
    \/ Local(r) \/ Connect(r) \/ Open(r)
    \/ DropCall(r)

Next ==
    \/ \E r \in Requests : Arrive(r) \/ Cancel(r) \/ Server(r) \/ Answer(r)
    \/ at = [r \in Requests |-> "answered"] /\ UNCHANGED vars

\* The server polls what is woken, and S2Lite::start returns: it gives up
\* after its own startup timeout.  A service or a program owes no answer.
Fairness == \A r \in Requests : WF_vars(Server(r))

Spec     == Init /\ [][Next]_vars
FairSpec == Spec /\ Fairness

-----------------------------------------------------------------------------
(* Properties. *)

TypeOK ==
    /\ mode \in {"code", "tools"}
    /\ intent \in {"cloud", "managed", "endpoint", "environment"}
    /\ at \in [Requests -> Places]
    /\ cancelled \subseteq Requests
    /\ value \in [Cells -> Connection \cup {Empty}]
    /\ value["operations"] # Empty => value["operations"].key # "invalid"
    /\ value["s2"] # Empty => value["s2"].token
    /\ owner \in [Cells -> Requests \cup {Nobody}]
    /\ queue \in [Cells -> Seq(Requests)]
    /\ lite \in [Requests -> {"none", "up", "removed"}]

\* However requests race, fail and are cancelled, at most one container runs,
\* and once a configuration has been built from it, that one and no other
\* (README: it is reused for the lifetime of the process).
OneContainer ==
    /\ Cardinality(Live) <= 1
    /\ intent = "managed" /\ value["runtime"] # Empty
           => Live = {value["runtime"].endpoint}

\* The connection a request's work uses: the Operations' or the child's copy.
Used(r) == IF at[r] = "calling" THEN value["s2"] ELSE Transferred(value["pool"])

\* Work is done at the endpoint that was chosen at start, in either mode and
\* on either side of the executor's pipe: on Cloud whatever the file says,
\* with `--dev` in a container that is up, and never with a key that does not
\* parse.
ChosenConnection ==
    \A r \in Requests : at[r] \in {"calling", "executing"} =>
        /\ at[r] = "calling" => Used(r).token /\ Used(r).key # "invalid"
        /\ CASE intent = "cloud" ->
                    Used(r).endpoint = "cloud" /\ Used(r).environment = "cloud"
             [] intent = "managed" ->
                    /\ Used(r).endpoint \in Live
                    /\ Used(r).environment = "managed_lite"
             [] intent = "endpoint" -> Used(r) = Custom("url", "custom_endpoint")
             [] OTHER -> Used(r) = Custom("variables", "custom_endpoint")

\* A request that needs a connection gets to its work, or is answered, though
\* any number of those before it fail to start a container; and one that is
\* cancelled is answered: at once inside the select, before it when the
\* connection is there or has failed.
NobodyIsStuck ==
    \A r \in Requests :
        /\ at[r] # "new" ~> at[r] \in {"calling", "executing", "answered"}
        /\ r \in cancelled /\ at[r] # "new" ~> at[r] = "answered"
=============================================================================
