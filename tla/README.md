# s2-mcp in TLA+

`s2-mcp` is a Model Context Protocol server for S2, a durable stream store. A
client calls tools; a tool is either one S2 operation (Tools Mode) or a
TypeScript program that calls many of them (Code Mode). The server gives every
program a child process of its own, the child runs it in a V8 isolate under
limits, and every call it makes passes the same policy as a plain tool call.

This directory models the parts whose correctness depends on an order of steps
that no unit test fixes: host calls that share a budget and a permit pool,
timeouts that race with completion, cancellation at any await, children that
hang or die, reads resumed from a computed position, writes that are retried,
one policy checked in several places, pages and reports that are cut while what
they show changes.

## 1. The system

Paths are relative to `src/`. `codemode` is `crates/s2-mcp-codemode/src`,
`server` is `crates/s2-mcp/src`.

| Component | State it keeps | Operations | What makes it correct |
|---|---|---|---|
| Code Mode execution (`codemode/runtime.rs`, `lib.rs`) | `RuntimeInvoker` (call counter, semaphore, trace), the watchdog's `timed_out`, the isolate's event loop | `execute`, `op_codemode_invoke`, watchdog, outer `tokio::time::timeout`, `extract_output`, `capture_console` | limits hold however calls interleave; a success is complete; a timeout is reported as one; every execution ends |
| Executor pool (`server/executor.rs`, `server.rs`) | semaphore of 4 permits, one `Worker` (child process) per running request | `execute_code`, `ExecutorPool::execute`, `Worker::spawn`, `Worker::response`, `run_child` | permits are conserved, no child outlives its permit, a waiter is served, a cancelled request is stopped |
| MCP server (`server/server.rs`) | `OnceCell`s of the runtime configuration, the operations, the pool | `prepare_tool`, `prepare_execute`, `dispatch_tool` (biased select with the cancellation token), `call_tool` | each request gets one answer; a cancellation takes effect at any await |
| Record reads (`server/operations/records.rs`) | none: each answer carries `next_seq_num`, `caught_up`, `truncated` | `read_records`, `wait_for_records`, `PreparedReadOutput`, `bounded_record_prefix` | a client that follows `next_seq_num` sees every record once, in order |
| Record writes (`records.rs`, `stream.rs`) | none: `match_seq_num` and fencing tokens live in S2 | `append_records`, `fence_stream`, `trim_stream`, `check_tail` | a guarded write is applied at most once; a fenced-off writer writes nothing |
| Policy, catalog, dispatch (`policy.rs`, `catalog.rs`, `operation_registry.rs`, `operations/mod.rs`) | the policy: `readonly`, `basin`, `allow_destructive` | `Catalog::new`, `remove_basin_input`, `Operations::dispatch`, `enforce_operation`, `enforce_basin` | effects stay within the policy; what is advertised works |
| Resource operations (`operations/account.rs`, `basin.rs`) | none: configurations live in S2, a page's cursor with the client | list, ensure, reconfigure, delete, `diff_resources`, metrics, tokens | a report says what it left out; what it shows can be sent back and changes nothing else; pages miss no stream |
| Managed runtime (`launch.rs`) | `OnceCell` of the S2 Lite guard and the configuration built from it | `ResolvedRuntime::configuration` | at most one container, alive as long as its configuration; a failed start can be retried |
| JavaScript prelude (`codemode/runtime.js`) | console buffers with one byte budget, pending timers | `console.*`, `setTimeout`, the `s2` namespace | the budget holds and truncation is marked |
| Search (`lib.rs`) | none: a cursor names a function | `search`, `cursor_start` | pages neither repeat nor miss a match, also across a restart; a page fits |
| Output bounds (`lib.rs`) | none | `bound_output`, `truncate_streams` | the encoded output fits, and says what it lost |
| Declarations (`schema.rs`) | none | renders TypeScript | text only |
| Configuration (`config.rs`, `mode.rs`) | none after start | files, environment, SDK configuration | the endpoint chosen at start is the one used, in the child too |
| Process start (`main.rs`) | none | arguments; a multi-thread runtime for the server, a current-thread one for the child | the child's single thread decides what the watchdog can do |
| Errors (`error.rs`) | none | codes, retry advice | the advice is safe to follow |

How they interact. `call_tool` hands a request to `dispatch_tool`, which awaits
the configuration (and the container behind it) and then selects between the
cancellation and the work. A plain operation goes straight to
`Operations::dispatch`. `execute` goes to the pool, waits for a permit, spawns a
child, writes one frame with the program, the limits, the policy and the
configuration, and reads one frame back. In the child, `runtime::execute` polls
the isolate and its host calls in one future; the host is again
`Operations::dispatch`, so both modes meet at the policy.

## 2. The modules

| Module | Models | Composed with |
|---|---|---|
| `BoundedService` | the abstract promise of a concurrency limit: each client served at most once, at most `MaxServed` ever, at most `MaxConcurrent` together | implemented by the next two |
| `CodeModeExecution` (+ `MC...`, `...Proofs`) | one execution in the child | `INSTANCE BoundedService` as `Service` |
| `ExecutorPool` (+ `MC...`, `...Proofs`) | the server's side of `execute`, all requests together | `INSTANCE BoundedService` as `Service` |
| `RecordReader` (+ `...Proofs`) | a client following a stream that others append to and trim | stream external |
| `StreamWriter` (+ `MC...`, `...Proofs`) | clients that fence, append and retry on one stream | service external |
| `PolicyGate` | one request at a time under every policy | service external |
| `Catalog` (+ `...Proofs`) | the server its client sees in the course of time: requests, searches in pages, restarts under another policy | `EXTENDS PolicyGate` |
| `Resources` (+ `...Proofs`) | a client that lists, compares and reconfigures a basin and its streams among other clients | service external |
| `ManagedRuntime` (+ `...Proofs`) | how requests get their connection: launch intent, `OnceCell`s, the S2 Lite container, both modes | service and container external |
| `Server` (+ `...Proofs`) | an `execute` call from its arrival to its answer | `INSTANCE ManagedRuntime` as `Runtime`, `INSTANCE ExecutorPool` as `Pool` |
| `ExecutionOutput` (+ `MC...`; proofs in `CodeModeExecutionProofs`) | the console's budget and the bound on a result, one execution | the program external |

Inputs are chosen nondeterministically from small sets; names, payloads, texts
and JSON are left out. A definition named `X_...` just before a definition `X`,
commented "Mutant", is a version of `X` with a plausible bug; the properties are
checked to fail with it. No specification uses it.

### CodeModeExecution

`main` is the program counter of `runtime::execute` (load, script, loop, join,
extract, check, capture, done), `call[c]` that of `op_codemode_invoke` for call
`c`. `Issue` is the synchronous first poll of the op: it takes a trace ticket
(`Begin`), bumps the counter, checks budget and argument depth (`Refuse`), and
takes a permit or queues (`Admit`); a host that has its answer ready is done in
the same poll (`AnswerAtOnce`). `Answer` is a later poll in which the host
completes: the permit goes to the first waiter (`Release`), the entry is pushed
(`Finish`), the promise is settled. `SetupFails` are the early returns before the
program is loaded. JavaScript is any program: `SettleRun`,
`SetTimer`, `Yield`, `RejectUnhandled` happen in any order. The event loop
leaves when nothing is pending (`LoopDrains`) or a rejection is unhandled. After
it come `Join` (`evaluation.await`), `ExtractOutput`, `CheckWatchdog`, `Capture`,
with the code's early returns. `Return` drops the runtime and its futures.

Threads matter. `Parked` says that the future is at an await. On one thread
(`Workers = 1`, the shipped child, `main.rs:98`) the watchdog task runs only
then, and stores `timed_out` and terminates in one poll; with more it runs at
any point between the two stores.

### ExecutorPool

`request[r]` is where the future of a request stands, from `prepare_execute`
through the configuration, the select, the semaphore's FIFO, spawning, writing
the frame and awaiting the answer, to the drop of worker and permit
(`releasing`, then `answered`). `Stop` is the drop of the worker
(`kill_on_drop`), `Release` the later drop of `_permit`: two steps, in the order
the locals are declared. Every progress step requires that the request is not
cancelled, since the select is biased towards the cancellation; `DropCall` drops
the execution at whatever await it is, including a waiter that has been handed a
permit and not been polled. A child may answer, exit or hang at any point, also
before it reads its request.

### RecordReader

`cursor` is the position of the client's next call. `Serve` is the service's
batch, any contiguous run within the limits, with or without a tail; it starts
where the tail that the request met puts it (`StartAt`), and may be made later. `Respond`
is `PreparedReadOutput`: `NextSeqNum`, `BatchCaughtUp`, `Kept` (command records
left out), `FittingCount` and `NextAfter` (`bounded_record_prefix`), in the order
of the code. `WaitTimesOut` is the client-side deadline of `wait_for_records`,
which may drop a batch that has been served; `Fail` is an error, a cancellation
or a lost answer. `delivered`, `origin` and `caughtUp` are what the client
remembers.

### StreamWriter

A client learns the tail, may fence the stream, and appends one batch. A
cancelled call is dropped wherever it is (`Cancel`), its request may still be
applied later; the client retries with the same arguments, as the remediation of
`ExecutionError::Cancelled` says. `matching` are the clients that pass
`match_seq_num`: any, so that those that do may have others beside them that do
not. `net` is unordered, so requests are reordered
and delayed, a lost one is one never applied, and with `Resends` a request may
be applied more than once if the service lets it.

### PolicyGate

All twenty operations with their access and scope; the catalog's filter
(`Advertised`), the schema rewritten for a scoped server (`Conforms`), the
injection of the basin (`Inject`), parsing, the second check in dispatch, and
the checks each handler makes before each resource it touches (`Touch`).
`Bounded` is the count of `diff_resources`' resources, which the schema leaves open
and the handler checks once it has parsed them; what handlers check of other
arguments (a limit, an empty reconfiguration) is left out. `Finish` is the
handler's answer, as `operation_registry::dispatch` returns it.
`effects` records what reaches S2. `diff_resources` names several resources and
can stop at any of them.

### Catalog

`search` is one search that the client follows page by page: its query (whether
it is empty, and how each function ranks for it), the cursor, what was found.
`Ranked` is the catalog filtered and sorted for the query, `CursorStart` the
place after the function the cursor names, or none if it is not a match any
more, `Fitting` the loop that adds a match, measures the page with its cursor,
and takes it out again. `Restart` replaces the policy between two pages, and
with it the catalog; `Reranked` lets a change between a scoped and an unscoped
server move the functions whose schema it rewrites (`catalog.rs:78`), because
the names of their input properties count for the rank.

### Resources

A configuration is a function on the paths of its fields, with a field unset, at
its default or at another value; `Effective` is `EffectiveStreamConfig`. The
client's loop is `ListStreams` until there is no cursor, `StartDiff`, one
`Compare` per resource, `Report`, and one `Change` per entry of the report that
differs. A reconfiguration is a function from fields, or from the objects they
are nested in, to what JSON says of them: `Refuses` is what does not deserialize
or is refused by `try_into_sdk`, `Reconfigured` what is left of a configuration
(`NullableUpdate`: absent leaves alone, null clears, through two levels).
`EnsureBasin` and `EnsureStream` send a whole configuration, valid or not, and
`Convertible` is the validation in its conversion (`TryFrom`), without which
nothing reaches the service. Other
clients reconfigure, ensure and delete at any moment, also between two reads of
one `diff_resources`; a read or a change may fail. `touched` remembers what
they changed after the client compared it.

### Server

`Runtime` and `Pool` share the requests, the cancellations and the pool's
`OnceCell`: the pool exists when `value["pool"]` is filled. Each action is the
step of a request in one of them or both: `Configuration` is the await outside
the select, after which the pool's side enters it; `ExecutorPool` is
`get_or_try_init` and, in the same poll, the first poll of the semaphore;
`Execute`, `Child` and `Expire` are the pool's own; `DropCall` and `Finish` end a
request on both sides, with a step in between in which its child and permit are
given up.

### ManagedRuntime

`value`, `owner` and `queue` are the four nested `OnceCell`s: the operations
(whose closure first asks for the runtime), the runtime (the container), the SDK
client and the executor pool. `Ask` is the first poll of `get_or_try_init`: the
value is there, or the request becomes the initialiser, or it queues. `Fill` is
the closure's success; `Leave` is its error or its drop, which hands each cell
to its first waiter. `at[r]` is where a request's future stands; the places in
`InSelect` are those where `dispatch_tool` looks at the cancellation, so that
one that waits for the container does not see it (`server.rs:208`). `lite[r]` is
the container that `r` has started. `Resolve` is what `main.rs` resolves before
the first request, and `Transferred` is a configuration written as TOML or JSON
and read again, which happens to the S2 CLI's file and on the way to the child.

### ExecutionOutput

A call of `console.*` takes two steps. `CallConsole` looks at the budget and
enters `format()`; `CaptureLine` has the formatted line, and cuts and counts it in
the bytes of `runtime.js`. Between the two runs the program's own `toJSON` and
`toString`, which may call the console in turn: `formatting` is the stack of the
calls that wait, and an inner line is captured before an outer one.
`FormatThrows` is a formatting that throws, and leaves nothing. `nested` is a
history variable, the depth of that stack when it was entered again: each waiting
call has passed the check and may count its line break over a budget that inner
calls have spent (`runtime.js:43-45`), so `ConsoleWithinBudget` allows one byte for
each, and `StreamsArePrefixes` a trailing line break. No comment or test promises
the budget to the byte, so this is no finding.
`MapExecution` is `capture_console`, `map_execution` and `bound_output` in the bytes of JSON, one
operator per statement of `bound_output`. Three kinds of characters are enough
to tell the two counts apart: one byte in both, one byte that JSON escapes, and
two bytes. The one diagnostic `map_execution` makes, the returned value and the
trace are their sizes.

## 3. The runs

| Run | Question | Bounds |
|---|---|---|
| `ExecutionOneThread` | On the shipped child: do the limits hold, is a success complete, is every answered call traced, can a timeout turn into a capture error, does it implement `BoundedService`? | 4 calls, budget 3, 2 permits, 3 trace entries |
| `ExecutionTwoThreads` | With a second thread: does every execution end, and is a terminated program always a timeout? | 2 calls, budget 1, 1 permit |
| `ExecutionSpin` (violated) | Does the shipped child stop a program that never awaits? | 1 call |
| `ExecutorPoolSafety` | Are permits, queue and children consistent whatever fails or is cancelled, and does the pool implement `BoundedService`? | 3 requests, 2 permits |
| `Server` | Does the whole implement its parts, does a child keep its endpoint, is every call answered behind failing containers and hanging children, and a cancelled one stopped wherever it is? | 2 requests, 1 permit, every launch intent |
| `RecordReader` | Is following `next_seq_num` lossless, ordered, honest about `caught_up`, and does it reach the tail? | 3 records, batches of up to 3, sizes 1 and 3 against an output bound of 2 |
| `Writers` | Does `match_seq_num` make retries safe, also beside clients without it, and does the fencing token stop an old owner's late request? | 2 writers, any of them matching, 2 calls each, resends |
| `WriterRetry` (violated) | Is the advice to retry a cancelled append safe for its batch without `match_seq_num`? | 1 writer, 2 calls |
| `ManagedRuntime` | Do requests that race, fail and are cancelled share one container, work where they should, and never wait for nobody? | 3 requests, every launch intent and configuration, both modes |
| `ExecutionOutput` | Does a result fit, and does it say what it lost? | 3 console calls, in any nesting, of up to 2 characters, console of 4 bytes compacted at 2 parts, 7 output limits |
| `Catalog` | Do effects stay within the policy, does what follows an advertised schema pass the policy and the parser, and does paging through `search` show every match once, within the limit, across a restart? | 2 basins, up to 3 resources of which 2 are in bounds, every policy, 3 functions ranked 0 to 2 of sizes 1 and 3, pages of at most 3, 1 restart |
| `Resources` | Does a client that compares and reconfigures end where it wanted, whatever is cut, fails or changes? | a basin and 2 streams, 5 fields that vary, 2 resources and at most 2 items a report, 1 disturbance |

Why the bounds are enough. The interesting cases of a FIFO semaphore need a
waiter, two holders that end in either order and a late arrival: three clients
on two permits; the fourth call of `ExecutionOneThread` is the one refused by
the budget and the one that overflows the trace. `ExecutionTwoThreads` is about
the control flow and needs only one call admitted and one refused. In
`RecordReader` three records allow a data record before, at and after a cut,
with a command record on either side and a trim between two calls, and the two
sizes make a prefix end because it is full or because its first record never
fits. In `StreamWriter` an append and its retry beside another client's, or an owner's
late append after a usurper's fence, need two clients and two calls each;
`Bounded` caps the log at
the calls the clients may make, which no run without an error exceeds. The log's
length (`MaxLog`) and the attempts (`MaxAttempts`) are the other named bounds;
the writer runs stop when the attempts are used up, and `ExecutionOutput` when
the result is made, so they do not check for deadlock. In `ManagedRuntime` three
requests are an initialiser that fails or is dropped, the waiter that takes
over, and one that waits behind it or comes late. In `ExecutionOutput` the
limits go from one that no envelope fits, over those that drop the value, the
diagnostic and the trace one by one and leave nothing, little or enough for the
streams, to one that nothing exceeds; three console calls fill one stream past its
compaction, or both, one after the other or up to three deep. In `Catalog` three matches of two sizes make a page end by
its limit, by its size, or by its size with the cursor only; the empty query
ranks all twenty functions alike; the searched functions are a write, a
destructive and an account operation, so that each kind of policy change removes
one of them between two pages. Cursors hold nothing from the pages before, so a
second restart adds nothing a first cannot do. In `Resources` a report of two
items over two resources cuts an entry, leaves the next one empty, and needs
several rounds for five fields; the fields are one alone, two of one object, one
without a default and one that cannot be cleared; two streams in pages of one or
two make a page end early and a listing go stale. One disturbance, at any of its
moments, is what `touched` can except for one resource; the loop after it is the
loop without it. In `Server` the second request waits for the first one's
container, pool or permit and takes over when it fails. Symmetry is used in the safety runs only.

### What each property says, and what would break it

- `HostCallsWithinBudget`, `PermitsConserved`, `ImplementsService` (execution):
  refused calls, waiters and dropped calls never leak a permit or a unit of the
  budget.
- `SuccessIsComplete`: a success cannot hide a fire-and-forget call that was cut
  off; `AnsweredCallsTraced`: nor can the trace, with the shipped limits.
- `TerminatedNeverReported`, `NoCaptureFailure`: the two races of the watchdog
  with the end of a program. The second holds on one thread only, since nothing
  between `watchdog.check` and the capture awaits there.
- `QueueIsWaiting`, `NoStrayChild`, `ImplementsService` (pool): the drop order of
  worker and permit, and the drop of a waiter.
- `NoRecordSkipped`, `DeliveredInOrder`, `CaughtUpIsHonest`,
  `FollowerReachesTail`: the loop a client builds on the two read tools.
- `AppliedAtMostOnce`, `FencedOffWritesNothing`: the two ways to write safely.
- `PolicyLimitsEffects`, `AdvertisedIsAccepted`: three places that check the
  policy, agreeing, for access, basin and account. The second speaks of the policy,
  the injected basin, the parser and the count of resources, not of every check a
  handler makes.
- `SearchIsComplete`, `PageFits`: a cursor is the name of a match and the page
  is cut by what comes after it, so that both can go wrong only together. A
  restart that changes the scope may move a match past the cursor: `search` then
  skips or repeats it, which the property excepts (`moved`) since nothing in the
  code promises otherwise.
- `ReportIsHonest`: one budget over several entries, the limit of the call, which
  is used up before anything is left out, and in which the totals, each
  `truncated` and each `matches` agree. `OnlyReportedChange`, `Converges`,
  `DoneIsReconciled`: what the diff shows and what the reconfigurations take fit
  together, for fields that are nested, cleared, cut from a report or without a
  default. `TypeOK` of `Resources` says that neither the reconfigure nor the ensure
  tools set a retention age of zero; it is checked to fail without either check.
- `OneContainer`, `NobodyIsStuck`: the handing over of an initialisation that
  fails, is dropped or succeeds, and the guard that keeps the container alive.
  `ChosenConnection`: the endpoint and the environment chosen at start are what
  work is done with, on either side of the executor's pipe.
- `ImplementsParts`: the server refines `ExecutorPool` and `ManagedRuntime`, so
  what is proved of either holds in the whole, where
  requests reach the pool only through a container and a cell.
  `ChildHasItsEndpoint`, `EveryCallIsAnswered`, `CancelledIsStopped` are about the
  whole: the permit is awaited outside the supervisor's timeout, and the
  configuration outside the select.
- `ConsoleWithinBudget`, `ResultFits`: the arithmetic of the two limits, the first
  with a counter that the program may change between its check and its use.
  `NothingLostSilently`, `StreamsArePrefixes`: what the
  client may conclude from `truncated`, `success` and the streams, whichever of
  the two layers has cut.

`StreamWriter`, `PolicyGate`, `ManagedRuntime` and `RecordReader` define a `TypeOK`
that is proved and listed by no run.

### Fairness

- Execution: the runtime polls what is ready (`LoadModule`, `Epilogue`), time
  passes (`Deadline`), the watchdog task runs when it can (`Watchdog`), V8 ends a
  script it was told to terminate (`ScriptTerminated`), and tokio's `Timeout`
  looks at its deadline after every pending poll of the future it wraps, so that
  it acts if the future is parked again and again (`SF` on `OuterTimeout`).
  Nothing is assumed of the program or of the host: neither need ever answer.
- Connection: the server polls what is woken, and `S2Lite::start` returns, since
  it gives up after its own startup timeout. An operation or a program in a child
  owes no answer, so `Answer` is not fair.
- Server: its tasks are polled when woken (`Prepare`, `Serve`), `S2Lite::start`
  returns, and the supervisor timeout elapses (`Expire`). Nothing is assumed of a
  child, not even that it reads its request.
- Resources: the client goes on with its loop and the service answers it
  (`Client`, weakly fair). That is what the loop means; failures and other
  clients are bounded and owe nothing.
- Reader: the client calls again, and calls do not fail for ever (`SF` on `Serve`
  and `Respond`, which a failure disables). That is an assumption about the
  client and the network, not about the code; it is what "following" means.
  Appends are bounded, so the stream comes to rest.

## 4. Proofs

Eight modules, named after the module they are about, are checked by TLAPS for
every value of the constants (`CatalogProofs` is about `PolicyGate` too, and
`CodeModeExecutionProofs` about `ExecutionOutput`, the other half of an execution). They assume only what the modules state of their
constants: finitely many calls, requests, writers and basins; limits, permits and
threads at least one (which `validate_limits` enforces for the limits:
`LimitsAssumption`, `PoolAssumption`, `GateAssumption`, `WritersAssumption`); and
that the names of requests and writers differ from the few other names a
variable may hold beside them (`RequestsAssumption`, `ServerAssumption`,
`WritersAssumption`); and that sizes are naturals and the console compacts two
parts or more (`OutputAssumption`; `MAX_CAPTURED_CONSOLE_PARTS` is a constant of the
code). In each, `IInv` is the inductive invariant, `InitIInv` and
`NextIInv` (with one lemma per kind of step) show that it is one, and every
listed property follows from it.

**Execution.** The listed invariants are not inductive: `PermitsConserved` needs
to know which calls are in the queue, the budget that `spent` counts the admitted
calls, completeness that the loop cannot drain with a call in flight. The
inductive invariant is `IInv`, the conjunction of

- `TypeOK`;
- `LimiterOK`: `QueueOK` (the queue holds each call at most once, and only
  queued ones), `PermitsConserved`, `BudgetOK` (the admitted calls are no more
  than what was spent and than the limit) and `TraceOK` (who has a ticket, who is
  recorded, when the trace is truncated);
- `ControlOK`: an output exists only after the loop has drained, only a return
  cuts calls off, and a terminated script is on its way to a timeout.

`InitIInv` and `NextIInv` (one lemma per kind of step, a step that leaves the
limiter alone handled once by `QuietIInv`) give `Invariance`, and from it
`TypeCorrect`, `PermitsAreConserved`, `HostCallsBounded`, `SuccessesAreComplete`,
`AnswersAreTraced` and `TerminationsAreTimeouts`. `ExecutionImplementsService`
maps `inService` to the calls at the host and `served` to all that were ever
handed to it; every step is an `Enter`, a `Pass` (`AnswerAtOnce`), a `Leave`, the
`LeaveAll` of a return, or a stutter.

**Pool.** `IInv` is `TypeOK`, `QueueOK` (no duplicates, exactly the waiters),
`PermitsConserved` and `ChildOK` (where a request stands, given its child). The
steps are grouped by what they do to the semaphore: `TakePermit`, `JoinQueue`,
`LeaveQueue` (a waiter withdrawn from the middle), `GiveUpPermit` (with and
without a waiter to hand it to), and `QuietStep`. `TypeCorrect`,
`PermitsAreConserved`, `QueueIsExact`, `NoChildStrays` and
`PoolImplementsService` follow.

**One thread.** `TimeoutsAreNotErrors` assumes `Workers = 1`, the shipped child:
`OneThreadOK` says that the watchdog sleeps while a module is loaded and from
`watchdog.check` to the capture, since it runs only when the execution is parked.
It is inductive on top of `IInv`.

**Connection.** `OneContainer` needs to know that who starts a container owns
the cell (`PlaceOK`), that a cell is empty as long as it is owned, and that who
takes over was waiting for that cell and no other (`QueueOK`). `LiteOK` ties a
container's life to its endpoint: up exactly while it is about to be, or is, the
value of the runtime's cell. `ChosenConnection` needs to know where each cell's
value came from (`ValueOK`) and that a request has passed the cells before the
one it is at (`PassedOK`). `ContainerIsUnique` and `ConnectionIsChosen` follow.

**Server.** `ServerImplementsParts` is the refinement: each step of the server is
a step of the runtime or none, and of the pool or none. The invariant is both
parts' `IInv`, read through the refinement mapping and taken over from their
proofs, and `Linked`: a request with a place in the pool is past every cell.
`EndpointOutlivesChild` combines the two parts: `ChildOK` of the one and
`ValueOK` of the other.

**Policy.** `PolicyLimitsEffects` is not inductive: that the next resource a
handler touches is allowed rests on what dispatch has accepted (`AcceptedOK`), and
that a restart under another policy does not condemn an old effect on there
being none between two calls (`QuietOK`). `AdvertisedIsAccepted` needs that what
is left of a call that follows its schema will pass the checks that are still to
come (`ConformsOK`). It is `AdvertisedPassesGate`, and says nothing of checks of
arguments that are not modelled. The theorems are about `Catalog`, with its searches and
restarts, and so about every policy in turn.

**Writers.** `AppliedAtMostOnce` rests on a client never changing its mind:
whatever calls of a kind it has ever sent are one call (`AskedOnce`), so they
carry one `match_seq_num`, which is the place of the one that was applied
(`PlaceOK`). `FencedOffWritesNothing` rests on the stream's token being that of
the last fence in the log (`TokenOK`).

**Reader.** None of the three invariants is inductive, since a batch is made before
it is answered and the stream grows and is trimmed between the two. `ServedOK`
says of a batch in flight what it was when the service made it, as far as that
lasts: a run of the stream (`IsBatch`) that starts no later than the cursor or what
is retained, behind what was delivered; `SentOK` and `PositionOK` relate cursor,
origin and tail. `Kept` is the ordered set of the records shown, so that what is
proved of it is that it is sorted and complete; `FittingCount` is the length of
some prefix, which is all the theorems need, whatever sizes add up to.
`NothingSkipped`, `EachOnceInOrder` and `CaughtUpHonestly` follow.

**Search.** `SearchFindsAll` rests on two facts about the cursor: while the search is
open it is the last match that was found (`CursorOK`), and every match that was
advertised throughout and ranks no lower has been found (`FoundOK`). A restart may
drop functions, so that each page may have a ranking of its own; the lemmas show
that `Before` is a strict order and that `Ranked` lists the matches by it, whatever
they are. `PagesFit` rests on a match being kept only if the page with its cursor
fits.

**Resources.** `DoneIsReconciled` is not inductive: it must be known at every step
where a resource is that is not as wanted. `NothingMissed` says that it comes after
the cursor of an unfinished listing, or is left to do; `ComparedOK`, that what a
call has seen of it is as it was, or was touched since, or that the call says it
differs; `CallOK` and `PendingOK`, that a call is for the first resources left to
do, and that what is to be changed stays left to do. `ReportIsHonest` is about
sums over entries, and follows from `Books`, which an entry at a time keeps
(`BooksAppend`): the items shown are counted as a set of places, so that no fold is
needed; an entry is cut only when the limit is used up (`spent`). `OnlyReportedChange`
rests on no field's path being a prefix of another's
(`PrefixFree`), so that clearing one clears nothing beside it; the `TypeOK`, on
`Refuses` looking at every value that is sent, in whatever object, on `Convertible`
being asked of every configuration sent to be ensured (`ConvertedOK`), and on a switch
being held by no object that could be cleared (`SwitchStands`). Nothing is assumed
of the number of streams, the sizes of pages and reports, or what others do. The
theorems are about `Spec`; the fairness of `FairSpec` is for `Converges` alone.

**Output.** Widths and joined lines are recursive functions over the places of a
text; `RecursionExists` shows that such a function exists, by looking at the first place
up to which it would not, and `Counting` carries facts from place to place, so
that no induction theorem is needed. From them come the facts about texts: widths
add up (`WidthOfConcat`) and grow (`WidthsGrow`), a joined text grows behind its
end (`JoinGrows`), compacting keeps it (`CompactedJoins`), and `Prefix` is the
longest beginning that fits (`PrefixFits`). `CaptureOK` is the invariant. Until
something is cut or refused, what is captured is all that was written. Once the
budget is spent, what is captured is a beginning of what was written and some line
breaks, and both the bytes over the budget and those line breaks are at most
`Left`: the calls that were waiting when the stack was deepest, less the ones
that still wait. A call that returns then takes at most one byte and one line
break, and leaves one fewer to wait; no new one passes the check.
`TruncateStreamsShortens` and `BoundOutputAnswers` say what the code
after the program does with any output: it fits, or the bare envelope does not;
it says what it dropped; each stream is a beginning. `ConsoleKeepsBudget`,
`AnswersFit`, `LossesAreSaid` and `StreamsAreBeginnings` follow, for any lines,
limits and sizes, and any depth of calls within calls.

Small lemmas about sequences and sorted sets are repeated where they are needed,
so that each of these modules can be read with its model alone.

**Model-checked only.** Liveness (`Terminates`, `EveryCallIsAnswered`,
`CancelledIsStopped`, `FollowerReachesTail`, `NobodyIsStuck`, `Converges`):
fairness and ENABLED are out of the prover's reach. Every safety invariant and
every action property that a passing run checks is a theorem.

## 5. Where code and documentation disagree

1. `ExecutionSpin`. A test says that synchronous JavaScript is terminated by the
   watchdog (`crates/s2-mcp-codemode/tests/runtime.rs:69`); it runs on a
   multi-thread runtime. The shipped child has one thread, where the watchdog is
   polled only when the program awaits. A program that never does keeps the
   child until the parent's supervisor kills it: the client still gets a
   timeout, but from another layer and later. `ExecutionTwoThreads` shows the
   claim true on two threads.
2. `WriterRetry`. A cancelled call is answered with the advice to retry it
   (`crates/s2-mcp/src/error.rs:396`), though its append may have been applied:
   without `match_seq_num` the retry appends again. `Writers` shows that with it the
   retry is refused instead.

## 6. Not modelled

- Declarations, argument parsing, the enumerations of the DTOs, error texts, the
  npm launcher and the release scripts: renderings of data without control.
- The tokens that a search rank is counted from; a rank is any number.
- The time ranges of `get_metrics` and its budget of points
  (`account.rs:345-580`), and the size checks of `append_records`
  (`records.rs:322-442`): arithmetic over one request or one answer, before or
  after everything that is modelled.
- The limit of pending timers (`runtime.js:124-153`): a counter on one thread.
- The error returns of the trace (`runtime.rs:76-110`, a poisoned mutex): they need a
  panic while it is held.
- What handlers check of their arguments beside the resources they name (limits of
  0, empty reconfigurations, `max_items`, the location of `ensure_basin`): refusals of
  one request before anything is sent.
- S2, s2_sdk, tokio, deno_core and V8 are external, modelled from how the code
  relies on them.
- The bytes of a frame, the contents of records, the shape of JSON.
- `until_timestamp` and timestamps as read positions: they select where the
  service starts and stops, which `Serve` leaves open for sequence numbers.
- The removal of a container takes time and may fail; it is taken to be gone when
  its guard is dropped. What happens to it when the server itself is killed is
  left to s2_testcontainers.
- The fate of the grandchildren of a killed child, and of a killed child between
  the signal and its reaping: `kill_on_drop` is taken to end it.

## 7. Plan

Done, in the order of importance: `CodeModeExecution` and `ExecutorPool` with
their abstract specification and proofs, `RecordReader`, `StreamWriter`,
`PolicyGate`, `ManagedRuntime`, `ExecutionOutput`, the composition `Server`,
`Catalog`, `Resources`.

Proved: everything in section 4.

Next: the refinement of a two-mode server, in which plain operations and `execute`
share the runtime.
