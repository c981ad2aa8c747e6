---------------------------- MODULE StreamWriter ----------------------------
(***************************************************************************)
(* Clients that write to one stream with check_tail, fence_stream and      *)
(* append_records (crates/s2-mcp/src/operations/stream.rs and records.rs)  *)
(* and retry a call that was cancelled, as the remediation of              *)
(* ExecutionError::Cancelled tells them to (error.rs).                     *)
(*                                                                         *)
(* dispatch_tool drops a cancelled call wherever it stands: its request    *)
(* may be lost, applied, or still on its way.  The service is external: it *)
(* applies a request atomically if its match_seq_num is the tail and its   *)
(* fencing token the stream's, as far as it carries them, and answers.     *)
(***************************************************************************)
EXTENDS Integers, Sequences, FiniteSets

CONSTANTS
    Writers,      \* the clients, each with one batch of records to append
    MaxAttempts,  \* bound on the calls of one client
    Resends       \* s2_sdk may send a request again by itself

NoToken == "none"

ASSUME WritersAssumption ==
    /\ IsFiniteSet(Writers) /\ NoToken \notin Writers
    /\ MaxAttempts \in Nat \ {0}
    /\ Resends \in BOOLEAN

VARIABLES
    log,       \* the stream: the requests applied to it, in order
    token,     \* the stream's fencing token: the writer that set it
    net,       \* the requests on their way to the service
    answers,   \* the service's answers
    matching,  \* the clients that pass match_seq_num
    writer,    \* where each client is
    arguments, \* the arguments of each client's current call
    owners,    \* the clients whose fence_stream was acknowledged
    tail,      \* the tail each client was last told
    attempts   \* how many calls each client has made

service == <<log, token, net, answers>>
clients == <<matching, writer, arguments, owners, tail, attempts>>
vars    == <<service, clients>>

NoMatch == -1
NoCall  == [kind |-> "none"]

WriterState == {"idle", "ready", "calling", "cancelled", "done", "refused"}
Tokens      == Writers \cup {NoToken}
Arguments   == [kind : {"fence", "batch"}, by : Writers, owner : BOOLEAN,
                match : Int, token : Tokens]

Init ==
    /\ log = <<>>
    /\ token = NoToken
    /\ net = {}
    /\ answers = {}
    /\ matching \in SUBSET Writers
    /\ writer = [w \in Writers |-> "idle"]
    /\ arguments = [w \in Writers |-> NoCall]
    /\ owners = {}
    /\ tail = [w \in Writers |-> 0]
    /\ attempts = [w \in Writers |-> 0]

-----------------------------------------------------------------------------
(* The tools. *)

\* Mutant: request.match_seq_num is not passed on.
MatchSeqNum_Dropped(w) == NoMatch

MatchSeqNum(w) == IF w \in matching THEN tail[w] ELSE NoMatch

\* Mutant: request.fencing_token is not passed on.
FencingToken_Dropped(w) == NoToken

\* A client that fenced the stream presents its token, the others have none.
FencingToken(w) == IF w \in owners THEN w ELSE NoToken

Send(w, call) ==
    /\ attempts[w] < MaxAttempts
    /\ attempts' = [attempts EXCEPT ![w] = @ + 1]
    /\ net' = net \cup {[call |-> call, attempt |-> attempts'[w]]}
    /\ writer' = [writer EXCEPT ![w] = "calling"]
    /\ arguments' = [arguments EXCEPT ![w] = call]
    /\ UNCHANGED <<log, token, answers, matching, owners, tail>>

CheckTail(w) ==
    /\ writer[w] = "idle"
    /\ writer' = [writer EXCEPT ![w] = "ready"]
    /\ tail' = [tail EXCEPT ![w] = Len(log)]
    /\ UNCHANGED <<service, matching, arguments, owners, attempts>>

FenceStream(w) ==
    /\ writer[w] = "ready"
    /\ w \notin owners
    /\ Send(w, [kind |-> "fence", by |-> w, owner |-> FALSE,
                match |-> MatchSeqNum(w), token |-> NoToken])

AppendRecords(w) ==
    /\ writer[w] = "ready"
    /\ Send(w, [kind |-> "batch", by |-> w, owner |-> w \in owners,
                match |-> MatchSeqNum(w), token |-> FencingToken(w)])

\* The request's cancellation wins the select: the client is told to retry.
Cancel(w) ==
    /\ writer[w] = "calling"
    /\ writer' = [writer EXCEPT ![w] = "cancelled"]
    /\ UNCHANGED <<service, matching, arguments, owners, tail, attempts>>

\* It does, with the same arguments.
Retry(w) ==
    /\ writer[w] = "cancelled"
    /\ Send(w, arguments[w])

\* The acknowledgement's tail is where the client goes on.
Answer(w) ==
    /\ writer[w] = "calling"
    /\ \E answer \in answers :
           /\ answer.by = w /\ answer.attempt = attempts[w]
           /\ IF ~answer.applied
              THEN /\ writer' = [writer EXCEPT ![w] = "refused"]
                   /\ UNCHANGED <<owners, tail>>
              ELSE IF arguments[w].kind = "fence"
              THEN /\ writer' = [writer EXCEPT ![w] = "ready"]
                   /\ owners' = owners \cup {w}
                   /\ tail' = [tail EXCEPT ![w] = answer.tail]
              ELSE /\ writer' = [writer EXCEPT ![w] = "done"]
                   /\ UNCHANGED <<owners, tail>>
    /\ UNCHANGED <<service, matching, arguments, attempts>>

-----------------------------------------------------------------------------
(* The service.  A request that is lost is one that is never applied. *)

Applicable(call) ==
    /\ call.match \in {NoMatch, Len(log)}
    /\ call.token \in {NoToken, token}

Apply(request) ==
    LET call    == request.call
        applied == Applicable(call)
    IN  /\ IF applied
           THEN /\ log' = Append(log, call)
                /\ token' = IF call.kind = "fence" THEN call.by ELSE token
           ELSE UNCHANGED <<log, token>>
        /\ answers' = answers \cup
               {[by |-> call.by, attempt |-> request.attempt,
                 applied |-> applied, tail |-> IF applied THEN Len(log') ELSE 0]}
        /\ net' \in {net \ {request}} \cup (IF Resends THEN {net} ELSE {})
        /\ UNCHANGED clients

-----------------------------------------------------------------------------

\* Bound of the model: a request that is sent again and again is not applied
\* more than once per call that a client could have made.
Bounded == Len(log) <= Cardinality(Writers) * MaxAttempts

Next ==
    \/ \E w \in Writers :
           \/ CheckTail(w) \/ FenceStream(w) \/ AppendRecords(w)
           \/ Cancel(w) \/ Retry(w) \/ Answer(w)
    \/ \E request \in net : Bounded /\ Apply(request)

Spec == Init /\ [][Next]_vars

-----------------------------------------------------------------------------
(* Properties. *)

TypeOK ==
    /\ log \in Seq(Arguments)
    /\ token \in Tokens
    /\ net \subseteq [call : Arguments, attempt : 1..MaxAttempts]
    /\ answers \subseteq [by : Writers, attempt : 1..MaxAttempts,
                          applied : BOOLEAN, tail : Nat]
    /\ matching \subseteq Writers
    /\ writer \in [Writers -> WriterState]
    /\ arguments \in [Writers -> Arguments \cup {NoCall}]
    /\ owners \subseteq Writers
    /\ tail \in [Writers -> Nat]
    /\ attempts \in [Writers -> 0..MaxAttempts]

Repeated(w) ==
    \E i, j \in DOMAIN log : i # j /\ log[i].by = w /\ log[j].by = w
                                  /\ log[i].kind = log[j].kind

\* However often a call is cancelled, retried, resent or delayed, what it
\* writes is in the stream at most once if it passes match_seq_num, whatever
\* clients that do not are writing at the same time.
AppliedAtMostOnce == \A w \in matching : ~Repeated(w)

\* The remediation of a cancelled append: it can be retried as it is, and the
\* batch is still in the stream only once.  (A fence_stream sets the token it
\* has set before when it is applied twice, so it is left out.)
RetryIsSafe ==
    \A i, j \in DOMAIN log :
        log[i].kind = "batch" /\ log[j].kind = "batch" /\ log[i].by = log[j].by
            => i = j

Fences(i) == {j \in 1..(i - 1) : log[j].kind = "fence"}

\* A batch that a client wrote as the owner of the stream follows its own
\* fence with no other client's in between: an owner that was fenced off while
\* its request was on the way writes nothing more.
FencedOffWritesNothing ==
    \A i \in DOMAIN log :
        log[i].kind = "batch" /\ log[i].owner
            => \E j \in Fences(i) :
                   /\ log[j].by = log[i].by
                   /\ \A k \in Fences(i) : k > j => log[k].by = log[i].by
=============================================================================
