------------------------------ MODULE Resources ------------------------------
(***************************************************************************)
(* The resources of a basin and the tools that read and change them        *)
(* (crates/s2-mcp/src/operations/basin.rs and account.rs), used the way    *)
(* they are meant to be used together: a client pages through the streams  *)
(* with list_streams, compares what it found with the configuration it     *)
(* wants by diff_resources, passes what differs to reconfigure_basin and   *)
(* reconfigure_stream, and compares again.  Meanwhile other clients        *)
(* change, create and delete resources, and calls fail.                    *)
(*                                                                         *)
(* A configuration is a function on the paths of its fields.  Resource 0   *)
(* is the basin, the others are streams in the order of their names.  The  *)
(* policy's checks are PolicyGate; the service is external.                *)
(***************************************************************************)
EXTENDS Integers, FiniteSets, SequencesExt

CONSTANTS
    Streams,         \* the number of stream names
    Varied,          \* the fields that differ from their default somewhere
    MaxPage,         \* bound on the limit of list_streams
    MaxResources,    \* MAX_DIFF_RESOURCES
    MaxItems,        \* MAX_DIFF_ITEMS
    MaxDisturbances  \* bound on failures and on changes by other clients

ASSUME ResourcesAssumption ==
    /\ Streams \in Nat
    /\ {MaxPage, MaxResources, MaxItems} \subseteq Nat \ {0}
    /\ MaxDisturbances \in Nat

VARIABLES
    exists,        \* the resources there are
    actual,        \* the service's configuration of each
    desired,       \* the configuration the client wants of each
    phase,         \* what the client does next
    cursor,        \* the last next_cursor of list_streams, a stream's name
    todo,          \* the resources it has listed or not yet seen to match
    call,          \* the diff_resources in progress
    report,        \* the answer of the last one, and the limit it was given
    pending,       \* the entries of it the client has yet to act on
    disturbances,  \* how many failures and changes by others there were
    touched        \* the resources changed by others since they were compared

service == <<exists, actual>>
client  == <<phase, cursor, todo, call, report, pending>>
vars    == <<service, desired, client, disturbances, touched>>

Basin     == 0
Names     == 1..Streams
Resource  == {Basin} \cup Names
NoCall    == [resources |-> <<>>, entries |-> <<>>, count |-> 0, limit |-> 0,
              remaining |-> 0]
NoReport  == [resources |-> <<>>, difference_count |-> 0, returned_items |-> 0,
              matches |-> FALSE, truncated |-> FALSE, limit |-> 0]

\* The phases in which the client's loop has ended.
Final == {"done", "refused", "no basin"}

\* The members of a set of numbers in their order.
Ascending ==
    [S \in SUBSET Nat |->
        [i \in 1..Cardinality(S) |->
            CHOOSE n \in S : Cardinality({m \in S : m < n}) = i - 1]]

\* What a sequence has at some places, in its order.
At(seq, places) ==
    [i \in 1..Cardinality(places) |-> seq[Ascending[places][i]]]

-----------------------------------------------------------------------------
(* Configurations. *)

StreamFields == << <<"storage_class">>, <<"retention_policy">>,
                   <<"timestamping", "mode">>, <<"timestamping", "uncapped">>,
                   <<"delete_on_empty", "min_age_seconds">> >>
Cipher       == <<"stream_cipher">>
Switches     == << <<"create_stream_on_append">>, <<"create_stream_on_read">> >>
Default(path) == <<"default_stream_config">> \o path

\* The fields in the order differences are reported in.
Fields ==
    [r \in Resource |->
        IF r # Basin THEN StreamFields
        ELSE [i \in DOMAIN StreamFields |-> Default(StreamFields[i])]
                 \o <<Cipher>> \o Switches]

Paths(r)  == Range(Fields[r])
\* The objects fields are nested in.
Groups(r) == UNION {{SubSeq(p, 1, n) : n \in 1..(Len(p) - 1)} : p \in Paths(r)}

\* "zero" stands for a retention age of no seconds, "other" for any value that
\* is not the default.  A switch is a plain bool and never unset.
Values(p) ==
    {"default", "other"}
        \cup (IF p \in Range(Switches) THEN {} ELSE {"unset"})
        \cup (IF Last(p) = "retention_policy" THEN {"zero"} ELSE {})

Valid(config) == \A p \in DOMAIN config : config[p] # "zero"

\* EffectiveStreamConfig: a cipher is the only field without a default.
Effective(config) ==
    [p \in DOMAIN config |->
        IF config[p] = "unset" /\ p # Cipher THEN "default" ELSE config[p]]

Differences(r, have, want) ==
    At(Fields[r], {i \in DOMAIN Fields[r] :
           Effective(have)[Fields[r][i]] # Effective(want)[Fields[r][i]]})

-----------------------------------------------------------------------------
(* Reconfigurations: a function from fields and groups of fields to the      *)
(* JSON the client sends for them.                                           *)

Null  == "null"
Empty == "{}"

\* Mutant: the check of a retention age is left to the service.
Refuses_AnyAge(request) ==
    \/ DOMAIN request = {}
    \/ \E node \in DOMAIN request :
           \/ request[node] = Empty
           \/ request[node] = Null /\ node \in Range(Switches)

\* try_into_sdk, and the fields that do not deserialize.
Refuses(request) ==
    \/ DOMAIN request = {}
    \/ \E node \in DOMAIN request :
           \/ request[node] = Empty
           \/ request[node] = "zero"
           \/ request[node] = Null /\ node \in Range(Switches)

\* Mutant: null is taken for a field that was not sent.
Cleared_Omitted(request, p) == FALSE

\* NullableUpdate: null clears a field, or the object it is nested in.
Cleared(request, p) ==
    \E node \in DOMAIN request : request[node] = Null /\ IsPrefix(node, p)

\* Mutant: an object that is sent replaces the one there was.
Reconfigured_WholeGroup(config, request) ==
    [p \in DOMAIN config |->
        IF p \in DOMAIN request /\ request[p] # Null THEN request[p]
        ELSE IF Cleared(request, p) \/ \E q \in DOMAIN request :
                    Len(p) > 1 /\ Front(q) = Front(p)
        THEN "unset" ELSE config[p]]

\* Only what was sent is changed.
Reconfigured(config, request) ==
    [p \in DOMAIN config |->
        IF p \in DOMAIN request /\ request[p] # Null THEN request[p]
        ELSE IF Cleared(request, p) THEN "unset" ELSE config[p]]

\* What a client sends to give the fields the values the diff calls desired.
Request(r, fields) ==
    [p \in fields |-> IF Effective(desired[r])[p] = "unset" THEN Null
                      ELSE Effective(desired[r])[p]]

-----------------------------------------------------------------------------
(* The instance: the client wants one configuration of the streams and of    *)
(* the basin's default for them; the basin and the streams start from their  *)
(* defaults or from other values.                                            *)

Base(r) == [p \in Paths(r) |->
               IF p \in Range(Switches) THEN "default" ELSE "unset"]
Varying(r) == {p \in Paths(r) : Last(p) \in Varied}
With(r, fields, v) ==
    [p \in Paths(r) |-> IF Last(p) \in fields THEN v ELSE Base(r)[p]]
Desires ==
    {[r \in Resource |-> With(r, fields, "other")] :
        fields \in {{}, Varied} \cup {{field} : field \in Varied}}
        \cup {[r \in Resource |-> With(r, Varied \cap {"retention_policy"}, "zero")]}

Init ==
    /\ exists \in {{Basin}, Resource}
    /\ \E set \in SUBSET {Basin, 1} :
           actual = [r \in Resource |->
               With(r, IF (IF r = Basin THEN Basin ELSE 1) \in set THEN Varied ELSE {},
                    "other")]
    /\ desired \in Desires
    /\ phase = "listing"
    /\ cursor = 0
    /\ todo = <<Basin>>
    /\ call = NoCall
    /\ report = NoReport
    /\ pending = <<>>
    /\ disturbances = 0
    /\ touched = {}

-----------------------------------------------------------------------------
(* The client's loop. *)

\* Mutant: a page shorter than its limit is taken for the last one.
NextCursor_LastName(page, rest) == IF Len(page) = MaxPage THEN Last(page) ELSE 0

\* has_more, and then the last name of the page.
NextCursor(page, rest) == IF rest # {} /\ page # <<>> THEN Last(page) ELSE 0

\* list_streams: the names after the cursor, as many as the service likes.
ListStreams ==
    /\ phase = "listing" /\ Basin \in exists
    /\ LET after == {n \in exists \ {Basin} : n > cursor}
           sorted == Ascending[after]
       IN  \E n \in 1..MaxPage :
             LET page == SubSeq(sorted, 1, IF n < Len(sorted) THEN n ELSE Len(sorted))
             IN  /\ todo' = todo \o page
                 /\ cursor' = NextCursor(page, after \ Range(page))
    /\ phase' = IF cursor' = 0 THEN "comparing" ELSE "listing"
    /\ UNCHANGED <<service, desired, call, report, pending, disturbances,
                   touched>>

\* The basin was deleted, and the client gives up.
NoBasin ==
    /\ phase = "listing" /\ Basin \notin exists
    /\ phase' = "no basin"
    /\ UNCHANGED <<service, desired, cursor, todo, call, report, pending,
                   disturbances, touched>>

\* diff_resources is called for as many resources as it takes.
StartDiff ==
    /\ phase = "comparing" /\ call = NoCall /\ pending = <<>>
    /\ \E limit \in 1..MaxItems :
           call' = [NoCall EXCEPT
                       !.resources = SubSeq(todo, 1, IF Len(todo) < MaxResources
                                            THEN Len(todo) ELSE MaxResources),
                       !.limit = limit, !.remaining = limit]
    /\ report' = NoReport
    /\ UNCHANGED <<service, desired, phase, cursor, todo, pending, disturbances,
                   touched>>

Current == call.resources[Len(call.entries) + 1]
Reading == call # NoCall /\ Len(call.entries) < Len(call.resources)

\* desired.validate
RefuseDesired ==
    /\ Reading
    /\ ~Valid(desired[Current])
    /\ call' = NoCall
    /\ phase' = "refused"
    /\ UNCHANGED <<service, desired, cursor, todo, report, pending, disturbances,
                   touched>>

\* Mutant: the budget is each resource's own.
Returned_OwnBudget(differences) ==
    IF Len(differences) < call.limit THEN Len(differences) ELSE call.limit

Returned(differences) ==
    IF Len(differences) < call.remaining THEN Len(differences)
    ELSE call.remaining

\* The next resource is read and compared.
Compare ==
    /\ Reading /\ Valid(desired[Current]) /\ Current \in exists
    /\ LET differences == Differences(Current, actual[Current], desired[Current])
           returned    == Returned(differences)
       IN  call' = [call EXCEPT
             !.count = @ + Len(differences),
             !.remaining = @ - returned,
             !.entries = Append(@,
                 [resource         |-> Current,
                  matches          |-> differences = <<>>,
                  difference_count |-> Len(differences),
                  differences      |-> SubSeq(differences, 1, returned),
                  truncated        |-> returned < Len(differences)])]
    /\ touched' = touched \ {Current}
    /\ UNCHANGED <<service, desired, phase, cursor, todo, report, pending,
                   disturbances>>

\* The resource was deleted: the call fails, and the client lists again.
NotFound ==
    /\ Reading /\ Valid(desired[Current]) /\ Current \notin exists
    /\ call' = NoCall
    /\ phase' = "listing"
    /\ todo' = <<Basin>>
    /\ UNCHANGED <<service, desired, cursor, report, pending, disturbances,
                   touched>>

\* The answer.  The client is done with the resources that match.
Report ==
    /\ call # NoCall /\ ~Reading
    /\ LET returned == call.limit - call.remaining
           rest == SubSeq(todo, Len(call.resources) + 1, Len(todo))
           open == At(call.entries,
                      {i \in DOMAIN call.entries : ~call.entries[i].matches})
       IN  /\ report' = [resources        |-> call.entries,
                         difference_count |-> call.count,
                         returned_items   |-> returned,
                         matches          |-> call.count = 0,
                         truncated        |-> returned < call.count,
                         limit            |-> call.limit]
           /\ todo' = rest \o [i \in DOMAIN open |-> open[i].resource]
           /\ pending' = open
           /\ phase' = IF todo' = <<>> THEN "done" ELSE phase
    /\ call' = NoCall
    /\ UNCHANGED <<service, desired, cursor, disturbances, touched>>

\* The next resource of the answer is changed as far as its entry goes.
Change ==
    /\ pending # <<>>
    /\ LET r       == Head(pending).resource
           request == Request(r, Range(Head(pending).differences))
       IN  actual' = IF Refuses(request) \/ r \notin exists THEN actual
                     ELSE [actual EXCEPT ![r] = Reconfigured(@, request)]
    /\ pending' = Tail(pending)
    /\ UNCHANGED <<exists, desired, phase, cursor, todo, call, report,
                   disturbances, touched>>

-----------------------------------------------------------------------------
(* Failures and other clients. *)

Disturb ==
    /\ disturbances < MaxDisturbances
    /\ disturbances' = disturbances + 1

\* A read fails or is cancelled: nothing of the call is answered.
CallFails ==
    /\ Disturb
    /\ call # NoCall
    /\ call' = NoCall
    /\ UNCHANGED <<service, desired, phase, cursor, todo, report, pending, touched>>

\* reconfigure fails before it is applied.
ChangeFails ==
    /\ Disturb
    /\ pending # <<>>
    /\ pending' = Tail(pending)
    /\ UNCHANGED <<service, desired, phase, cursor, todo, call, report, touched>>

Touch(r) == Disturb /\ touched' = touched \cup {r}

\* reconfigure_basin or reconfigure_stream by another client.
Reconfigure(r) ==
    /\ Touch(r)
    /\ r \in exists
    /\ \E node \in Varying(r) \cup Groups(r) :
       \E json \in {Null} \cup IF node \in Groups(r) THEN {Empty}
                               ELSE Values(node) \ {"unset"} :
           LET request == [sent \in {node} |-> json]
           IN  /\ ~Refuses(request)
               /\ actual' = [actual EXCEPT ![r] = Reconfigured(@, request)]
    /\ UNCHANGED <<exists, desired, client>>

\* What is sent of a configuration: the fields that are set, among them always
\* the switches of a basin.
Sent(config) == {p \in DOMAIN config : config[p] # "unset"}

\* The configurations clients send to ensure a resource: none, or one field
\* set, and among the values of a retention age no seconds.
ConfigsSent(r) ==
    {With(r, fields, "other") : fields \in {{}} \cup {{Last(p)} : p \in Varying(r)}}
        \cup {With(r, Varied \cap {"retention_policy"}, "zero")}

\* Mutant: the check of a retention age is left to the service.
Convertible_Any(config) == TRUE

\* TryFrom for the configurations of the SDK; what fails is not sent.
Convertible(config) == Valid(config)

\* A resource is created with the configuration that was sent.  Of one that is
\* there the service changes what was sent, and may reset the rest.
Ensured(r, config) ==
    /\ \E reset \in BOOLEAN :
           actual' = [actual EXCEPT ![r] = [p \in Paths(r) |->
               IF r \notin exists \/ reset \/ p \in Sent(config)
               THEN config[p] ELSE @[p]]]
    /\ exists' = exists \cup {r}

EnsureBasin ==
    /\ Touch(Basin)
    /\ \E config \in ConfigsSent(Basin) :
           Convertible(config) /\ Ensured(Basin, config)
    /\ UNCHANGED <<desired, client>>

EnsureStream(s) ==
    /\ Touch(s)
    /\ Basin \in exists
    /\ \E config \in ConfigsSent(s) : Convertible(config) /\ Ensured(s, config)
    /\ UNCHANGED <<desired, client>>

\* A basin takes its streams with it.
DeleteBasin ==
    /\ Touch(Basin)
    /\ exists' = {}
    /\ UNCHANGED <<actual, desired, client>>

DeleteStream(s) ==
    /\ Touch(s)
    /\ exists' = exists \ {s}
    /\ UNCHANGED <<actual, desired, client>>

-----------------------------------------------------------------------------

Client == ListStreams \/ NoBasin \/ StartDiff \/ RefuseDesired \/ Compare \/ NotFound
              \/ Report \/ Change

Next ==
    \/ Client
    \/ CallFails \/ ChangeFails
    \/ \E r \in Resource : Reconfigure(r)
    \/ EnsureBasin \/ DeleteBasin
    \/ \E s \in Names : EnsureStream(s) \/ DeleteStream(s)
    \/ phase \in Final /\ UNCHANGED vars

\* The client goes on with its loop, and the service answers it.
Spec     == Init /\ [][Next]_vars
FairSpec == Spec /\ WF_vars(Client)
-----------------------------------------------------------------------------
(* Properties. *)

\* No configuration at the service has a retention age of no seconds, whether a
\* client sent it to one of the reconfigure tools or to one of the ensure tools,
\* for a stream or in the default of a basin.
TypeOK ==
    /\ exists \subseteq Resource /\ (exists # {} => Basin \in exists)
    /\ \A r \in Resource :
           /\ DOMAIN actual[r] = Paths(r)
           /\ \A p \in Paths(r) : actual[r][p] \in Values(p) \ {"zero"}
    /\ phase \in {"listing", "comparing"} \cup Final
    /\ cursor \in 0..Streams
    /\ Range(todo) \subseteq Resource
    /\ call.remaining \in 0..call.limit
    /\ disturbances \in 0..MaxDisturbances
    /\ touched \subseteq Resource

\* The differences that entries show: the entry of each, and its place in it.
Shown(entries) ==
    UNION {{<<i, j>> : j \in DOMAIN entries[i].differences} : i \in DOMAIN entries}

\* The answer of diff_resources shows at most as many differences, of all its
\* resources together, as the limit it was given, and as many as that when it
\* leaves out any; it says whether it did, and of which resources; and it shows
\* nothing of the resources after the first it cut short.
ReportIsHonest ==
    LET entries == report.resources
        shown   == Cardinality(Shown(entries))
    IN  report # NoReport =>
        /\ shown = report.returned_items /\ shown <= report.limit
        /\ report.truncated => shown = report.limit
        /\ report.matches <=> \A i \in DOMAIN entries : entries[i].matches
        /\ report.truncated <=> \E i \in DOMAIN entries : entries[i].truncated
        /\ \A i \in DOMAIN entries :
               /\ entries[i].matches =>
                      entries[i].differences = <<>> /\ ~entries[i].truncated
               /\ entries[i].truncated <=>
                      Len(entries[i].differences) < entries[i].difference_count
               /\ entries[i].truncated =>
                      \A j \in DOMAIN entries : j > i => entries[j].differences = <<>>

\* A reconfiguration built from a report changes the fields the report showed,
\* and not what is nested beside them: a field that is not sent is not cleared.
OnlyReportedChange ==
    [][Change =>
        \A r \in Resource : \A p \in Paths(r) :
            actual'[r][p] # actual[r][p] =>
                /\ r = Head(pending).resource
                /\ p \in Range(Head(pending).differences)]_vars

\* When the loop ends, no stream was missed by the pages of list_streams, and
\* every resource has the configuration the client wanted, but for those that
\* others changed after they were compared for the last time.
DoneIsReconciled ==
    phase = "done" =>
        \A r \in exists \ touched : Effective(actual[r]) = Effective(desired[r])

\* The loop ends, though answers are cut short: once others leave the resources
\* alone, what a report shows can be changed and need not be shown again.
Converges == <>(phase \in Final)
=============================================================================
