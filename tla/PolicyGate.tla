----------------------------- MODULE PolicyGate -----------------------------
(***************************************************************************)
(* What a policy lets through: the catalog that advertises the operations  *)
(* (catalog.rs, operation_registry.rs), the dispatch that checks them      *)
(* again (operations/mod.rs) and the handlers that check the basins their  *)
(* arguments name (account.rs, basin.rs).  Tools Mode and the executor     *)
(* child of Code Mode reach the same dispatch with a copy of the policy.   *)
(*                                                                         *)
(* A request is an operation and the resources its arguments name, one by  *)
(* one; diff_resources names several and may stop half way.  What reaches  *)
(* the S2 service is recorded in `effects`.                                *)
(***************************************************************************)
EXTENDS Integers, Sequences, FiniteSets

CONSTANTS
    Basins,       \* the basins of the account
    MaxResources  \* MAX_DIFF_RESOURCES

ASSUME GateAssumption ==
    /\ IsFiniteSet(Basins)
    /\ MaxResources \in Nat \ {0}

VARIABLES
    policy,   \* the server's policy: readonly, basin, allow_destructive
    request,  \* the call in hand
    effects,  \* the calls it made to the S2 service
    answer    \* how it was answered

vars == <<policy, request, effects, answer>>

NoBasin == "none"
NoCall  == [op |-> "none"]

-----------------------------------------------------------------------------
(* define_operation_registry! *)

ReadOps == {"connection_info", "list_basins", "get_basin_config",
            "list_streams", "get_stream_config", "check_tail",
            "read_records", "wait_for_records", "diff_resources",
            "get_metrics"}
WriteOps == {"ensure_basin", "ensure_stream", "append_records",
             "reconfigure_basin", "reconfigure_stream", "fence_stream"}
DestructiveOps == {"delete_basin", "delete_stream", "trim_stream",
                   "revoke_access_token"}
Operations == ReadOps \cup WriteOps \cup DestructiveOps

Access(op) == CASE op \in ReadOps        -> "read"
                [] op \in WriteOps       -> "write"
                [] op \in DestructiveOps -> "destructive"

Scope(op) ==
    CASE op = "connection_info" -> "global"
      [] op \in {"list_basins", "revoke_access_token"} -> "account"
      [] op \in {"diff_resources", "get_metrics"} -> "dynamic"
      [] op \in {"get_basin_config", "list_streams", "ensure_basin",
                 "reconfigure_basin", "delete_basin"} -> "basin"
      [] OTHER -> "stream"

-----------------------------------------------------------------------------
(* Policy and Catalog. *)

ApplicableUnderBasin(scope) == scope # "account"
AcceptsBasinInjection(scope) == scope \in {"basin", "stream"}

AllowsDestructive == ~policy.readonly /\ policy.allow_destructive

Allows(access, scope) ==
    /\ policy.basin = NoBasin \/ ApplicableUnderBasin(scope)
    /\ access = "write" => ~policy.readonly
    /\ access = "destructive" => AllowsDestructive

\* Mutant: the catalog offers every operation.
Advertised_Unfiltered == Operations

Advertised == {op \in Operations : Allows(Access(op), Scope(op))}

EnforceBasin(basin) == policy.basin # NoBasin => basin = policy.basin

-----------------------------------------------------------------------------
(* Arguments. *)

\* A resource that arguments name; a missing basin is NoBasin.
Resource == [scope : {"account", "basin", "stream"},
             basin : Basins \cup {NoBasin}]

\* The resources an operation's request type can name: of diff_resources any
\* number, in the instances up to one more than is in bounds.
Nameable(op) ==
    CASE Scope(op) = "global" -> {<<>>}
      [] Scope(op) \in {"account", "basin", "stream"} ->
             {<<r>> : r \in {r \in Resource :
                  r.scope = Scope(op) /\ (r.scope = "account" => r.basin = NoBasin)}}
      [] op = "get_metrics" ->
             {<<r>> : r \in {r \in Resource :
                  r.scope = "account" => r.basin = NoBasin}}
      [] op = "diff_resources" ->
             UNION {[1..n -> {r \in Resource : r.scope # "account"}] :
                    n \in 0..(MaxResources + 1)}

\* The input schema the catalog advertises: no basin where dispatch injects it
\* (remove_basin_input), a basin everywhere else, and no account metrics under
\* a scope (BasinScopedGetMetricsSchema).
Conforms(op, named) ==
    \A i \in DOMAIN named :
        CASE named[i].scope = "account" -> policy.basin = NoBasin
          [] AcceptsBasinInjection(Scope(op)) ->
                 named[i].basin = NoBasin <=> policy.basin # NoBasin
          [] OTHER -> named[i].basin # NoBasin

Inject(op, named) ==
    [i \in DOMAIN named |->
        IF AcceptsBasinInjection(Scope(op)) /\ named[i].basin = NoBasin
        THEN [named[i] EXCEPT !.basin = policy.basin] ELSE named[i]]

\* `basin` is a required field of every request that names one.
Parses(named) ==
    \A i \in DOMAIN named : named[i].scope # "account" => named[i].basin # NoBasin

\* bounded: the schema of diff_resources says nothing of how many.
Bounded(op, named) == op = "diff_resources" => Len(named) \in 1..MaxResources

Init ==
    /\ policy \in [readonly : BOOLEAN, basin : Basins \cup {NoBasin},
                   allow_destructive : BOOLEAN]
    /\ request = NoCall
    /\ effects = {}
    /\ answer = "none"

-----------------------------------------------------------------------------
(* One request. *)

\* prepare_tool, or the child's manifest: only what is advertised is found.
\* Operations::dispatch checks it again and injects the basin; the handler
\* parses its arguments and counts what they name.
Call(op, named) ==
    /\ request = NoCall
    /\ LET injected == Inject(op, named)
           accepted == /\ op \in Advertised
                       /\ Allows(Access(op), Scope(op))
       IN  /\ answer' = IF ~accepted THEN "forbidden"
                        ELSE IF ~Parses(injected) THEN "invalid"
                        ELSE IF ~Bounded(op, injected) THEN "out of bounds"
                        ELSE "none"
           /\ request' = [op |-> op, named |-> injected,
                          conforms |-> /\ op \in Advertised
                                       /\ Conforms(op, named)]
    /\ UNCHANGED <<policy, effects>>

\* Mutant: a dynamic operation is trusted with every resource of its kind.
Permits_OuterOnly(op, resource) == TRUE

\* enforce_operation in the handlers of the dynamic operations.
Permits(op, resource) ==
    Scope(op) = "dynamic" => Allows("read", resource.scope)

\* The handler takes the next resource: both checks, then the service, which
\* may fail.
Touch ==
    /\ request # NoCall /\ answer = "none" /\ request.named # <<>>
    /\ LET resource == Head(request.named)
       IN  IF ~Permits(request.op, resource)
           THEN answer' = "forbidden" /\ UNCHANGED <<request, effects>>
           ELSE IF resource.scope # "account" /\ ~EnforceBasin(resource.basin)
           THEN answer' = "out of scope" /\ UNCHANGED <<request, effects>>
           ELSE /\ effects' = effects \cup {[access |-> Access(request.op),
                                             resource |-> resource]}
                /\ request' = [request EXCEPT !.named = Tail(@)]
                /\ answer' \in {"none", "failed"}
    /\ UNCHANGED policy

Finish ==
    /\ request # NoCall /\ answer = "none" /\ request.named = <<>>
    /\ answer' = "ok"
    /\ UNCHANGED <<policy, request, effects>>

Answered ==
    /\ answer # "none"
    /\ request' = NoCall
    /\ answer' = "none"
    /\ effects' = {}
    /\ UNCHANGED policy

Next ==
    \/ \E op \in Operations : \E named \in Nameable(op) : Call(op, named)
    \/ Touch \/ Finish \/ Answered

Spec == Init /\ [][Next]_vars

-----------------------------------------------------------------------------
(* Properties. *)

TypeOK ==
    /\ policy \in [readonly : BOOLEAN, basin : Basins \cup {NoBasin},
                   allow_destructive : BOOLEAN]
    /\ effects \subseteq [access : {"read", "write", "destructive"},
                          resource : Resource]
    /\ \A e \in effects : e.resource.basin = NoBasin
                              <=> e.resource.scope = "account"
    /\ answer \in {"none", "ok", "invalid", "out of bounds", "forbidden",
                   "out of scope", "failed"}

\* Under --readonly nothing but reads reaches S2, without --allow-destructive
\* nothing destructive does, and under --basin no call, whatever its arguments
\* name and however far it gets before it is refused, touches another basin or
\* the account; through either mode.
PolicyLimitsEffects ==
    \A e \in effects :
        /\ policy.readonly => e.access = "read"
        /\ e.access = "destructive" => policy.allow_destructive
        /\ policy.basin # NoBasin => e.resource.basin = policy.basin

\* What is advertised is let through: a call of an advertised operation whose
\* arguments follow its advertised schema is refused neither by the policy nor
\* by the parser.  Only a dynamic operation's is, when it names a basin out of
\* the scope, and diff_resources', when it names no resource or too many.  (What
\* the handlers check of other arguments, a limit of 0 or a reconfiguration of
\* nothing, is not modelled.)
AdvertisedIsAccepted ==
    request # NoCall /\ request.conforms =>
        /\ answer \notin {"forbidden", "invalid"}
        /\ answer = "out of scope" => Scope(request.op) = "dynamic"
        /\ answer = "out of bounds" =>
               /\ request.op = "diff_resources"
               /\ Len(request.named) \notin 1..MaxResources
=============================================================================
