---------------------------- MODULE CatalogProofs ----------------------------
(***************************************************************************)
(* The policy limits what reaches S2, and refuses nothing it advertises,   *)
(* for every set of basins, every policy and any number of restarts.       *)
(*                                                                         *)
(* PolicyLimitsEffects is not inductive: that the next resource a handler  *)
(* touches is within the policy rests on what dispatch accepted            *)
(* (AcceptedOK), and that a restart does not judge the effects of a call   *)
(* by another policy on there being none between two calls (QuietOK).      *)
(* Nor is AdvertisedIsAccepted: the handler checks each resource when it   *)
(* comes to it, so those still to be touched must be such that the checks  *)
(* will pass (ConformsOK).                                                 *)
(*                                                                         *)
(* A client that follows the cursors of a search misses no match and sees  *)
(* none twice, and each page fits the output limit, for every set of       *)
(* operations a query matches, all ranks, sizes and limits.  That is not   *)
(* inductive either: the cursor must name the last match found (CursorOK), *)
(* and nothing up to it may be missing (FoundOK).                          *)
(***************************************************************************)
EXTENDS Catalog, FiniteSetTheorems, SequenceTheorems, TLAPS

\* A call of an operation with the resources that are left to touch.
CallType == [op : Operations, named : Seq(Resource), conforms : BOOLEAN]

RequestOK == request = NoCall \/ request \in CallType

\* Only dynamic operations choose what their arguments name, and the account
\* has no basin.
Named(op, named) ==
    \A i \in DOMAIN named :
        /\ Scope(op) # "dynamic" => named[i].scope = Scope(op)
        /\ named[i].scope = "account" => named[i].basin = NoBasin

\* What dispatch lets through to the handler.
AcceptedOK ==
    request # NoCall /\ answer = "none" =>
        /\ Allows(Access(request.op), Scope(request.op))
        /\ Named(request.op, request.named)
        /\ Parses(request.named)

\* Between two calls there are no effects.
QuietOK == request = NoCall => effects = {}

\* Under a scope, what a call that follows its schema has left to touch is in
\* the scope, unless it is a dynamic operation's, and is never the account.
WithinScope(op, named) ==
    policy.basin # NoBasin =>
        \A i \in DOMAIN named :
            /\ named[i].scope # "account"
            /\ Scope(op) # "dynamic" => named[i].basin = policy.basin

ConformsOK ==
    request # NoCall /\ request.conforms /\ answer = "none" =>
        WithinScope(request.op, request.named)

IInv ==
    /\ TypeOK /\ RequestOK /\ AcceptedOK /\ QuietOK /\ ConformsOK
    /\ PolicyLimitsEffects /\ AdvertisedIsAccepted
-----------------------------------------------------------------------------
(* The arguments of a call. *)

LEMMA AccessType ==
  ASSUME NEW op \in Operations
  PROVE  Access(op) \in {"read", "write", "destructive"}
BY DEF Access, Operations

\* What a request type can name is a sequence of resources that are well named.
LEMMA NameableOK ==
  ASSUME NEW op \in Operations, NEW named \in Nameable(op)
  PROVE  named \in Seq(Resource) /\ Named(op, named)
<1>0. op \in {"get_metrics", "diff_resources"} => Scope(op) = "dynamic"
  BY DEF Scope
<1>1. CASE Scope(op) = "global"
  <2>1. Nameable(op) = {<<>>}
    BY <1>0, <1>1, Zenon DEF Nameable
  <2> QED
    BY <2>1 DEF Named
<1>2. CASE Scope(op) \in {"account", "basin", "stream"}
  <2>1. Scope(op) # "global" /\ op \notin {"get_metrics", "diff_resources"}
    BY <1>0, <1>2
  <2>2. Nameable(op) =
            {<<r>> : r \in {r \in Resource :
                r.scope = Scope(op) /\ (r.scope = "account" => r.basin = NoBasin)}}
    BY <1>2, <2>1 DEF Nameable
  <2>3. PICK r \in Resource : /\ r.scope = Scope(op)
                              /\ r.scope = "account" => r.basin = NoBasin
                              /\ named = <<r>>
    BY <2>2
  <2> QED
    BY <1>2, <2>3 DEF Named
<1>3. CASE op = "get_metrics"
  <2>1. Scope(op) = "dynamic"
    BY <1>0, <1>3
  <2>2. PICK r \in Resource : /\ r.scope = "account" => r.basin = NoBasin
                              /\ named = <<r>>
    BY <1>3, <2>1 DEF Nameable
  <2> QED
    BY <2>1, <2>2 DEF Named
<1>4. CASE op = "diff_resources"
  <2>1. Scope(op) = "dynamic"
    BY <1>0, <1>4
  <2>2. named \in UNION {[1..n -> {r \in Resource : r.scope # "account"}] :
                            n \in 0..(MaxResources + 1)}
    BY <1>4, <2>1 DEF Nameable
  <2>3. PICK n \in 0..(MaxResources + 1) :
            named \in [1..n -> {r \in Resource : r.scope # "account"}]
    BY <2>2
  <2>4. n \in Nat
    BY <2>3, GateAssumption
  <2> QED
    BY <2>1, <2>3, <2>4 DEF Named
<1> QED
  BY <1>1, <1>2, <1>3, <1>4 DEF Scope, Operations

\* A call that follows its schema parses once the basin is injected, and is
\* then within the scope.
LEMMA ConformsInjected ==
  ASSUME TypeOK, NEW op \in Operations, NEW named \in Seq(Resource),
         Named(op, named), Conforms(op, named)
  PROVE  Parses(Inject(op, named)) /\ WithinScope(op, Inject(op, named))
<1>1. policy.basin \in Basins \cup {NoBasin}
  BY DEF TypeOK
<1>2. DOMAIN Inject(op, named) = DOMAIN named
  BY DEF Inject
<1>3. ASSUME NEW i \in DOMAIN named
      PROVE  /\ Inject(op, named)[i].scope # "account" =>
                    Inject(op, named)[i].basin # NoBasin
             /\ policy.basin # NoBasin =>
                    /\ Inject(op, named)[i].scope # "account"
                    /\ Scope(op) # "dynamic" =>
                           Inject(op, named)[i].basin = policy.basin
  <2>1. named[i] \in Resource
    BY <1>3
  <2>2. Scope(op) # "dynamic" => named[i].scope = Scope(op)
    BY <1>3 DEF Named
  <2>3. Inject(op, named)[i] =
            IF AcceptsBasinInjection(Scope(op)) /\ named[i].basin = NoBasin
            THEN [named[i] EXCEPT !.basin = policy.basin] ELSE named[i]
    BY <1>3 DEF Inject
  <2>4. CASE named[i].scope = "account"
    <3>1. ~AcceptsBasinInjection(Scope(op))
      BY <2>2, <2>4 DEF AcceptsBasinInjection
    <3>2. policy.basin = NoBasin
      BY <1>3, <2>4, <3>1, Zenon DEF Conforms
    <3>3. Inject(op, named)[i].scope = "account"
      BY <2>1, <2>3, <2>4 DEF Resource
    <3> QED
      BY <3>2, <3>3
  <2>5. CASE named[i].scope # "account" /\ AcceptsBasinInjection(Scope(op))
    <3>1. named[i].basin = NoBasin <=> policy.basin # NoBasin
      BY <1>3, <2>5 DEF Conforms
    <3>2. /\ Inject(op, named)[i].scope = named[i].scope
          /\ Inject(op, named)[i].basin =
                 IF named[i].basin = NoBasin THEN policy.basin ELSE named[i].basin
      BY <2>1, <2>3, <2>5 DEF Resource
    <3> QED
      BY <2>5, <3>1, <3>2
  <2>6. CASE named[i].scope # "account" /\ ~AcceptsBasinInjection(Scope(op))
    <3>1. named[i].basin # NoBasin
      BY <1>3, <2>6 DEF Conforms
    <3>2. named[i].scope \in {"basin", "stream"} /\ Scope(op) = "dynamic"
      BY <2>1, <2>2, <2>6 DEF Resource, AcceptsBasinInjection
    <3> QED
      BY <2>3, <2>6, <3>1, <3>2
  <2> QED
    BY <2>4, <2>5, <2>6
<1> QED
  BY <1>2, <1>3 DEF Parses, WithinScope

\* The injection of the policy's basin leaves a call as well named.
LEMMA InjectOK ==
  ASSUME TypeOK, NEW op \in Operations, NEW named \in Seq(Resource), Named(op, named)
  PROVE  Inject(op, named) \in Seq(Resource) /\ Named(op, Inject(op, named))
<1>1. DOMAIN named = 1..Len(named) /\ Len(named) \in Nat
  OBVIOUS
<1>2. policy.basin \in Basins \cup {NoBasin}
  BY DEF TypeOK
<1>3. ASSUME NEW i \in DOMAIN named
      PROVE  /\ Inject(op, named)[i] \in Resource
             /\ Inject(op, named)[i].scope = named[i].scope
             /\ Scope(op) # "dynamic" => named[i].scope = Scope(op)
             /\ named[i].scope = "account" => Inject(op, named)[i].basin = NoBasin
  <2>1. named[i] \in Resource
    BY <1>3
  <2>2. CASE AcceptsBasinInjection(Scope(op)) /\ named[i].basin = NoBasin
    <3>1. Inject(op, named)[i] = [named[i] EXCEPT !.basin = policy.basin]
      BY <1>3, <2>2 DEF Inject
    <3>2. named[i].scope = Scope(op) /\ Scope(op) \in {"basin", "stream"}
      BY <1>3, <2>2 DEF Named, AcceptsBasinInjection
    <3> QED
      BY <1>2, <2>1, <3>1, <3>2 DEF Resource
  <2>3. CASE ~(AcceptsBasinInjection(Scope(op)) /\ named[i].basin = NoBasin)
    <3>1. Inject(op, named)[i] = named[i]
      BY <1>3, <2>3 DEF Inject
    <3> QED
      BY <1>3, <2>1, <3>1 DEF Named
  <2> QED
    BY <2>2, <2>3
<1>4. DOMAIN Inject(op, named) = 1..Len(named)
  BY <1>1 DEF Inject
<1>5. Inject(op, named) \in Seq(Resource)
  <2>1. Inject(op, named) = [i \in 1..Len(named) |-> Inject(op, named)[i]]
    BY <1>1 DEF Inject
  <2> QED
    BY <1>1, <1>3, <2>1
<1> QED
  BY <1>1, <1>3, <1>4, <1>5 DEF Named

-----------------------------------------------------------------------------
(* The steps. *)

LEMMA InitIInv == CatalogInit => IInv
BY DEF CatalogInit, Init, IInv, TypeOK, RequestOK, AcceptedOK, QuietOK,
       ConformsOK, PolicyLimitsEffects, AdvertisedIsAccepted

\* Dispatch lets a call through to the handler only if it is allowed.
LEMMA CallStep ==
  ASSUME IInv, NEW op \in Operations, NEW named \in Nameable(op), Call(op, named)
  PROVE  IInv'
<1> DEFINE injected == Inject(op, named)
<1>1. injected \in Seq(Resource) /\ Named(op, injected)
  BY NameableOK, InjectOK DEF IInv
<1>2. /\ effects = {} /\ effects' = {} /\ policy' = policy
      /\ request'.op = op /\ request'.named = injected
      /\ request' \in CallType
      /\ request'.conforms => op \in Advertised /\ Conforms(op, named)
  <2>1. request' = [op |-> op, named |-> injected,
                    conforms |-> op \in Advertised /\ Conforms(op, named)]
    BY DEF Call
  <2>2. (op \in Advertised /\ Conforms(op, named)) \in BOOLEAN
    OBVIOUS
  <2> HIDE DEF injected
  <2>3. request' \in CallType
    BY <1>1, <2>1, <2>2 DEF CallType
  <2>4. effects = {} /\ effects' = effects /\ policy' = policy
    BY DEF Call, IInv, QuietOK
  <2>5. /\ request'.op = op /\ request'.named = injected
        /\ request'.conforms => op \in Advertised /\ Conforms(op, named)
    BY <2>1
  <2> QED
    BY <2>3, <2>4, <2>5
<1>3. /\ answer' \in {"forbidden", "invalid", "out of bounds", "none"}
      /\ answer' = "none" => Allows(Access(op), Scope(op)) /\ Parses(injected)
      /\ answer' = "forbidden" => ~(op \in Advertised /\ Allows(Access(op), Scope(op)))
      /\ answer' = "invalid" => ~Parses(injected)
      /\ answer' = "out of bounds" => ~Bounded(op, injected)
  BY DEF Call
<1>4. Conforms(op, named) => Parses(injected) /\ WithinScope(op, injected)
  BY NameableOK, ConformsInjected DEF IInv
<1> HIDE DEF injected
<1>5. TypeOK'
  BY <1>2, <1>3 DEF IInv, TypeOK
<1>6. RequestOK' /\ QuietOK'
  BY <1>2 DEF RequestOK, QuietOK
<1>7. AcceptedOK'
  <2>1. SUFFICES ASSUME answer' = "none"
                 PROVE  /\ Allows(Access(op), Scope(op))'
                        /\ Named(op, injected) /\ Parses(injected)
    BY <1>2 DEF AcceptedOK, Named, Parses
  <2> QED
    BY <1>1, <1>2, <1>3, <2>1 DEF Allows, AllowsDestructive
<1>8. PolicyLimitsEffects'
  BY <1>2 DEF PolicyLimitsEffects
<1>9. ConformsOK'
  BY <1>2, <1>4 DEF ConformsOK, WithinScope
<1>10. AdvertisedIsAccepted'
  BY <1>2, <1>3, <1>4 DEF AdvertisedIsAccepted, Advertised, Bounded
<1> QED
  BY <1>5, <1>6, <1>7, <1>8, <1>9, <1>10 DEF IInv

\* A handler touches a resource only within the policy: this is where the
\* check of dispatch and the two checks of the handlers are needed together.
LEMMA TouchStep ==
  ASSUME IInv, Touch
  PROVE  IInv'
<1> DEFINE resource == Head(request.named)
           effect == [access |-> Access(request.op), resource |-> resource]
<1>1. /\ request # NoCall /\ answer = "none" /\ request.named # <<>>
      /\ policy' = policy
  BY DEF Touch
<1>2. /\ request \in CallType
      /\ request.op \in Operations /\ request.named \in Seq(Resource)
  BY <1>1 DEF IInv, RequestOK, CallType
<1>3. /\ Allows(Access(request.op), Scope(request.op))
      /\ Named(request.op, request.named) /\ Parses(request.named)
  BY <1>1 DEF IInv, AcceptedOK
<1>4. /\ resource \in Resource
      /\ 1 \in DOMAIN request.named /\ resource = request.named[1]
  BY <1>1, <1>2
<1>5. /\ resource.scope = "account" =>
             /\ Scope(request.op) \in {"account", "dynamic"}
             /\ resource.basin = NoBasin
      /\ resource.scope # "account" => resource.basin # NoBasin
  BY <1>3, <1>4 DEF Named, Parses
<1>6. Access(request.op) \in {"read", "write", "destructive"}
  BY <1>2, AccessType
<1>7. CASE /\ UNCHANGED <<request, effects>>
           /\ \/ answer' = "forbidden" /\ ~Permits(request.op, resource)
              \/ /\ answer' = "out of scope"
                 /\ resource.scope # "account" /\ ~EnforceBasin(resource.basin)
  <2>1. TypeOK'
    BY <1>1, <1>7 DEF IInv, TypeOK
  <2>2. RequestOK' /\ AcceptedOK' /\ QuietOK' /\ ConformsOK' /\ PolicyLimitsEffects'
    BY <1>1, <1>7
       DEF IInv, RequestOK, AcceptedOK, QuietOK, ConformsOK, PolicyLimitsEffects
  <2>3. AdvertisedIsAccepted'
    <3>1. SUFFICES ASSUME request.conforms
                   PROVE  /\ answer' # "forbidden"
                          /\ answer' = "out of scope" => Scope(request.op) = "dynamic"
      BY <1>1, <1>7 DEF AdvertisedIsAccepted
    <3>2. WithinScope(request.op, request.named)
      BY <1>1, <3>1 DEF IInv, ConformsOK
    <3>3. policy.basin # NoBasin =>
              /\ resource.scope # "account"
              /\ Scope(request.op) # "dynamic" => resource.basin = policy.basin
      BY <1>4, <3>2 DEF WithinScope
    <3>4. Permits(request.op, resource)
      BY <1>4, <3>3 DEF Permits, Allows, ApplicableUnderBasin
    <3> QED
      BY <1>7, <3>3, <3>4 DEF EnforceBasin
  <2> QED
    BY <2>1, <2>2, <2>3 DEF IInv
<1>8. CASE /\ Permits(request.op, resource)
           /\ resource.scope # "account" => EnforceBasin(resource.basin)
           /\ effects' = effects \cup {effect}
           /\ request' = [request EXCEPT !.named = Tail(@)]
           /\ answer' \in {"none", "failed"}
  <2>1. /\ policy.readonly => effect.access = "read"
        /\ effect.access = "destructive" => policy.allow_destructive
    BY <1>3, <1>6 DEF Allows, AllowsDestructive
  <2>2. policy.basin # NoBasin => effect.resource.basin = policy.basin
    BY <1>3, <1>5, <1>8
       DEF Permits, EnforceBasin, Allows, ApplicableUnderBasin
  <2>3. effect \in [access : {"read", "write", "destructive"}, resource : Resource]
    BY <1>4, <1>6
  <2>4. effect.resource.basin = NoBasin <=> effect.resource.scope = "account"
    BY <1>5
  <2>5. /\ request'.op = request.op
        /\ request'.named = Tail(request.named)
        /\ request'.named \in Seq(Resource)
        /\ request'.conforms = request.conforms
        /\ request' \in CallType
    BY <1>1, <1>2, <1>8 DEF CallType
  <2>6. \A i \in DOMAIN request'.named :
            /\ i + 1 \in DOMAIN request.named
            /\ request'.named[i] = request.named[i + 1]
    BY <1>1, <1>2, <2>5
  <2>7. Named(request.op, request'.named) /\ Parses(request'.named)
    BY <1>3, <2>6 DEF Named, Parses
  <2>8. request' # NoCall
    BY <1>2, <2>5 DEF NoCall, Operations, ReadOps, WriteOps, DestructiveOps
  <2> HIDE DEF effect
  <2>9. TypeOK'
    BY <1>1, <1>8, <2>3, <2>4 DEF IInv, TypeOK
  <2>10. RequestOK' /\ QuietOK'
    BY <2>5, <2>8 DEF RequestOK, QuietOK
  <2>11. AcceptedOK'
    BY <1>1, <1>3, <2>5, <2>7
       DEF AcceptedOK, Allows, AllowsDestructive, Named, Parses
  <2>12. PolicyLimitsEffects'
    BY <1>1, <1>8, <2>1, <2>2 DEF IInv, PolicyLimitsEffects
  <2>13. ConformsOK'
    <3>1. SUFFICES ASSUME request.conforms
                   PROVE  WithinScope(request.op, request'.named)
      BY <1>1, <2>5 DEF ConformsOK, WithinScope
    <3>2. WithinScope(request.op, request.named)
      BY <1>1, <3>1 DEF IInv, ConformsOK
    <3> QED
      BY <2>6, <3>2 DEF WithinScope
  <2>14. AdvertisedIsAccepted'
    BY <1>8 DEF AdvertisedIsAccepted
  <2> QED
    BY <2>9, <2>10, <2>11, <2>12, <2>13, <2>14 DEF IInv
<1> HIDE DEF effect
<1> QED
  BY <1>7, <1>8 DEF Touch, effect

\* The handler is done, or the answer is out and the next call may come.
LEMMA AnswerStep ==
  ASSUME IInv, Finish \/ Answered
  PROVE  IInv'
<1>1. CASE Finish
  <2>1. /\ UNCHANGED <<policy, request, effects>> /\ answer' = "ok"
        /\ request # NoCall
    BY <1>1 DEF Finish
  <2>2. TypeOK'
    BY <2>1 DEF IInv, TypeOK
  <2> QED
    BY <2>1, <2>2
       DEF IInv, RequestOK, AcceptedOK, QuietOK, ConformsOK,
           PolicyLimitsEffects, AdvertisedIsAccepted
<1>2. CASE Answered
  <2>1. policy' = policy /\ request' = NoCall /\ effects' = {} /\ answer' = "none"
    BY <1>2 DEF Answered
  <2>2. TypeOK'
    BY <2>1 DEF IInv, TypeOK
  <2> QED
    BY <2>1, <2>2
       DEF IInv, RequestOK, AcceptedOK, QuietOK, ConformsOK,
           PolicyLimitsEffects, AdvertisedIsAccepted
<1> QED
  BY <1>1, <1>2

\* A restart takes no effect along to another policy.
LEMMA RestartStep ==
  ASSUME IInv, Restart
  PROVE  IInv'
<1>1. /\ request = NoCall /\ effects = {}
      /\ UNCHANGED <<request, effects, answer>>
      /\ policy' \in [readonly : BOOLEAN, basin : Basins \cup {NoBasin},
                      allow_destructive : BOOLEAN]
  BY DEF Restart, IInv, QuietOK
<1>2. TypeOK'
  BY <1>1 DEF IInv, TypeOK
<1> QED
  BY <1>1, <1>2
     DEF IInv, RequestOK, AcceptedOK, QuietOK, ConformsOK,
         PolicyLimitsEffects, AdvertisedIsAccepted

\* A step that leaves the gate alone.
LEMMA GateUnchanged ==
  ASSUME IInv, UNCHANGED vars
  PROVE  IInv'
<1>1. UNCHANGED <<policy, request, effects, answer>>
  BY DEF vars
<1> QED
  BY <1>1 DEF IInv, TypeOK, RequestOK, AcceptedOK, QuietOK, ConformsOK,
              PolicyLimitsEffects, AdvertisedIsAccepted,
              Allows, AllowsDestructive, Named, Parses, WithinScope

LEMMA NextIInv == IInv /\ [CatalogNext]_catalogVars => IInv'
<1> SUFFICES ASSUME IInv, [CatalogNext]_catalogVars PROVE IInv'
  OBVIOUS
<1>1. CASE Next
  <2>1. ASSUME NEW op \in Operations, NEW named \in Nameable(op), Call(op, named)
        PROVE  IInv'
    BY <2>1, CallStep
  <2>2. CASE Touch
    BY <2>2, TouchStep
  <2>3. CASE Finish \/ Answered
    BY <2>3, AnswerStep
  <2> QED
    BY <1>1, <2>1, <2>2, <2>3 DEF Next
<1>2. CASE Restart
  BY <1>2, RestartStep
<1>3. CASE StartSearch \/ NextPage \/ EndSearch \/ UNCHANGED catalogVars
  <2>1. UNCHANGED vars
    BY <1>3 DEF StartSearch, NextPage, EndSearch, catalogVars
  <2> QED
    BY <2>1, GateUnchanged
<1> QED
  BY <1>1, <1>2, <1>3 DEF CatalogNext

\* IInv is an invariant of the catalog.
THEOREM GateInvariant == CatalogSpec => []IInv
BY InitIInv, NextIInv, PTL DEF CatalogSpec

\* The gate's state is well typed: in particular what reaches S2 names a basin
\* unless it is the account, whatever a client leaves out of its arguments.
THEOREM GateTypeCorrect == CatalogSpec => []TypeOK
<1>1. IInv => TypeOK
  BY DEF IInv
<1> QED
  BY <1>1, GateInvariant, PTL

\* Nothing reaches S2 that the policy in force forbids, for every set of
\* basins, any number of resources in a call and any restarts under others.
THEOREM PolicyIsEnforced == CatalogSpec => []PolicyLimitsEffects
<1>1. IInv => PolicyLimitsEffects
  BY DEF IInv
<1> QED
  BY <1>1, GateInvariant, PTL

\* Whatever a client calls that is advertised, with arguments that follow the
\* advertised schema, neither the policy nor the parser refuses it, but for the
\* basin of a dynamic operation, when the handler comes to it.  Of the later
\* checks the count of diff_resources' resources is said to refuse only what
\* it should; other checks of arguments are not modelled.
THEOREM AdvertisedPassesGate == CatalogSpec => []AdvertisedIsAccepted
<1>1. IInv => AdvertisedIsAccepted
  BY DEF IInv
<1> QED
  BY <1>1, GateInvariant, PTL

-----------------------------------------------------------------------------
(* The search: what the client has found, and how far. *)

SearchTypeOK ==
    search # NoSearch =>
        /\ search \in [state : {"open", "done", "refused", "too large"},
                       empty : BOOLEAN, cursor : Operations \cup {NoCursor},
                       rank : [Searched -> 0..MaxRank], size : [Searched -> Sizes],
                       page : Seq(Operations), found : Seq(Operations),
                       steady : SUBSET Operations, moved : BOOLEAN]
        /\ search.steady \subseteq Advertised

\* A cursor names the last match found.
CursorOK ==
    search # NoSearch =>
        /\ search.cursor # NoCursor =>
               search.found # <<>> /\ search.cursor = Last(search.found)
        /\ search.state = "open" /\ search.cursor = NoCursor => search.found = <<>>

\* What was found is in order and matches, and of what was in the catalog
\* throughout nothing up to the cursor is missing.
FoundOK ==
    search # NoSearch /\ ~search.moved =>
        /\ \A i, j \in DOMAIN search.found :
               i < j => Before(search.found[i], search.found[j])
        /\ \A i \in DOMAIN search.found : Matching(search.found[i])
        /\ search.state = "open" /\ search.cursor # NoCursor =>
               \A f \in search.steady :
                   Matching(f) /\ (f = search.cursor \/ Before(f, search.cursor))
                       => f \in Range(search.found)

SInv == SearchTypeOK /\ CursorOK /\ FoundOK /\ SearchIsComplete /\ PageFits
-----------------------------------------------------------------------------
(* The ranking. *)

LEMMA PositionType ==
  /\ \A f \in Operations : Position[f] \in 1..20
  /\ \A f, g \in Operations : Position[f] = Position[g] => f = g
  /\ DOMAIN Position = Operations
<1>1. ASSUME NEW f \in Operations
      PROVE  \E i \in 1..20 : Functions[i] = f
  BY DEF Operations, ReadOps, WriteOps, DestructiveOps, Functions
<1>2. DOMAIN Functions = 1..20
  BY DEF Functions
<1>3. \A f \in Operations : Position[f] \in 1..20 /\ Functions[Position[f]] = f
  BY <1>1, <1>2 DEF Position
<1>4. DOMAIN Position = Operations
  BY DEF Position
<1> QED
  BY <1>3, <1>4

\* The comparator is a strict order of the functions.
LEMMA BeforeOrders ==
  ASSUME search.rank \in [Searched -> 0..MaxRank]
  PROVE  /\ \A f, g, h \in Operations : Before(f, g) /\ Before(g, h) => Before(f, h)
         /\ \A f \in Operations : ~Before(f, f)
         /\ \A f, g \in Operations : f # g => Before(f, g) \/ Before(g, f)
<1>1. \A f \in Operations : Rank(f) \in Nat
  BY CatalogAssumption DEF Rank
<1> QED
  BY <1>1, PositionType DEF Before

\* A set of naturals has a least element.
LEMMA NatMin ==
  ASSUME NEW S \in SUBSET Nat, S # {}
  PROVE  \E n \in S : \A m \in S : n <= m
<1> DEFINE R == {ss \in Nat \X Nat : ss[1] < ss[2]}
<1>1. IsWellFoundedOn(R, Nat)
  BY NatLessThanWellFounded DEF OpToRel
<1> HIDE DEF R
<1>2. PICK n \in S : \A m \in S : ~(<<m, n>> \in R)
  BY <1>1, WFMin
<1>3. \A m \in S : ~(m < n)
  BY <1>2 DEF R
<1> QED BY <1>3

\* The ranking holds each match once, in the order of the comparator.
LEMMA RankedOrders ==
  ASSUME search.rank \in [Searched -> 0..MaxRank]
  PROVE  LET matches == {f \in Advertised : Matching(f)}
         IN  /\ Ranked \in Seq(matches)
             /\ \A i, j \in DOMAIN Ranked : i < j => Before(Ranked[i], Ranked[j])
             /\ \A f \in matches : \E i \in DOMAIN Ranked : Ranked[i] = f
<1> DEFINE matches  == {f \in Advertised : Matching(f)}
           ahead(f) == {g \in matches : Before(g, f)}
           place    == [f \in matches |-> Cardinality(ahead(f)) + 1]
           size     == Cardinality(matches)
           asc      == [i \in 1..size |-> CHOOSE f \in matches : place[f] = i]
<1>1. /\ \A f, g, h \in matches : Before(f, g) /\ Before(g, h) => Before(f, h)
      /\ \A f \in matches : ~Before(f, f)
      /\ \A f, g \in matches : f # g => Before(f, g) \/ Before(g, f)
  BY BeforeOrders DEF Advertised
<1>2. IsFiniteSet(matches) /\ size \in Nat
  <2>1. IsFiniteSet(Operations)
    <3>1. Position \in [Operations -> 1..20]
      BY PositionType DEF Position
    <3>2. Position \in Injection(Operations, 1..20)
      BY <3>1, PositionType DEF Injection, IsInjective
    <3>3. IsFiniteSet(1..20)
      <4>1. \A n \in Nat : IsFiniteSet(1..n)
        BY FS_Interval
      <4> QED BY <4>1
    <3> QED BY <3>2, <3>3, FS_Injection
  <2> QED BY <2>1, FS_Subset, FS_CardinalityType DEF Advertised
<1> HIDE DEF matches
<1>3. ASSUME NEW f \in matches
      PROVE  IsFiniteSet(ahead(f)) /\ Cardinality(ahead(f)) \in Nat /\ place[f] \in 1..size
  <2>1. ahead(f) \in SUBSET matches /\ ahead(f) # matches
    BY <1>1
  <2>2. /\ IsFiniteSet(ahead(f)) /\ Cardinality(ahead(f)) \in Nat
        /\ Cardinality(ahead(f)) <= size /\ Cardinality(ahead(f)) # size
    BY <1>2, <2>1, FS_Subset, FS_CardinalityType
  <2> QED BY <1>2, <2>2
<1>4. ASSUME NEW f \in matches, NEW g \in matches, Before(f, g)
      PROVE  place[f] < place[g]
  <2>1. f \notin ahead(f) /\ ahead(f) \cup {f} \in SUBSET ahead(g)
    BY <1>1, <1>4
  <2>2. Cardinality(ahead(f) \cup {f}) = Cardinality(ahead(f)) + 1
    BY <1>3, <2>1, FS_AddElement
  <2>3. Cardinality(ahead(f) \cup {f}) <= Cardinality(ahead(g))
    BY <1>3, <2>1, FS_Subset
  <2> HIDE DEF ahead
  <2> QED BY <1>3, <2>2, <2>3
<1> HIDE DEF ahead
<1>5. place \in Injection(matches, 1..size)
  <2>1. place \in [matches -> 1..size]
    BY <1>3
  <2>2. \A f, g \in matches : place[f] = place[g] => f = g
    <3> HIDE DEF place
    <3> QED BY <1>1, <1>2, <1>3, <1>4
  <2> HIDE DEF place
  <2> QED BY <2>1, <2>2 DEF Injection, IsInjective
<1>6. \A i \in 1..size : \E f \in matches : place[f] = i
  <2>1. IsFiniteSet(1..size) /\ Cardinality(1..size) = size
    BY <1>2, FS_Interval
  <2>2. place \in Surjection(matches, 1..size)
    BY <1>5, <2>1, FS_Injection
  <2> HIDE DEF place
  <2> QED BY <2>2 DEF Surjection
<1>7. \A i \in 1..size : asc[i] \in matches /\ place[asc[i]] = i
  <2> HIDE DEF place
  <2> QED BY <1>6
<1>8. asc \in Seq(matches) /\ DOMAIN asc = 1..size
  <2>1. asc \in [1..size -> matches]
    BY <1>7
  <2> HIDE DEF asc, size
  <2> QED BY <1>2, <2>1
<1>9. ASSUME NEW i \in 1..size, NEW j \in 1..size, i < j
      PROVE  Before(asc[i], asc[j])
  <2> HIDE DEF place, asc
  <2>1. /\ asc[i] \in matches /\ asc[j] \in matches
        /\ place[asc[i]] = i /\ place[asc[j]] = j
    BY <1>7
  <2>2. asc[i] # asc[j] /\ ~Before(asc[j], asc[i])
    BY <1>2, <1>4, <1>9, <2>1
  <2> QED BY <1>1, <2>1, <2>2
<1>10. ASSUME NEW f \in matches
       PROVE  \E i \in 1..size : asc[i] = f
  <2>1. /\ place[f] \in 1..size /\ asc[place[f]] \in matches
        /\ place[asc[place[f]]] = place[f]
    BY <1>3, <1>7
  <2> HIDE DEF place, asc
  <2>2. asc[place[f]] = f
    BY <1>5, <2>1 DEF Injection, IsInjective
  <2> QED BY <2>1, <2>2
<1>11. asc = Ranked
  <2> DEFINE places == {<<f, Cardinality(ahead(f)) + 1>> : f \in matches}
  <2>1. Ranked = [i \in 1..size |-> (CHOOSE p \in places : p[2] = i)[1]]
    BY DEF Ranked, ahead, matches
  <2>2. ASSUME NEW i \in 1..size
        PROVE  (CHOOSE p \in places : p[2] = i)[1] = asc[i]
    <3> DEFINE p == CHOOSE p \in places : p[2] = i
    <3>1. \A f \in matches : <<f, place[f]>> \in places
      OBVIOUS
    <3>2. \A q \in places : q[1] \in matches /\ q[2] = place[q[1]]
      OBVIOUS
    <3>3. asc[i] \in matches /\ place[asc[i]] = i
      BY <1>7
    <3> HIDE DEF places, place, asc
    <3>4. p \in places /\ p[2] = i
      <4>1. PICK q : q = <<asc[i], place[asc[i]]>>
        OBVIOUS
      <4>2. q \in places /\ q[2] = i
        BY <3>1, <3>3, <4>1
      <4> QED BY <4>2
    <3> HIDE DEF p
    <3>5. p[1] \in matches /\ place[p[1]] = i
      BY <3>2, <3>4
    <3>6. p[1] = asc[i]
      BY <1>5, <3>3, <3>5 DEF Injection, IsInjective
    <3> QED BY <3>6 DEF p
  <2> HIDE DEF places
  <2> QED BY <2>1, <2>2
<1> HIDE DEF asc
<1> QED
  BY <1>8, <1>9, <1>10, <1>11 DEF matches

\* The ranking depends on the policy, the query and the ranks alone.
LEMMA OrderUnchanged ==
  ASSUME search'.rank = search.rank, search'.empty = search.empty
  PROVE  /\ \A f, g : Before(f, g)' <=> Before(f, g)
         /\ \A f : Matching(f)' <=> Matching(f)
<1>1. Position' = Position
  BY DEF Position, Functions, Operations, ReadOps, WriteOps, DestructiveOps
<1>2. \A f : Rank(f)' = Rank(f)
  BY DEF Rank
<1> QED
  BY <1>1, <1>2 DEF Before, Matching
-----------------------------------------------------------------------------
(* The page. *)

LEMMA SizeOfNothing ==
  ASSUME NEW size
  PROVE  SizeOf(<<>>, size) = 0
<1> DEFINE add(f, n) == n + (IF f \in Searched THEN size[f] ELSE 1)
           iter == CHOOSE iter : iter = [s \in SUBSET {} |->
               IF s = {} THEN 0
               ELSE add((<<>>)[CHOOSE x \in s : TRUE], iter[s \ {CHOOSE x \in s : TRUE}])]
<1>1. DOMAIN << >> = {}
  BY EmptySeq
<1>2. iter[{}] = 0
  <2> DEFINE g == [s \in SUBSET {} |-> 0]
  <2>1. g = [s \in SUBSET {} |->
               IF s = {} THEN 0
               ELSE add((<<>>)[CHOOSE x \in s : TRUE], g[s \ {CHOOSE x \in s : TRUE}])]
    OBVIOUS
  <2> HIDE DEF g, add
  <2>2. iter = [s \in SUBSET {} |->
               IF s = {} THEN 0
               ELSE add((<<>>)[CHOOSE x \in s : TRUE], iter[s \ {CHOOSE x \in s : TRUE}])]
    BY <2>1, Zenon
  <2> QED BY <2>2
<1>3. SizeOf(<<>>, size) = iter[{}]
  BY <1>1, Zenon
     DEF SizeOf, FoldSeq, FoldFunction, FoldFunctionOnSet, MapThenFoldSet
<1> QED BY <1>2, <1>3

\* The loop stops at the first match that does not fit, or for lack of more.
LEMMA FittingType ==
  ASSUME NEW S, NEW ranked \in Seq(S), NEW start \in 0..Len(ranked), NEW limit \in Nat
  PROVE  LET n == Fitting(ranked, start, limit)
         IN  /\ n \in 0..limit /\ start + n <= Len(ranked)
             /\ n > 0 => ProspectiveSize(SubSeq(ranked, start + 1, start + n),
                                         start + n < Len(ranked)) <= MaxBytes
<1> DEFINE room == {n \in 0..limit : start + n <= Len(ranked)}
           fits(n) == ProspectiveSize(SubSeq(ranked, start + 1, start + n),
                                      start + n < Len(ranked)) <= MaxBytes
           stops(n) == /\ \A k \in 1..n : fits(k)
                       /\ n + 1 \in room => ~fits(n + 1)
<1>1. Len(ranked) \in Nat /\ start \in Nat
  BY LenProperties
<1> HIDE DEF fits
<1>2. \E n \in room : stops(n)
  <2> DEFINE over == {k \in room \ {0} : ~fits(k)}
  <2>1. CASE over # {}
    <3>1. over \in SUBSET Nat
      OBVIOUS
    <3>2. PICK k \in over : \A m \in over : k <= m
      BY <2>1, <3>1, NatMin
    <3>3. k \in Nat \ {0} /\ k \in room /\ ~fits(k)
      OBVIOUS
    <3>4. k - 1 \in room /\ k - 1 + 1 = k
      BY <1>1, <3>3
    <3>5. ASSUME NEW m \in 1..(k - 1) PROVE fits(m)
      <4>1. m \in room \ {0} /\ ~(k <= m)
        BY <1>1, <3>3
      <4> QED BY <3>2, <4>1
    <3> QED BY <3>3, <3>4, <3>5
  <2>2. CASE over = {}
    <3> DEFINE n == IF limit <= Len(ranked) - start THEN limit ELSE Len(ranked) - start
    <3>1. n \in room /\ n + 1 \notin room
      BY <1>1
    <3>2. ASSUME NEW m \in 1..n PROVE fits(m)
      <4>1. m \in room \ {0}
        BY <1>1
      <4> QED BY <2>2, <4>1
    <3> QED BY <3>1, <3>2
  <2> QED BY <2>1, <2>2
<1>3. Fitting(ranked, start, limit) = CHOOSE n \in room : stops(n)
  BY DEF Fitting, fits
<1> DEFINE n == CHOOSE n \in room : stops(n)
<1>4. n \in room /\ stops(n)
  BY <1>2
<1> HIDE DEF n
<1>5. n > 0 => fits(n)
  BY <1>4
<1> QED
  BY <1>3, <1>4, <1>5 DEF n, fits
-----------------------------------------------------------------------------
(* The steps of the search. *)

LEMMA SearchInit == CatalogInit => SInv
BY DEF CatalogInit, SInv, SearchTypeOK, CursorOK, FoundOK, SearchIsComplete, PageFits

LEMMA SearchUnchanged ==
  ASSUME SInv, UNCHANGED <<policy, search>>
  PROVE  SInv'
<1>1. search # NoSearch =>
          /\ \A f, g : Before(f, g)' <=> Before(f, g)
          /\ \A f : Matching(f)' <=> Matching(f)
  BY OrderUnchanged
<1>2. Advertised' = Advertised
  BY DEF Advertised, Allows, AllowsDestructive
<1> QED
  BY <1>1, <1>2
     DEF SInv, SearchTypeOK, CursorOK, FoundOK, SearchIsComplete, PageFits

LEMMA StartSearchStep ==
  ASSUME SInv, StartSearch
  PROVE  SInv'
<1>1. PICK empty \in BOOLEAN, rank \in [Searched -> 0..MaxRank],
           size \in [Searched -> Sizes] :
         search' = [state |-> "open", empty |-> empty, cursor |-> NoCursor,
                    rank |-> rank, size |-> size,
                    page |-> <<>>, found |-> <<>>, steady |-> Advertised,
                    moved |-> FALSE]
  <2>1. PICK empty \in BOOLEAN : \E rank \in [Searched -> IF empty THEN {0} ELSE 0..MaxRank] :
         \E size \in [Searched -> Sizes] :
           search' = [state |-> "open", empty |-> empty, cursor |-> NoCursor,
                      rank |-> rank, size |-> size,
                      page |-> <<>>, found |-> <<>>, steady |-> Advertised,
                      moved |-> FALSE]
    BY DEF StartSearch
  <2>2. PICK rank \in [Searched -> IF empty THEN {0} ELSE 0..MaxRank],
             size \in [Searched -> Sizes] :
           search' = [state |-> "open", empty |-> empty, cursor |-> NoCursor,
                      rank |-> rank, size |-> size,
                      page |-> <<>>, found |-> <<>>, steady |-> Advertised,
                      moved |-> FALSE]
    BY <2>1
  <2>3. 0 \in 0..MaxRank
    BY CatalogAssumption
  <2>4. rank \in [Searched -> 0..MaxRank]
    BY <2>3
  <2> QED BY <2>2, <2>4
<1>2. UNCHANGED policy /\ Advertised' = Advertised
  BY DEF StartSearch, vars, Advertised, Allows, AllowsDestructive
<1>3. Advertised \in SUBSET Operations /\ <<>> \in Seq(Operations)
  BY EmptySeq DEF Advertised
<1>4. SizeOf(<<>>, size) = 0 /\ 0 <= MaxBytes
  BY SizeOfNothing, CatalogAssumption
<1>5. SearchTypeOK'
  BY <1>1, <1>2, <1>3 DEF SearchTypeOK
<1>6. DOMAIN search'.found = {}
  BY <1>1, EmptySeq
<1> QED
  BY <1>1, <1>4, <1>5, <1>6
     DEF SInv, CursorOK, FoundOK, SearchIsComplete, PageFits

LEMMA EndSearchStep ==
  ASSUME SInv, EndSearch
  PROVE  SInv'
BY DEF EndSearch, SInv, SearchTypeOK, CursorOK, FoundOK, SearchIsComplete, PageFits

\* Another policy takes functions out of the catalog, and with them out of
\* what was there throughout; the rest keep their order unless moved.
LEMMA SearchRestart ==
  ASSUME SInv, Restart
  PROVE  SInv'
<1>1. CASE search = NoSearch
  BY <1>1 DEF Restart, SInv, SearchTypeOK, CursorOK, FoundOK, SearchIsComplete, PageFits
<1>2. CASE search # NoSearch
  <2>1. PICK rank \in Reranked :
            search' = [search EXCEPT !.rank = rank,
                                     !.steady = @ \cap Advertised',
                                     !.moved = @ \/ rank # search.rank]
    BY <1>2 DEF Restart
  <2>2. /\ search \in [state : {"open", "done", "refused", "too large"},
                       empty : BOOLEAN, cursor : Operations \cup {NoCursor},
                       rank : [Searched -> 0..MaxRank], size : [Searched -> Sizes],
                       page : Seq(Operations), found : Seq(Operations),
                       steady : SUBSET Operations, moved : BOOLEAN]
    BY <1>2 DEF SInv, SearchTypeOK
  <2>3. rank \in [Searched -> 0..MaxRank]
    BY <2>1, <2>2 DEF Reranked
  <2>4. /\ search'.rank = rank /\ search'.steady = search.steady \cap Advertised'
        /\ search'.moved = (search.moved \/ rank # search.rank)
        /\ search'.state = search.state /\ search'.empty = search.empty
        /\ search'.cursor = search.cursor /\ search'.found = search.found
        /\ search'.page = search.page /\ search'.size = search.size
    BY <2>1, <2>2
  <2>5. SearchTypeOK' /\ search' # NoSearch
    BY <2>1, <2>2, <2>3, <2>4 DEF SearchTypeOK, NoSearch
  <2>6. CursorOK' /\ PageFits'
    BY <1>2, <2>4, <2>5 DEF SInv, CursorOK, PageFits
  <2>7. FoundOK' /\ SearchIsComplete'
    <3>1. CASE search.moved \/ rank # search.rank
      BY <2>4, <3>1 DEF FoundOK, SearchIsComplete
    <3>2. CASE ~search.moved /\ rank = search.rank
      <4>1. /\ \A f, g : Before(f, g)' <=> Before(f, g)
            /\ \A f : Matching(f)' <=> Matching(f)
        BY <2>4, <3>2, OrderUnchanged
      <4> QED
        BY <1>2, <2>4, <3>2, <4>1 DEF SInv, FoundOK, SearchIsComplete
    <3> QED BY <3>1, <3>2
  <2> QED BY <2>5, <2>6, <2>7 DEF SInv
<1> QED BY <1>1, <1>2

\* A page goes on where the one before it ended, and leaves out nothing.
LEMMA NextPageStep ==
  ASSUME SInv, NextPage
  PROVE  SInv'
<1> DEFINE matches == {f \in Advertised : Matching(f)}
           ranked  == Ranked
<1>1. /\ search # NoSearch /\ search.state = "open"
      /\ search \in [state : {"open", "done", "refused", "too large"},
                     empty : BOOLEAN, cursor : Operations \cup {NoCursor},
                     rank : [Searched -> 0..MaxRank], size : [Searched -> Sizes],
                     page : Seq(Operations), found : Seq(Operations),
                     steady : SUBSET Operations, moved : BOOLEAN]
      /\ search.steady \subseteq Advertised
  <2>1. search.state = "open" /\ NoSearch.state = "none"
    BY DEF NextPage, NoSearch
  <2>2. search # NoSearch
    BY <2>1
  <2> QED BY <2>1, <2>2 DEF SInv, SearchTypeOK
<1>2. /\ ranked \in Seq(matches)
      /\ \A i, j \in DOMAIN ranked : i < j => Before(ranked[i], ranked[j])
      /\ \A f \in matches : \E i \in DOMAIN ranked : ranked[i] = f
  BY <1>1, RankedOrders
<1>3. UNCHANGED policy /\ Advertised' = Advertised
  BY DEF NextPage, vars, Advertised, Allows, AllowsDestructive
<1>4. NoCursor \notin Operations /\ matches \subseteq Operations
  BY DEF NoCursor, Operations, ReadOps, WriteOps, DestructiveOps, Advertised
<1>5. \/ CursorStart(ranked) = {}
         /\ search' = [search EXCEPT !.state = "refused", !.page = <<>>]
      \/ \E start \in CursorStart(ranked), limit \in Limits :
            LET n    == Fitting(ranked, start, limit)
                page == SubSeq(ranked, start + 1, start + n)
                more == start + n < Len(ranked)
            IN  search' = [search EXCEPT
                    !.page   = page,
                    !.found  = @ \o page,
                    !.state  = IF n = 0 /\ more THEN "too large"
                               ELSE IF more THEN "open" ELSE "done",
                    !.cursor = IF n > 0 /\ more THEN Last(page) ELSE NoCursor]
  BY DEF NextPage
<1> HIDE DEF matches, ranked
<1>6. ranked \in Seq(Operations) /\ Len(ranked) \in Nat
      /\ DOMAIN ranked = 1..Len(ranked)
  BY <1>2, <1>4, SeqMonotonic, LenProperties
<1>7. /\ \A f, g, h \in Operations : Before(f, g) /\ Before(g, h) => Before(f, h)
      /\ \A f \in Operations : ~Before(f, f)
  BY <1>1, BeforeOrders
<1>8. CASE /\ CursorStart(ranked) = {}
           /\ search' = [search EXCEPT !.state = "refused", !.page = <<>>]
  <2>1. /\ search'.state = "refused" /\ search'.page = <<>>
        /\ search'.rank = search.rank /\ search'.steady = search.steady
        /\ search'.moved = search.moved /\ search'.empty = search.empty
        /\ search'.cursor = search.cursor /\ search'.found = search.found
        /\ search'.size = search.size /\ search' # NoSearch
    BY <1>1, <1>8 DEF NoSearch
  <2>2. SearchTypeOK' /\ CursorOK'
    BY <1>1, <1>3, <1>8, <2>1, EmptySeq DEF SInv, SearchTypeOK, CursorOK
  <2>3. search.cursor # NoCursor /\ \A i \in DOMAIN ranked : ranked[i] # search.cursor
    BY <1>8 DEF CursorStart
  <2>4. /\ \A f, g : Before(f, g)' <=> Before(f, g)
        /\ \A f : Matching(f)' <=> Matching(f)
    BY <2>1, OrderUnchanged
  <2>5. FoundOK' /\ SearchIsComplete'
    <3>1. CASE search.moved
      BY <2>1, <3>1 DEF FoundOK, SearchIsComplete
    <3>2. CASE ~search.moved
      <4>1. search.cursor = search.found[Len(search.found)]
            /\ Len(search.found) \in DOMAIN search.found
        <5>1. search.found # <<>> /\ search.cursor = Last(search.found)
          BY <1>1, <2>3 DEF SInv, CursorOK
        <5>2. search.found \in Seq(Operations)
          BY <1>1
        <5>3. /\ Len(search.found) \in Nat \ {0}
              /\ DOMAIN search.found = 1..Len(search.found)
          BY <5>1, <5>2, LenProperties, EmptySeq
        <5> QED BY <5>1, <5>3 DEF Last
      <4>2. Matching(search.cursor)
        BY <1>1, <3>2, <4>1 DEF SInv, FoundOK
      <4>3. search.cursor \notin search.steady
        BY <1>1, <1>2, <2>3, <4>2 DEF matches
      <4> QED
        BY <1>1, <2>1, <2>4, <3>2, <4>3 DEF SInv, FoundOK, SearchIsComplete
    <3> QED BY <3>1, <3>2
  <2>6. PageFits'
    <3>1. search'.cursor # NoCursor
      BY <2>1, <2>3
    <3> QED BY <2>1, <3>1, SizeOfNothing, CatalogAssumption DEF PageFits
  <2> QED BY <2>2, <2>5, <2>6 DEF SInv
<1>9. CASE \E start \in CursorStart(ranked), limit \in Limits :
            LET n    == Fitting(ranked, start, limit)
                page == SubSeq(ranked, start + 1, start + n)
                more == start + n < Len(ranked)
            IN  search' = [search EXCEPT
                    !.page   = page,
                    !.found  = @ \o page,
                    !.state  = IF n = 0 /\ more THEN "too large"
                               ELSE IF more THEN "open" ELSE "done",
                    !.cursor = IF n > 0 /\ more THEN Last(page) ELSE NoCursor]
  <2>1. PICK start \in CursorStart(ranked), limit \in Limits :
            LET n    == Fitting(ranked, start, limit)
                page == SubSeq(ranked, start + 1, start + n)
                more == start + n < Len(ranked)
            IN  search' = [search EXCEPT
                    !.page   = page,
                    !.found  = @ \o page,
                    !.state  = IF n = 0 /\ more THEN "too large"
                               ELSE IF more THEN "open" ELSE "done",
                    !.cursor = IF n > 0 /\ more THEN Last(page) ELSE NoCursor]
    BY <1>9
  <2>2. PICK n : n = Fitting(ranked, start, limit)
    OBVIOUS
  <2>3. PICK page : page = SubSeq(ranked, start + 1, start + n)
    OBVIOUS
  <2>4. PICK more \in BOOLEAN : more <=> (start + n < Len(ranked))
    <3>1. CASE start + n < Len(ranked)
      <4> WITNESS TRUE \in BOOLEAN
      <4> QED BY <3>1
    <3>2. CASE ~(start + n < Len(ranked))
      <4> WITNESS FALSE \in BOOLEAN
      <4> QED BY <3>2
    <3> QED BY <3>1, <3>2
  <2>5. search' = [search EXCEPT
                    !.page   = page,
                    !.found  = @ \o page,
                    !.state  = IF n = 0 /\ more THEN "too large"
                               ELSE IF more THEN "open" ELSE "done",
                    !.cursor = IF n > 0 /\ more THEN Last(page) ELSE NoCursor]
    <3>1. CASE more
      BY <2>1, <2>2, <2>3, <2>4, <3>1, Zenon
    <3>2. CASE ~more
      BY <2>1, <2>2, <2>3, <2>4, <3>2, Zenon
    <3> QED BY <3>1, <3>2
  <2>6. /\ search'.page = page /\ search'.found = search.found \o page
        /\ search'.state = (IF n = 0 /\ more THEN "too large"
                            ELSE IF more THEN "open" ELSE "done")
        /\ search'.cursor = (IF n > 0 /\ more THEN Last(page) ELSE NoCursor)
        /\ search'.rank = search.rank /\ search'.steady = search.steady
        /\ search'.moved = search.moved /\ search'.empty = search.empty
        /\ search'.size = search.size
    BY <1>1, <2>5
  <2>7. /\ start \in 0..Len(ranked)
        /\ \/ start = 0 /\ search.cursor = NoCursor /\ search.found = <<>>
           \/ /\ start \in DOMAIN ranked /\ ranked[start] = search.cursor
              /\ search.cursor # NoCursor /\ search.found # <<>>
              /\ search.cursor = Last(search.found)
    <3>1. CASE start \in DOMAIN ranked /\ ranked[start] = search.cursor
      <4>1. ranked[start] \in Operations
        BY <1>6, <3>1, ElementOfSeq
      <4>2. search.cursor # NoCursor
        BY <1>4, <3>1, <4>1
      <4>3. search.found # <<>> /\ search.cursor = Last(search.found)
        BY <1>1, <4>2, Zenon DEF SInv, CursorOK
      <4>4. start \in 0..Len(ranked)
        BY <1>6, <3>1
      <4> QED BY <3>1, <4>2, <4>3, <4>4
    <3>2. CASE start = 0 /\ search.cursor = NoCursor
      <4>1. search.found = <<>>
        BY <1>1, <3>2, Zenon DEF SInv, CursorOK
      <4>2. 0 \in 0..Len(ranked)
        BY <1>6
      <4> QED BY <3>2, <4>1, <4>2
    <3> QED BY <3>1, <3>2 DEF CursorStart
  <2>8. limit \in Nat
    BY CatalogAssumption
  <2>9. /\ n \in Nat /\ start \in Nat /\ start + n <= Len(ranked)
        /\ n > 0 => ProspectiveSize(page, more) <= MaxBytes
    <3>1. /\ Fitting(ranked, start, limit) \in 0..limit
          /\ start + Fitting(ranked, start, limit) <= Len(ranked)
          /\ Fitting(ranked, start, limit) > 0 =>
                ProspectiveSize(SubSeq(ranked, start + 1, start + Fitting(ranked, start, limit)),
                    start + Fitting(ranked, start, limit) < Len(ranked)) <= MaxBytes
      BY <1>6, <2>7, <2>8, FittingType
    <3>2. /\ n \in 0..limit /\ start + n <= Len(ranked)
          /\ n > 0 => ProspectiveSize(SubSeq(ranked, start + 1, start + n),
                                      start + n < Len(ranked)) <= MaxBytes
      BY <2>2, <3>1
    <3>3. n > 0 => ProspectiveSize(page, more) <= MaxBytes
      BY <2>3, <2>4, <3>2
    <3>4. n \in Nat /\ start \in Nat
      BY <1>6, <2>7, <2>8, <3>2
    <3> QED BY <3>2, <3>3, <3>4
  <2>10. /\ page \in Seq(Operations) /\ Len(page) = n /\ DOMAIN page = 1..n
         /\ \A k \in 1..n : page[k] = ranked[start + k]
    <3>1. PICK a \in Int, b \in Int : a = start + 1 /\ b = start + n
      BY <2>9
    <3>2. \A i \in a..b : ranked[i] \in Operations
      <4>1. \A i \in a..b : i \in 1..Len(ranked)
        BY <1>6, <2>9, <3>1
      <4> QED BY <1>6, <4>1, ElementOfSeq
    <3>3. page = SubSeq(ranked, a, b)
      BY <2>3, <3>1
    <3>4. /\ page \in Seq(Operations)
          /\ Len(page) = (IF a <= b THEN b - a + 1 ELSE 0)
          /\ \A k \in 1..(b - a + 1) : page[k] = ranked[a + k - 1]
      BY <3>2, <3>3, SubSeqProperties
    <3>5. Len(page) = n
      BY <2>9, <3>1, <3>4
    <3>6. \A k \in 1..n : page[k] = ranked[start + k]
      <4>1. b - a + 1 = n /\ \A k \in 1..n : a + k - 1 = start + k
        BY <2>9, <3>1
      <4> QED BY <3>4, <4>1
    <3> QED BY <3>4, <3>5, <3>6, LenProperties
  <2>11. PICK m \in Nat : /\ m = Len(search.found) /\ DOMAIN search.found = 1..m
                          /\ m = 0 <=> search.found = <<>>
    <3>1. search.found \in Seq(Operations)
      BY <1>1
    <3> QED BY <3>1, LenProperties, EmptySeq
  <2>12. /\ search'.found \in Seq(Operations) /\ Len(search'.found) = m + n
         /\ DOMAIN search'.found = 1..(m + n)
         /\ \A i \in 1..m : search'.found[i] = search.found[i]
         /\ \A i \in 1..(m + n) : i > m => search'.found[i] = page[i - m]
    <3>1. search.found \in Seq(Operations)
      BY <1>1
    <3>2. /\ search.found \o page \in Seq(Operations)
          /\ Len(search.found \o page) = m + n
          /\ \A i \in 1..(m + n) : (search.found \o page)[i] =
                (IF i <= m THEN search.found[i] ELSE page[i - m])
      <4>1. page \in Seq(Operations) /\ Len(page) = n /\ Len(search.found) = m
        BY <2>10, <2>11
      <4>2. /\ search.found \o page \in Seq(Operations)
            /\ Len(search.found \o page) = Len(search.found) + Len(page)
            /\ \A i \in 1..(Len(search.found) + Len(page)) : (search.found \o page)[i] =
                  IF i <= Len(search.found) THEN search.found[i]
                  ELSE page[i - Len(search.found)]
        BY <3>1, <4>1, ConcatProperties
      <4> QED BY <4>1, <4>2, Zenon
    <3>3. DOMAIN (search.found \o page) = 1..(m + n)
      BY <3>2, LenProperties
    <3>4. /\ \A i \in 1..m : i \in 1..(m + n) /\ i <= m
          /\ \A i \in 1..(m + n) : i > m => ~(i <= m)
      BY <2>9
    <3> QED BY <2>6, <3>2, <3>3, <3>4
  <2>13. n > 0 => /\ Last(page) = ranked[start + n] /\ Last(search'.found) = ranked[start + n]
                  /\ ranked[start + n] \in Operations /\ search'.found # <<>>
    <3>1. SUFFICES ASSUME n > 0
                   PROVE  /\ Last(page) = ranked[start + n]
                          /\ Last(search'.found) = ranked[start + n]
                          /\ ranked[start + n] \in Operations /\ search'.found # <<>>
      OBVIOUS
    <3>2. /\ n \in 1..n /\ start + n \in 1..Len(ranked) /\ m + n \in 1..(m + n)
          /\ m + n > m /\ m + n - m = n /\ m + n # 0
      BY <1>6, <2>9, <3>1
    <3>3. ranked[start + n] \in Operations
      BY <1>6, <3>2, ElementOfSeq
    <3>4. search'.found[m + n] = page[n] /\ page[n] = ranked[start + n]
      <4>1. search'.found[m + n] = page[m + n - m]
        BY <2>12, <3>2
      <4>2. page[n] = ranked[start + n]
        BY <2>10, <3>2
      <4> QED BY <3>2, <4>1, <4>2
    <3>5. search'.found # <<>>
      BY <2>12, <3>2, EmptySeq
    <3> QED BY <2>10, <2>12, <3>3, <3>4, <3>5 DEF Last
  <2>14. search'.cursor \in Operations \cup {NoCursor}
         /\ (search'.cursor # NoCursor =>
                n > 0 /\ more /\ search'.cursor = ranked[start + n])
         /\ (search'.cursor = NoCursor => ~(n > 0 /\ more))
    BY <1>4, <2>6, <2>13
  <2>15. SearchTypeOK' /\ search' # NoSearch
    <3>1. search' \in [state : {"open", "done", "refused", "too large"},
                       empty : BOOLEAN, cursor : Operations \cup {NoCursor},
                       rank : [Searched -> 0..MaxRank], size : [Searched -> Sizes],
                       page : Seq(Operations), found : Seq(Operations),
                       steady : SUBSET Operations, moved : BOOLEAN]
      <4>1. search'.found = search.found \o page
        BY <2>6
      <4>2. /\ search'.state \in {"open", "done", "refused", "too large"}
            /\ search'.empty \in BOOLEAN /\ search'.rank \in [Searched -> 0..MaxRank]
            /\ search'.size \in [Searched -> Sizes] /\ search'.page \in Seq(Operations)
            /\ search'.steady \in SUBSET Operations /\ search'.moved \in BOOLEAN
        BY <1>1, <2>6, <2>10
      <4>3. search' = [state |-> search'.state, empty |-> search'.empty,
                       cursor |-> search'.cursor, rank |-> search'.rank,
                       size |-> search'.size, page |-> search'.page,
                       found |-> search'.found, steady |-> search'.steady,
                       moved |-> search'.moved]
        BY <1>1, <2>5, <2>6
      <4> QED BY <2>12, <2>14, <4>2, <4>3
    <3>2. search'.state # "none" /\ NoSearch.state = "none"
      BY <3>1 DEF NoSearch
    <3>3. search' # NoSearch
      BY <3>2
    <3>4. NoSearch' = NoSearch
      BY DEF NoSearch
    <3>5. search'.steady \subseteq Advertised'
      BY <1>1, <1>3, <2>6
    <3> QED BY <3>1, <3>3, <3>5 DEF SearchTypeOK
  <2>16. CursorOK'
    <3>1. search'.cursor # NoCursor =>
              search'.found # <<>> /\ search'.cursor = Last(search'.found)
      BY <2>13, <2>14
    <3>2. ~(search'.state = "open" /\ search'.cursor = NoCursor)
      <4>1. search'.state = "open" => more /\ n # 0
        BY <2>6
      <4>2. n # 0 => n > 0
        BY <2>9
      <4> QED BY <2>14, <4>1, <4>2
    <3> QED BY <3>1, <3>2 DEF CursorOK
  <2>17. PageFits'
    <3>1. CASE n > 0
      <4>1. (search'.cursor # NoCursor) = more
        BY <2>14, <3>1
      <4> QED BY <2>6, <2>9, <3>1, <4>1 DEF PageFits, ProspectiveSize
    <3>2. CASE ~(n > 0)
      <4>1. n = 0
        BY <2>9, <3>2
      <4>2. page = <<>>
        BY <2>10, <4>1, EmptySeq
      <4>3. search'.cursor = NoCursor /\ SizeOf(<<>>, search'.size) = 0
        BY <2>6, <3>2, SizeOfNothing
      <4>4. 0 + 0 <= MaxBytes
        BY CatalogAssumption
      <4> QED BY <2>6, <4>2, <4>3, <4>4 DEF PageFits
    <3> QED BY <3>1, <3>2
  <2>18. FoundOK' /\ SearchIsComplete'
    <3>1. CASE search.moved
      BY <2>6, <3>1 DEF FoundOK, SearchIsComplete
    <3>2. CASE ~search.moved
      <4>1. /\ \A f, g : Before(f, g)' <=> Before(f, g)
            /\ \A f : Matching(f)' <=> Matching(f)
        BY <2>6, OrderUnchanged
      <4>2. /\ \A i, j \in 1..m : i < j => Before(search.found[i], search.found[j])
            /\ \A i \in 1..m : Matching(search.found[i])
            /\ search.cursor # NoCursor =>
                   \A f \in search.steady :
                       Matching(f) /\ (f = search.cursor \/ Before(f, search.cursor))
                           => f \in Range(search.found)
        BY <1>1, <2>11, <3>2 DEF SInv, FoundOK
      <4>3. /\ \A i \in 1..m : search.found[i] \in Operations
            /\ \A i \in 1..Len(ranked) : ranked[i] \in matches /\ ranked[i] \in Operations
        <5>1. search.found \in Seq(Operations)
          BY <1>1
        <5>2. \A i \in 1..m : search.found[i] \in Operations
          BY <2>11, <5>1, ElementOfSeq
        <5>3. \A i \in 1..Len(ranked) : ranked[i] \in matches
          BY <1>2, ElementOfSeq
        <5> QED BY <1>4, <5>2, <5>3
      <4>4. ASSUME NEW k \in 1..n
            PROVE  /\ start + k \in 1..Len(ranked) /\ Matching(page[k])
                   /\ page[k] = ranked[start + k] /\ page[k] \in Operations
                   /\ m + k \in 1..(m + n) /\ search'.found[m + k] = page[k]
        <5>1. /\ start + k \in 1..Len(ranked) /\ m + k \in 1..(m + n) /\ m + k > m
              /\ m + k - m = k
          BY <1>6, <2>9
        <5>2. search'.found[m + k] = page[m + k - m]
          BY <2>12, <5>1
        <5>3. page[k] = ranked[start + k]
          BY <2>10
        <5> QED BY <4>3, <5>1, <5>2, <5>3 DEF matches
      <4>5. ASSUME NEW i \in 1..m, NEW k \in 1..n
            PROVE  Before(search.found[i], page[k])
        <5>1. /\ start \in 1..Len(ranked) /\ m \in 1..m /\ i <= m
              /\ ranked[start] = search.found[m]
          BY <1>6, <2>7, <2>11 DEF Last
        <5>2. start < start + k
          BY <2>9
        <5>3. Before(ranked[start], page[k])
          BY <1>2, <1>6, <4>4, <5>1, <5>2
        <5>4. CASE i = m
          BY <5>1, <5>3, <5>4
        <5>5. CASE i < m
          <6>1. Before(search.found[i], search.found[m])
            BY <4>2, <5>1, <5>5
          <6> QED BY <1>7, <4>3, <4>4, <5>1, <5>3, <6>1
        <5> QED BY <5>1, <5>4, <5>5
      <4>6. \A i \in 1..(m + n) : i \notin 1..m => i - m \in 1..n /\ m + (i - m) = i
        BY <2>9
      <4>7. ASSUME NEW i \in 1..(m + n), NEW j \in 1..(m + n), i < j
            PROVE  Before(search'.found[i], search'.found[j])
        <5>1. CASE i \in 1..m /\ j \in 1..m
          BY <2>12, <4>2, <4>7, <5>1
        <5>2. CASE i \in 1..m /\ j \notin 1..m
          <6>1. PICK k \in 1..n : m + k = j
            BY <4>6, <5>2
          <6>2. search'.found[j] = page[k] /\ search'.found[i] = search.found[i]
            BY <2>12, <4>4, <5>2, <6>1
          <6> QED BY <4>5, <5>2, <6>2
        <5>3. CASE i \notin 1..m
          <6>1. PICK k \in 1..n : m + k = i
            BY <4>6, <5>3
          <6>2. j \notin 1..m
            BY <2>11, <4>7, <5>3
          <6>3. PICK l \in 1..n : m + l = j
            BY <4>6, <6>2
          <6>4. start + k < start + l
            BY <2>9, <4>7, <6>1, <6>3
          <6>5. Before(ranked[start + k], ranked[start + l])
            BY <1>2, <1>6, <4>4, <6>4
          <6> QED BY <4>4, <6>1, <6>3, <6>5
        <5> QED BY <5>1, <5>2, <5>3
      <4>8. ASSUME NEW i \in 1..(m + n)
            PROVE  Matching(search'.found[i])
        <5>1. CASE i \in 1..m
          BY <2>12, <4>2, <5>1
        <5>2. CASE i \notin 1..m
          BY <4>4, <4>6, <5>2
        <5> QED BY <5>1, <5>2
      <4>9. ASSUME NEW f \in search.steady, Matching(f),
                   NEW j \in 1..Len(ranked), ranked[j] = f, j <= start + n
            PROVE  f \in Range(search'.found)
        <5>1. CASE j <= start
          <6>1. /\ start \in 1..Len(ranked) /\ ranked[start] = search.cursor
                /\ search.cursor # NoCursor
            BY <1>6, <2>7, <5>1
          <6>2. f = search.cursor \/ Before(f, search.cursor)
            <7>1. CASE j = start
              BY <4>9, <6>1, <7>1
            <7>2. CASE j < start
              BY <1>2, <1>6, <4>9, <6>1, <7>2
            <7> QED BY <2>9, <5>1, <7>1, <7>2
          <6>3. f \in Range(search.found)
            BY <4>2, <4>9, <6>1, <6>2
          <6>4. PICK i \in 1..m : search.found[i] = f
            BY <2>11, <6>3 DEF Range
          <6>5. i \in 1..(m + n) /\ search'.found[i] = f
            BY <2>9, <2>12, <6>4
          <6> QED BY <2>12, <6>5 DEF Range
        <5>2. CASE ~(j <= start)
          <6>1. PICK k \in 1..n : start + k = j
            <7>1. j - start \in 1..n /\ start + (j - start) = j
              BY <1>6, <2>9, <4>9, <5>2
            <7> QED BY <7>1
          <6>2. m + k \in 1..(m + n) /\ search'.found[m + k] = f
            BY <4>4, <4>9, <6>1
          <6> QED BY <2>12, <6>2 DEF Range
        <5> QED BY <5>1, <5>2
      <4>10. ASSUME NEW f \in search.steady, Matching(f)
             PROVE  \E j \in 1..Len(ranked) : ranked[j] = f
        BY <1>1, <1>2, <1>6, <4>10 DEF matches
      <4>11. ASSUME search'.state = "done", NEW f \in search.steady, Matching(f)
             PROVE  f \in Range(search'.found)
        <5>1. ~more
          BY <2>6, <4>11
        <5>2. ~(start + n < Len(ranked))
          BY <2>4, <5>1
        <5>3. PICK j \in 1..Len(ranked) : ranked[j] = f
          BY <4>10, <4>11
        <5>4. j <= start + n
          BY <1>6, <2>9, <5>2
        <5> QED BY <4>9, <4>11, <5>3, <5>4
      <4>12. ASSUME search'.cursor # NoCursor, NEW f \in search.steady, Matching(f),
                    f = search'.cursor \/ Before(f, search'.cursor)
             PROVE  f \in Range(search'.found)
        <5>1. n > 0 /\ search'.cursor = ranked[start + n]
          BY <2>14, <4>12
        <5>2. start + n \in 1..Len(ranked)
          BY <1>6, <2>9, <5>1
        <5>3. PICK j \in 1..Len(ranked) : ranked[j] = f
          BY <4>10, <4>12
        <5>4. ~(start + n < j)
          <6>1. SUFFICES ASSUME start + n < j PROVE FALSE
            OBVIOUS
          <6>2. Before(ranked[start + n], f)
            BY <1>2, <1>6, <5>2, <5>3, <6>1
          <6>3. f \in Operations /\ ranked[start + n] \in Operations
            BY <4>3, <5>2, <5>3
          <6> QED BY <1>7, <4>12, <5>1, <6>2, <6>3
        <5>5. j <= start + n
          BY <1>6, <2>9, <5>4
        <5> QED BY <4>9, <4>12, <5>3, <5>5
      <4>13. search'.state # "refused"
        BY <2>6
      <4>14. FoundOK'
        BY <2>6, <2>12, <4>1, <4>7, <4>8, <4>12 DEF FoundOK
      <4>15. SearchIsComplete'
        BY <2>6, <2>12, <4>1, <4>7, <4>11, <4>13 DEF SearchIsComplete
      <4> QED BY <4>14, <4>15
    <3> QED BY <3>1, <3>2
  <2> QED BY <2>15, <2>16, <2>17, <2>18 DEF SInv
<1> QED
  BY <1>5, <1>8, <1>9

\* What a call does leaves the search alone, and a search leaves the policy.
LEMMA SearchNext ==
  ASSUME SInv, [CatalogNext]_catalogVars
  PROVE  SInv'
<1>1. CASE search = NoSearch /\ Next /\ UNCHANGED <<search, restarts>>
  <2>1. search' = NoSearch
    BY <1>1
  <2>2. NoSearch' = NoSearch
    BY DEF NoSearch
  <2> QED
    BY <2>1, <2>2 DEF SInv, SearchTypeOK, CursorOK, FoundOK, SearchIsComplete, PageFits
<1>2. CASE StartSearch
  BY <1>2, StartSearchStep
<1>3. CASE NextPage
  BY <1>3, NextPageStep
<1>4. CASE EndSearch
  BY <1>4, EndSearchStep
<1>5. CASE Restart
  BY <1>5, SearchRestart
<1>6. CASE UNCHANGED catalogVars
  BY <1>6, SearchUnchanged DEF catalogVars, vars
<1> QED
  BY <1>1, <1>2, <1>3, <1>4, <1>5, <1>6 DEF CatalogNext

THEOREM SearchInvariance == CatalogSpec => []SInv
<1>1. CatalogInit => SInv
  BY SearchInit
<1>2. SInv /\ [CatalogNext]_catalogVars => SInv'
  BY SearchNext
<1> QED
  BY <1>1, <1>2, PTL DEF CatalogSpec

\* What a client finds is in order and holds no match twice; when the search
\* is done, every match that was in the catalog throughout has been found,
\* whatever restarts came between two pages, unless one moved a match.
THEOREM SearchFindsAll == CatalogSpec => []SearchIsComplete
<1>1. SInv => SearchIsComplete
  BY DEF SInv
<1> QED
  BY <1>1, SearchInvariance, PTL

\* A page and its cursor fit the output limit, whatever the sizes of the
\* matches: also the match that the loop takes out again.
THEOREM PagesFit == CatalogSpec => []PageFits
<1>1. SInv => PageFits
  BY DEF SInv
<1> QED
  BY <1>1, SearchInvariance, PTL
=============================================================================
