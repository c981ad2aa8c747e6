---------------------------- MODULE ServerProofs ----------------------------
(***************************************************************************)
(* The whole server implements both of its parts, and an executor works at *)
(* the endpoint that was chosen, for any number of requests and permits.   *)
(*                                                                         *)
(* What is proved of the parts is taken over: a step of the server keeps   *)
(* the inductive invariant of each, because it is a step of each or none.  *)
(* What ties them together is Linked: a request that waits for a permit or *)
(* has one is past every cell of the runtime.                              *)
(***************************************************************************)
EXTENDS Server, TLAPS

RuntimeProofs == INSTANCE ManagedRuntimeProofs
                   WITH mode <- "code", queue <- waiting
PoolProofs    == INSTANCE ExecutorPoolProofs
                   WITH pool <- value["pool"] # Runtime!Empty

AtPool == {"queued", "granted", "spawning", "writing", "awaiting", "releasing"}

Linked == \A r \in Requests : request[r] \in AtPool => at[r] = "executing"

IInv == RuntimeProofs!IInv /\ PoolProofs!IInv /\ Linked

-----------------------------------------------------------------------------
(* The proofs' instances of the parts are the server's. *)

LEMMA SameRuntime ==
  /\ RuntimeProofs!Init <=> Runtime!Init
  /\ RuntimeProofs!Next <=> Runtime!Next
  /\ UNCHANGED RuntimeProofs!vars <=> UNCHANGED Runtime!vars
  /\ RuntimeProofs!ChosenConnection <=> Runtime!ChosenConnection
<1> USE DEF
      Runtime!launch, RuntimeProofs!launch, Runtime!cells,
      RuntimeProofs!cells, Runtime!vars, RuntimeProofs!vars, Runtime!Cells,
      RuntimeProofs!Cells, Runtime!Empty, RuntimeProofs!Empty, Runtime!Nobody,
      RuntimeProofs!Nobody, Runtime!InSelect, RuntimeProofs!InSelect,
      Runtime!Live, RuntimeProofs!Live, Runtime!Endpoints,
      RuntimeProofs!Endpoints, Runtime!Connection, RuntimeProofs!Connection,
      Runtime!Transferred, RuntimeProofs!Transferred, Runtime!Persisted,
      RuntimeProofs!Persisted, Runtime!LoadCloud, RuntimeProofs!LoadCloud,
      Runtime!Custom, RuntimeProofs!Custom, Runtime!Resolve,
      RuntimeProofs!Resolve, Runtime!Init, RuntimeProofs!Init, Runtime!Inside,
      RuntimeProofs!Inside, Runtime!After, RuntimeProofs!After, Runtime!Waits,
      RuntimeProofs!Waits, Runtime!Polled, RuntimeProofs!Polled, Runtime!Ask,
      RuntimeProofs!Ask, Runtime!Fill, RuntimeProofs!Fill, Runtime!Owns,
      RuntimeProofs!Owns, Runtime!Heirs, RuntimeProofs!Heirs, Runtime!Without,
      RuntimeProofs!Without, Runtime!Leave, RuntimeProofs!Leave, Runtime!Fail,
      RuntimeProofs!Fail, Runtime!Arrive, RuntimeProofs!Arrive,
      Runtime!Cancel, RuntimeProofs!Cancel, Runtime!StartLite,
      RuntimeProofs!StartLite, Runtime!Manage, RuntimeProofs!Manage,
      Runtime!Build, RuntimeProofs!Build, Runtime!Local, RuntimeProofs!Local,
      Runtime!Connect, RuntimeProofs!Connect, Runtime!Open,
      RuntimeProofs!Open, Runtime!Answer, RuntimeProofs!Answer,
      Runtime!DropCall, RuntimeProofs!DropCall, Runtime!Server,
      RuntimeProofs!Server, Runtime!Next, RuntimeProofs!Next, Runtime!Used,
      RuntimeProofs!Used, Runtime!ChosenConnection,
      RuntimeProofs!ChosenConnection, Runtime!Range, RuntimeProofs!Range,
      Runtime!RemoveAt, RuntimeProofs!RemoveAt
<1>1. RuntimeProofs!Init <=> Runtime!Init
  BY Zenon
<1>2. RuntimeProofs!Next <=> Runtime!Next
  BY Zenon
<1>3. UNCHANGED RuntimeProofs!vars <=> UNCHANGED Runtime!vars
  BY Zenon
<1>4. RuntimeProofs!ChosenConnection <=> Runtime!ChosenConnection
  BY Zenon
<1> QED
  BY <1>1, <1>2, <1>3, <1>4

LEMMA SamePool ==
  /\ PoolProofs!Init <=> Pool!Init
  /\ PoolProofs!Next <=> Pool!Next
  /\ UNCHANGED PoolProofs!vars <=> UNCHANGED Pool!vars
  /\ PoolProofs!Live = Pool!Live
<1> USE DEF
      Pool!vars, PoolProofs!vars, Pool!Live, PoolProofs!Live, Pool!Init,
      PoolProofs!Init, Pool!Answer, PoolProofs!Answer, Pool!Stop,
      PoolProofs!Stop, Pool!Release, PoolProofs!Release, Pool!Arrive,
      PoolProofs!Arrive, Pool!Configure, PoolProofs!Configure, Pool!Cancel,
      PoolProofs!Cancel, Pool!Acquire, PoolProofs!Acquire, Pool!Start,
      PoolProofs!Start, Pool!Spawn, PoolProofs!Spawn, Pool!Write,
      PoolProofs!Write, Pool!Receive, PoolProofs!Receive, Pool!Supervised,
      PoolProofs!Supervised, Pool!Expire, PoolProofs!Expire, Pool!Timeout,
      PoolProofs!Timeout, Pool!Withdraw, PoolProofs!Withdraw, Pool!DropCall,
      PoolProofs!DropCall, Pool!ChildReply, PoolProofs!ChildReply,
      Pool!ChildExit, PoolProofs!ChildExit, Pool!Server, PoolProofs!Server,
      Pool!Next, PoolProofs!Next, Pool!RemoveAt, PoolProofs!RemoveAt
<1>1. PoolProofs!Init <=> Pool!Init
  BY Zenon
<1>2. PoolProofs!Next <=> Pool!Next
  BY Zenon
<1>3. UNCHANGED PoolProofs!vars <=> UNCHANGED Pool!vars
  BY Zenon
<1>4. PoolProofs!Live = Pool!Live
  BY Zenon
<1> QED
  BY <1>1, <1>2, <1>3, <1>4

\* A request of the runtime moves itself, or leaves and hands its cells on.
LEMMA RuntimeStep ==
  ASSUME IInv, NEW r \in Requests, NEW x \in Requests, x # r,
         at[x] = "executing",
         \/ Runtime!Arrive(r) \/ Runtime!Cancel(r)
         \/ \E c \in Runtime!Cells : Runtime!Ask(r, c)
         \/ Runtime!StartLite(r) \/ Runtime!Manage(r) \/ Runtime!Open(r)
         \/ Runtime!DropCall(r) \/ Runtime!Answer(r)
  PROVE  at'[x] = "executing"
<1>1. \/ at' = at \/ \E place : at' = [at EXCEPT ![r] = place]
      \/ Runtime!Leave(r)
  BY DEF Runtime!Arrive, Runtime!Cancel, Runtime!Ask, Runtime!StartLite,
         Runtime!Manage, Runtime!Open, Runtime!DropCall, Runtime!Answer,
         Runtime!Fill, Runtime!Fail
<1>2. /\ RuntimeProofs!TypeOK /\ RuntimeProofs!QueueOK /\ RuntimeProofs!PlaceOK
  BY DEF IInv, RuntimeProofs!IInv
<1>3. CASE at' = at \/ \E place : at' = [at EXCEPT ![r] = place]
  BY <1>2, <1>3 DEF RuntimeProofs!TypeOK
<1>4. CASE Runtime!Leave(r)
  <2>1. RuntimeProofs!Leave(r)
    BY <1>4, Zenon
       DEF Runtime!Leave, RuntimeProofs!Leave, Runtime!Heirs, RuntimeProofs!Heirs,
           Runtime!Owns, RuntimeProofs!Owns, Runtime!Without, RuntimeProofs!Without,
           Runtime!Inside, RuntimeProofs!Inside, Runtime!Cells, RuntimeProofs!Cells,
           Runtime!Nobody, RuntimeProofs!Nobody, Runtime!Range, RuntimeProofs!Range,
           Runtime!RemoveAt, RuntimeProofs!RemoveAt
  <2>2. \/ at'[x] = at[x]
        \/ \E c \in RuntimeProofs!Cells : at[x] = c
    BY <1>2, <2>1, RuntimeProofs!LeaveFacts, ServerAssumption
       DEF IsFiniteSet, RuntimeProofs!IsFiniteSet
  <2> QED
    BY <2>2 DEF RuntimeProofs!Cells
<1> QED
  BY <1>1, <1>3, <1>4

-----------------------------------------------------------------------------
(* Every step of the server is a step of each part, or none. *)

LEMMA TypesOK ==
  ASSUME IInv
  PROVE  /\ DOMAIN at = Requests /\ DOMAIN request = Requests
         /\ value = [c \in {"operations", "runtime", "s2", "pool"} |-> value[c]]
BY DEF IInv, RuntimeProofs!IInv, RuntimeProofs!TypeOK, RuntimeProofs!Cells,
       PoolProofs!IInv, PoolProofs!TypeOK

LEMMA RuntimeImplemented ==
  ASSUME IInv, [Next]_vars
  PROVE  [Runtime!Next]_Runtime!vars
<1> DEFINE Stutters == UNCHANGED Runtime!vars
<1> USE DEF Runtime!Next, Runtime!Server
<1>1. ASSUME NEW r \in Requests, Arrive(r) \/ Cancel(r) PROVE Runtime!Next
  BY <1>1 DEF Arrive, Cancel
<1>2. ASSUME NEW r \in Requests, Prepare(r) PROVE Runtime!Next
  <2>1. "runtime" \in Runtime!Cells /\ "pool" \in Runtime!Cells
    BY DEF Runtime!Cells
  <2> QED
    BY <1>2, <2>1 DEF Prepare, Configuration, ExecutorPool
<1>3. ASSUME NEW r \in Requests, Execute(r) \/ Expire(r) \/ Child(r)
      PROVE  Stutters
  BY <1>3 DEF Execute, Expire, Child, runtimeVars, Runtime!vars, Runtime!launch,
              Runtime!cells, Pool!Start, Pool!Spawn, Pool!Timeout, Pool!Expire,
              Pool!Write, Pool!Receive, Pool!ChildReply, Pool!ChildExit, Pool!Stop
<1>4. ASSUME NEW r \in Requests, DropCall(r) \/ Finish(r)
      PROVE  Runtime!Next \/ Stutters
  <2>1. CASE Runtime!DropCall(r) \/ Runtime!Answer(r)
    BY <2>1
  <2>2. CASE UNCHANGED runtimeVars /\ Pool!DropCall(r)
    BY <2>2 DEF runtimeVars, Runtime!vars, Runtime!launch, Runtime!cells,
                Pool!DropCall, Pool!Withdraw, Pool!Stop
  <2> QED
    BY <1>4, <2>1, <2>2 DEF DropCall, Finish
<1>5. CASE UNCHANGED vars
  BY <1>5 DEF vars, runtimeVars, Runtime!vars, Runtime!launch, Runtime!cells
<1> QED
  BY <1>1, <1>2, <1>3, <1>4, <1>5 DEF Next, Serve

LEMMA PoolImplemented ==
  ASSUME IInv, [Next]_vars
  PROVE  [Pool!Next]_Pool!vars
<1> DEFINE Stutters == UNCHANGED Pool!vars
<1> USE DEF Pool!Next, Pool!Server
<1>1. ASSUME UNCHANGED <<poolVars, cancelled>>, value'["pool"] = value["pool"]
      PROVE  Stutters
  BY <1>1 DEF poolVars, Pool!vars, Runtime!Empty
<1>2. ASSUME NEW r \in Requests, Arrive(r) PROVE Pool!Next
  BY <1>2 DEF Arrive
<1>3. ASSUME NEW r \in Requests, Cancel(r) PROVE Pool!Next
  <2>1. Pool!Cancel(r)
    BY <1>3 DEF Cancel, Runtime!Cancel, Runtime!cells, Runtime!Empty, poolVars,
                Pool!Cancel
  <2> QED
    BY <2>1
<1>4. ASSUME NEW r \in Requests, Configuration(r) PROVE Pool!Next \/ Stutters
  <2>1. CASE Pool!Configure(r)
    BY <2>1
  <2>2. CASE UNCHANGED poolVars
    <3>1. cancelled' = cancelled /\ value'["pool"] = value["pool"]
      BY <1>4, TypesOK
         DEF Configuration, Runtime!Ask, Runtime!StartLite, Runtime!Manage,
             Runtime!Fill, Runtime!Fail, Runtime!cells
    <3> QED
      BY <1>1, <2>2, <3>1
  <2> QED
    BY <1>4, <2>1, <2>2 DEF Configuration
<1>5. ASSUME NEW r \in Requests, ExecutorPool(r) PROVE Pool!Next \/ Stutters
  <2>1. CASE Pool!Acquire(r)
    BY <2>1
  <2>2. CASE at'[r] \in {"pool", "opening"} /\ UNCHANGED poolVars
    <3>1. CASE Runtime!Ask(r, "pool") \/ Runtime!Fail(r)
      BY <1>1, <2>2, <3>1 DEF Runtime!Ask, Runtime!Fail
    <3>2. CASE Runtime!Fill(r, "pool", value["runtime"])
      BY <2>2, <3>2, TypesOK DEF Runtime!Fill, Runtime!After
    <3> QED
      BY <1>5, <3>1, <3>2 DEF ExecutorPool, Runtime!Open
  <2> QED
    BY <1>5, <2>1, <2>2 DEF ExecutorPool
<1>6. ASSUME NEW r \in Requests,
             Execute(r) \/ Expire(r) \/ Child(r) \/ DropCall(r) \/ Finish(r)
      PROVE  Pool!Next
  BY <1>6 DEF Execute, Expire, Child, DropCall, Finish
<1>7. CASE UNCHANGED vars
  BY <1>7 DEF vars, poolVars, runtimeVars, Pool!vars
<1> QED
  BY <1>2, <1>3, <1>4, <1>5, <1>6, <1>7 DEF Next, Prepare, Serve

-----------------------------------------------------------------------------
(* The tie between the parts. *)

\* A step of a request's pool leaves the others where they are, except the
\* waiter that is handed its permit.
LEMMA PoolStep ==
  ASSUME IInv, NEW r \in Requests, NEW x \in Requests, x # r,
         request'[x] \in AtPool,
         \/ UNCHANGED poolVars
         \/ Pool!Arrive(r) \/ Pool!Configure(r) \/ Pool!Acquire(r)
         \/ Pool!Start(r) \/ Pool!Spawn(r) \/ Pool!Timeout(r) \/ Pool!Expire(r)
         \/ Pool!Write(r) \/ Pool!Receive(r) \/ Pool!ChildReply(r)
         \/ Pool!ChildExit(r) \/ Pool!DropCall(r) \/ Pool!Release(r)
  PROVE  request[x] \in AtPool
<1>1. CASE ~Pool!Release(r)
  <2>1. request' = request \/ \E state : request' = [request EXCEPT ![r] = state]
    BY <1>1
       DEF poolVars, Pool!Arrive, Pool!Configure, Pool!Acquire, Pool!Start,
           Pool!Spawn, Pool!Timeout, Pool!Expire, Pool!Write, Pool!Receive,
           Pool!ChildReply, Pool!ChildExit, Pool!DropCall, Pool!Withdraw,
           Pool!Stop, Pool!Answer
  <2> QED
    BY <2>1, TypesOK
<1>2. CASE Pool!Release(r)
  <2>1. CASE queue = <<>>
    BY <1>2, <2>1, TypesOK DEF Pool!Release
  <2>2. CASE queue # <<>>
    <3>1. /\ queue \in Seq(Requests)
          /\ \A i \in DOMAIN queue : request[queue[i]] = "queued"
      BY DEF IInv, PoolProofs!IInv, PoolProofs!TypeOK, PoolProofs!QueueOK
    <3>2. request[Head(queue)] = "queued"
      BY <2>2, <3>1
    <3>3. request' = [request EXCEPT ![r] = "answered", ![Head(queue)] = "granted"]
      BY <1>2, <2>2 DEF Pool!Release
    <3> QED
      BY <3>2, <3>3, TypesOK DEF AtPool
  <2> QED
    BY <2>1, <2>2
<1> QED
  BY <1>1, <1>2

\* A request comes to the pool when it has passed the runtime's last cell, and
\* leaves both together.
LEMMA LinkedStep ==
  ASSUME IInv, [Next]_vars
  PROVE  Linked'
<1>1. Linked
  BY DEF IInv
<1>2. ASSUME NEW r \in Requests,
             \/ Arrive(r) \/ Cancel(r) \/ Configuration(r) \/ ExecutorPool(r)
             \/ Execute(r) \/ Expire(r) \/ Child(r) \/ DropCall(r) \/ Finish(r),
             NEW x \in Requests, x # r, request'[x] \in AtPool
      PROVE  at'[x] = "executing"
  <2>1. request[x] \in AtPool
    BY <1>2, PoolStep
       DEF Arrive, Cancel, Configuration, ExecutorPool, Execute, Expire, Child,
           DropCall, Finish
  <2>2. at[x] = "executing"
    BY <1>1, <2>1 DEF Linked
  <2>3. CASE UNCHANGED runtimeVars
    BY <2>2, <2>3 DEF runtimeVars
  <2>4. CASE ~UNCHANGED runtimeVars
    <3>1. \/ Runtime!Arrive(r) \/ Runtime!Cancel(r)
          \/ \E c \in Runtime!Cells : Runtime!Ask(r, c)
          \/ Runtime!StartLite(r) \/ Runtime!Manage(r) \/ Runtime!Open(r)
          \/ Runtime!DropCall(r) \/ Runtime!Answer(r)
      <4>1. "runtime" \in Runtime!Cells /\ "pool" \in Runtime!Cells
        BY DEF Runtime!Cells
      <4> QED
        BY <1>2, <2>4, <4>1
           DEF Arrive, Cancel, Configuration, ExecutorPool, Execute, Expire,
               Child, DropCall, Finish
    <3> QED
      BY <1>2, <2>2, <3>1, RuntimeStep
  <2> QED
    BY <2>3, <2>4
<1>3. ASSUME NEW r \in Requests, Arrive(r) \/ Configuration(r) \/ Finish(r),
             request'[r] \in AtPool
      PROVE  at'[r] = "executing"
  <2>1. CASE Arrive(r)
    BY <1>3, <2>1, TypesOK DEF Arrive, Pool!Arrive, Pool!Answer, AtPool
  <2>2. CASE Configuration(r) /\ Pool!Configure(r)
    BY <1>3, <2>2, TypesOK DEF Pool!Configure, Pool!Answer, AtPool
  <2>3. CASE Configuration(r) /\ UNCHANGED poolVars
    <3>1. at[r] \in {"runtime", "starting", "started"}
      BY <2>3 DEF Configuration, Runtime!Ask, Runtime!StartLite, Runtime!Manage
    <3> QED
      BY <1>1, <1>3, <2>3, <3>1 DEF Linked, poolVars
  <2>4. CASE Finish(r)
    <3>1. CASE queue = <<>>
      BY <1>3, <2>4, <3>1, TypesOK DEF Finish, Pool!Release, AtPool
    <3>2. CASE queue # <<>>
      <4>1. /\ queue \in Seq(Requests)
            /\ \A i \in DOMAIN queue : request[queue[i]] = "queued"
        BY DEF IInv, PoolProofs!IInv, PoolProofs!TypeOK, PoolProofs!QueueOK
      <4>2. request[Head(queue)] = "queued" /\ request[r] = "releasing"
        BY <2>4, <3>2, <4>1 DEF Finish, Pool!Release
      <4>3. request' = [request EXCEPT ![r] = "answered", ![Head(queue)] = "granted"]
        BY <2>4, <3>2 DEF Finish, Pool!Release
      <4> QED
        BY <1>3, <4>2, <4>3, TypesOK DEF AtPool
    <3> QED
      BY <3>1, <3>2
  <2> QED
    BY <1>3, <2>1, <2>2, <2>3, <2>4 DEF Configuration
<1>4. ASSUME NEW r \in Requests, ExecutorPool(r), request'[r] \in AtPool
      PROVE  at'[r] = "executing"
  <2>1. CASE UNCHANGED poolVars
    <3>1. at[r] \in {"pool", "opening"}
      BY <1>4 DEF ExecutorPool, Runtime!Ask, Runtime!Open
    <3> QED
      BY <1>1, <1>4, <2>1, <3>1 DEF Linked, poolVars
  <2>2. CASE at'[r] \notin {"pool", "opening"} /\ AnsweredTogether(r)
    <3>1. at'[r] # "answered"
      BY <1>4, <2>2 DEF AnsweredTogether, AtPool
    <3>2. CASE Runtime!Ask(r, "pool")
      BY <2>2, <3>2, TypesOK DEF Runtime!Ask, Runtime!After, Runtime!Inside
    <3>3. CASE Runtime!Fill(r, "pool", value["runtime"])
      BY <3>3, TypesOK DEF Runtime!Fill, Runtime!After
    <3>4. CASE Runtime!Fail(r)
      BY <3>1, <3>4 DEF Runtime!Fail, Runtime!Leave
    <3> QED
      BY <1>4, <3>2, <3>3, <3>4 DEF ExecutorPool, Runtime!Open
  <2> QED
    BY <1>4, <2>1, <2>2 DEF ExecutorPool
<1>5. ASSUME NEW r \in Requests,
             Cancel(r) \/ Execute(r) \/ Expire(r) \/ Child(r),
             request'[r] \in AtPool
      PROVE  at'[r] = "executing"
  <2>1. at' = at
    BY <1>5 DEF Cancel, Runtime!Cancel, Execute, Expire, Child, runtimeVars
  <2>2. request[r] \in AtPool
    BY <1>5, TypesOK
       DEF Cancel, poolVars, Execute, Expire, Child, Pool!Start, Pool!Spawn,
           Pool!Timeout, Pool!Supervised, Pool!Expire, Pool!Write, Pool!Receive,
           Pool!ChildReply, Pool!ChildExit, AtPool
  <2> QED
    BY <1>1, <2>1, <2>2 DEF Linked
<1>6. ASSUME NEW r \in Requests, DropCall(r), request'[r] \in AtPool
      PROVE  at'[r] = "executing"
  <2>1. CASE request[r] \in {"select", "queued"}
    <3>1. request' = [request EXCEPT ![r] = "answered"]
      BY <1>6, <2>1 DEF DropCall, Pool!DropCall, Pool!Withdraw, Pool!Answer
    <3> QED
      BY <1>6, <3>1, TypesOK DEF AtPool
  <2>2. CASE request[r] \notin {"select", "queued"}
    <3>1. at' = at /\ request[r] \in AtPool
      BY <1>6, <2>2 DEF DropCall, runtimeVars, Pool!DropCall, Pool!Withdraw, AtPool
    <3> QED
      BY <1>1, <3>1 DEF Linked
  <2> QED
    BY <2>1, <2>2
<1>7. ASSUME NEW r \in Requests,
             \/ Arrive(r) \/ Cancel(r) \/ Configuration(r) \/ ExecutorPool(r)
             \/ Execute(r) \/ Expire(r) \/ Child(r) \/ DropCall(r) \/ Finish(r)
      PROVE  Linked'
  <2> SUFFICES ASSUME NEW x \in Requests, request'[x] \in AtPool
               PROVE  at'[x] = "executing"
    BY DEF Linked
  <2>1. CASE x # r
    BY <1>2, <1>7, <2>1
  <2>2. CASE x = r
    BY <1>3, <1>4, <1>5, <1>6, <1>7, <2>2
  <2> QED
    BY <2>1, <2>2
<1>8. CASE UNCHANGED vars
  BY <1>1, <1>8 DEF vars, runtimeVars, poolVars, Linked
<1> QED
  BY <1>7, <1>8 DEF Next, Prepare, Serve

-----------------------------------------------------------------------------
(* The invariant, and what it says. *)

LEMMA Assumptions ==
  /\ RuntimeProofs!IsFiniteSet(Requests) /\ PoolProofs!IsFiniteSet(Requests)
  /\ MaxExecutors \in Nat \ {0}
  /\ Requests \cap {"nobody", "none", "cloud", "file", "url", "variables"} = {}
BY ServerAssumption DEF IsFiniteSet, RuntimeProofs!IsFiniteSet, PoolProofs!IsFiniteSet

LEMMA InitIInv == Init => IInv
<1> SUFFICES ASSUME Init PROVE IInv
  OBVIOUS
<1>1. RuntimeProofs!IInv
  BY Assumptions, SameRuntime, RuntimeProofs!InitIInv DEF Init
<1>2. PoolProofs!IInv
  BY Assumptions, SamePool, PoolProofs!InitIInv DEF Init
<1>3. Linked
  BY DEF Init, Pool!Init, Linked, AtPool
<1> QED
  BY <1>1, <1>2, <1>3 DEF IInv

LEMMA NextIInv == IInv /\ [Next]_vars => IInv'
<1> SUFFICES ASSUME IInv, [Next]_vars PROVE IInv'
  OBVIOUS
<1>1. RuntimeProofs!IInv'
  <2>1. [RuntimeProofs!Next]_RuntimeProofs!vars
    BY RuntimeImplemented, SameRuntime
  <2> QED
    BY <2>1, Assumptions, RuntimeProofs!NextIInv DEF IInv
<1>2. PoolProofs!IInv'
  <2>1. [PoolProofs!Next]_PoolProofs!vars
    BY PoolImplemented, SamePool
  <2> QED
    BY <2>1, Assumptions, PoolProofs!NextIInv DEF IInv
<1> QED
  BY <1>1, <1>2, LinkedStep DEF IInv

\* IInv is an invariant of the server.
THEOREM ServerInvariant == Spec => []IInv
BY InitIInv, NextIInv, PTL DEF Spec

\* The server is, seen from either part, that part: what is proved of
\* ManagedRuntime and ExecutorPool holds of the whole.
THEOREM ServerImplementsParts == Spec => ImplementsParts
<1>1. Init => Runtime!Init /\ Pool!Init
  BY DEF Init
<1>2. IInv /\ [Next]_vars => [Runtime!Next]_Runtime!vars
  BY RuntimeImplemented
<1>3. IInv /\ [Next]_vars => [Pool!Next]_Pool!vars
  BY PoolImplemented
<1> QED
  BY <1>1, <1>2, <1>3, ServerInvariant, PTL
     DEF Spec, ImplementsParts, Runtime!Spec, Pool!Spec

\* An executor lives only while its request executes, and works at the
\* endpoint that was chosen at start.
THEOREM EndpointOutlivesChild == Spec => []ChildHasItsEndpoint
<1>1. IInv => ChildHasItsEndpoint
  <2> SUFFICES ASSUME IInv PROVE ChildHasItsEndpoint
    OBVIOUS
  <2>1. ASSUME NEW r \in Pool!Live PROVE at[r] = "executing"
    <3>1. r \in Requests /\ child[r] \in {"alive", "replied"}
      BY DEF Pool!Live
    <3>2. request[r] \in AtPool
      BY <3>1 DEF IInv, PoolProofs!IInv, PoolProofs!ChildOK,
                  PoolProofs!Supervised, AtPool
    <3> QED
      BY <3>1, <3>2 DEF IInv, Linked
  <2>2. Runtime!ChosenConnection
    BY Assumptions, SameRuntime, RuntimeProofs!UsedIsChosen DEF IInv
  <2> QED
    BY <2>1, <2>2 DEF ChildHasItsEndpoint
<1> QED
  BY <1>1, ServerInvariant, PTL
=============================================================================
