------------------------- MODULE ExecutorPoolProofs -------------------------
(***************************************************************************)
(* ExecutorPool is correct for every set of requests and every limit.      *)
(*                                                                         *)
(* PermitsConserved is not inductive: that a permit handed to the head of  *)
(* the queue is not lost needs the queue to hold each waiting request      *)
(* exactly once (QueueOK), and that a request's child is bounded by its    *)
(* permit needs to know in which states a child can be alive (ChildOK).    *)
(***************************************************************************)
EXTENDS ExecutorPool, FiniteSetTheorems, SequenceTheorems, TLAPS

HolderState == {"granted", "spawning", "writing", "awaiting", "releasing"}

\* Each waiting request is in the queue, once, and nothing else is.
QueueOK ==
    /\ \A i \in DOMAIN queue : request[queue[i]] = "queued"
    /\ \A i, j \in DOMAIN queue : queue[i] = queue[j] => i = j
    /\ \A r \in Requests :
           request[r] = "queued" => \E i \in DOMAIN queue : queue[i] = r

\* A child lives only while its request is supervised, and there is none
\* before its request has spawned it.
ChildOK ==
    \A r \in Requests :
        /\ child[r] \in {"alive", "replied"} => Supervised(r)
        /\ request[r] \in {"new", "configuring", "select", "queued",
                           "granted", "spawning"} => child[r] = "none"

IInv == TypeOK /\ QueueOK /\ PermitsConserved /\ ChildOK

\* RemoveAt closes the gap the i-th element leaves.
LEMMA RemoveAtLen ==
  ASSUME NEW S, NEW s \in Seq(S), NEW i \in DOMAIN s
  PROVE  RemoveAt(s, i) \in Seq(S) /\ Len(RemoveAt(s, i)) = Len(s) - 1
BY DEF RemoveAt

LEMMA RemoveAtElement ==
  ASSUME NEW S, NEW s \in Seq(S), NEW i \in DOMAIN s, NEW j \in 1..(Len(s) - 1)
  PROVE  RemoveAt(s, i)[j] = s[IF j < i THEN j ELSE j + 1]
<1>1. PICK n \in Nat : n = Len(s) /\ i \in 1..n /\ j \in 1..(n - 1)
  OBVIOUS
<1>2. PICK front, back :
        front = SubSeq(s, 1, i - 1) /\ back = SubSeq(s, i + 1, n)
  OBVIOUS
<1>3. /\ front \in Seq(S) /\ Len(front) = i - 1
      /\ \A k \in 1..(i - 1) : front[k] = s[k]
  BY <1>1, <1>2
<1>4. /\ back \in Seq(S) /\ Len(back) = n - i
      /\ \A k \in 1..(n - i) : back[k] = s[i + k]
  BY <1>1, <1>2
<1>5. PICK whole : whole = front \o back /\ whole = RemoveAt(s, i)
  BY <1>1, <1>2 DEF RemoveAt
<1>6. \A k \in 1..(Len(front) + Len(back)) :
        (front \o back)[k] = IF k <= Len(front) THEN front[k] ELSE back[k - Len(front)]
  BY <1>3, <1>4, ConcatProperties, Zenon
<1>7. \A k \in 1..(Len(front) + Len(back)) :
        whole[k] = IF k <= Len(front) THEN front[k] ELSE back[k - Len(front)]
  BY <1>5, <1>6, Zenon
<1>8. PICK m, l : m = Len(front) /\ l = Len(back)
  OBVIOUS
<1>9. /\ m = i - 1 /\ l = n - i
      /\ \A k \in 1..(m + l) : whole[k] = IF k <= m THEN front[k] ELSE back[k - m]
  BY <1>3, <1>4, <1>7, <1>8, Zenon
<1>10. whole[j] = s[IF j < i THEN j ELSE j + 1]
  <2> HIDE DEF RemoveAt
  <2>1. j \in 1..(m + l)
    BY <1>1, <1>9
  <2>2. CASE j < i
    <3>1. j <= m /\ j \in 1..(i - 1)
      BY <1>1, <1>9, <2>2
    <3> QED BY <1>3, <1>9, <2>1, <2>2, <3>1
  <2>3. CASE ~(j < i)
    <3>1. ~(j <= m) /\ j - m \in 1..(n - i) /\ i + (j - m) = j + 1
      BY <1>1, <1>9, <2>3
    <3>2. whole[j] = back[j - m] /\ back[j - m] = s[i + (j - m)]
      BY <1>4, <1>9, <2>1, <3>1
    <3> QED BY <2>3, <3>1, <3>2
  <2> QED BY <2>2, <2>3
<1> QED BY <1>5, <1>10

\* The number of permits held is a number.
LEMMA HoldersFinite == IsFiniteSet(Holders) /\ Cardinality(Holders) \in Nat
<1>1. Holders \in SUBSET Requests
  BY DEF Holders, InState
<1> QED
  BY <1>1, PoolAssumption, FS_Subset, FS_CardinalityType

\* Every state satisfies the invariant at the start.
LEMMA InitIInv == Init => IInv
<1> SUFFICES ASSUME Init PROVE IInv
  OBVIOUS
<1>1. Holders = {}
  BY DEF Init, Holders, InState
<1>2. Cardinality(Holders) = 0
  BY <1>1, FS_EmptySet
<1>3. TypeOK
  <2>1. queue \in Seq(Requests) /\ permits \in 0..MaxExecutors
    BY PoolAssumption DEF Init
  <2>2. /\ request \in [Requests -> RequestState]
        /\ child \in [Requests -> ChildState]
        /\ result \in [Requests -> Results]
    BY DEF Init, RequestState, ChildState, Results
  <2>3. cancelled \subseteq Requests /\ expired \subseteq Requests /\ pool \in BOOLEAN
    BY DEF Init
  <2> QED
    BY <2>1, <2>2, <2>3 DEF TypeOK
<1>4. QueueOK /\ ChildOK
  BY DEF Init, QueueOK, ChildOK, Supervised
<1>5. PermitsConserved
  BY <1>2, PoolAssumption DEF Init, PermitsConserved
<1> QED
  BY <1>3, <1>4, <1>5 DEF IInv

\* A step that moves no request into or out of the holders or the queue keeps
\* the semaphore's part of the invariant.
LEMMA QuietStep ==
  ASSUME IInv,
         UNCHANGED <<queue, permits>>,
         \A r \in Requests :
             /\ request'[r] \in HolderState <=> request[r] \in HolderState
             /\ request'[r] = "queued" <=> request[r] = "queued"
  PROVE  QueueOK' /\ PermitsConserved'
<1>1. Holders' = Holders
  BY DEF Holders, InState, HolderState
<1>2. QueueOK'
  BY DEF IInv, TypeOK, QueueOK
<1> QED
  BY <1>1, <1>2 DEF IInv, PermitsConserved

\* A request that takes a free permit on its first poll.
LEMMA TakePermit ==
  ASSUME IInv, NEW r \in Requests,
         request[r] \notin HolderState, request[r] # "queued",
         permits > 0,
         request' = [request EXCEPT ![r] = "spawning"],
         permits' = permits - 1,
         UNCHANGED queue
  PROVE  QueueOK' /\ PermitsConserved' /\ permits' \in 0..MaxExecutors
<1>1. Holders' = Holders \cup {r} /\ r \notin Holders
  BY DEF IInv, TypeOK, Holders, InState, HolderState
<1>2. Cardinality(Holders') = Cardinality(Holders) + 1
  BY <1>1, HoldersFinite, FS_AddElement
<1>3. QueueOK'
  BY DEF IInv, TypeOK, QueueOK
<1>4. queue = <<>>
  BY PoolAssumption DEF IInv, TypeOK, PermitsConserved
<1>5. permits' \in 0..MaxExecutors
  BY PoolAssumption DEF IInv, TypeOK
<1>6. PermitsConserved'
  BY <1>2, <1>4, <1>5, HoldersFinite, PoolAssumption
  DEF IInv, TypeOK, PermitsConserved
<1> QED
  BY <1>3, <1>5, <1>6

\* A request that finds no permit and queues.
LEMMA JoinQueue ==
  ASSUME IInv, NEW r \in Requests,
         request[r] \notin HolderState, request[r] # "queued",
         ~(permits > 0),
         request' = [request EXCEPT ![r] = "queued"],
         queue' = Append(queue, r),
         UNCHANGED permits
  PROVE  QueueOK' /\ PermitsConserved' /\ queue' \in Seq(Requests)
<1>1. Holders' = Holders
  BY DEF IInv, TypeOK, Holders, InState, HolderState
<1>2. queue' \in Seq(Requests) /\ Len(queue') = Len(queue) + 1
  BY DEF IInv, TypeOK
<1>3. /\ \A i \in 1..Len(queue) : queue'[i] = queue[i]
      /\ queue'[Len(queue) + 1] = r
  BY DEF IInv, TypeOK
<1>4. \A i \in 1..Len(queue) : queue[i] \in Requests /\ queue[i] # r
  BY DEF IInv, TypeOK, QueueOK
<1>5. DOMAIN queue' = 1..(Len(queue) + 1) /\ DOMAIN queue = 1..Len(queue)
  BY <1>2 DEF IInv, TypeOK
<1>6. Len(queue) \in Nat
  BY DEF IInv, TypeOK
<1>7. \A i \in DOMAIN queue' : request'[queue'[i]] = "queued"
  BY <1>3, <1>4, <1>5, <1>6 DEF IInv, TypeOK, QueueOK
<1>8. \A i, j \in DOMAIN queue' : queue'[i] = queue'[j] => i = j
  BY <1>3, <1>4, <1>5, <1>6 DEF IInv, QueueOK
<1>9. \A q \in Requests :
          request'[q] = "queued" => \E i \in DOMAIN queue' : queue'[i] = q
  <2> SUFFICES ASSUME NEW q \in Requests, request'[q] = "queued"
               PROVE  \E i \in DOMAIN queue' : queue'[i] = q
    OBVIOUS
  <2>1. CASE q = r
    BY <2>1, <1>3, <1>5, <1>6
  <2>2. CASE q # r
    <3>1. PICK i \in DOMAIN queue : queue[i] = q
      BY <2>2 DEF IInv, TypeOK, QueueOK
    <3> QED
      BY <3>1, <1>3, <1>5, <1>6
  <2> QED
    BY <2>1, <2>2
<1>10. PermitsConserved'
  BY <1>1, PoolAssumption DEF IInv, TypeOK, PermitsConserved
<1> QED
  BY <1>2, <1>7, <1>8, <1>9, <1>10 DEF QueueOK

\* A waiter that is cancelled leaves the queue.
LEMMA LeaveQueue ==
  ASSUME IInv, NEW r \in Requests, Withdraw(r)
  PROVE  QueueOK' /\ PermitsConserved' /\ queue' \in Seq(Requests)
<1>1. PICK k \in DOMAIN queue : queue[k] = r /\ queue' = RemoveAt(queue, k)
  BY DEF Withdraw
<1> DEFINE n == Len(queue)
<1>2. n \in Nat /\ DOMAIN queue = 1..n /\ queue \in Seq(Requests)
  BY DEF IInv, TypeOK
<1>3. queue' \in Seq(Requests) /\ Len(queue') = n - 1
  BY <1>1, <1>2, RemoveAtLen
<1>4. DOMAIN queue' = 1..(n - 1)
  BY <1>3
<1>5. \A i \in 1..(n - 1) : queue'[i] = queue[IF i < k THEN i ELSE i + 1]
  BY <1>1, <1>2, RemoveAtElement
<1>6. request' = [request EXCEPT ![r] = "answered"] /\ permits' = permits
  BY DEF Withdraw, Answer
<1>7. request[r] = "queued"
  BY DEF Withdraw
<1>8. Holders' = Holders
  BY <1>6, <1>7 DEF IInv, TypeOK, Holders, InState
<1>9. \A i \in 1..n : queue[i] = r => i = k
  BY <1>1, <1>2 DEF IInv, QueueOK
<1> HIDE DEF n
<1>10. \A i \in DOMAIN queue' : request'[queue'[i]] = "queued"
  <2> SUFFICES ASSUME NEW i \in 1..(n - 1) PROVE request'[queue'[i]] = "queued"
    BY <1>4
  <2> DEFINE j == IF i < k THEN i ELSE i + 1
  <2>1. j \in 1..n /\ j # k /\ queue'[i] = queue[j]
    BY <1>1, <1>2, <1>5
  <2> HIDE DEF j
  <2>2. queue[j] # r /\ request[queue[j]] = "queued" /\ queue[j] \in Requests
    BY <2>1, <1>9, <1>2 DEF IInv, TypeOK, QueueOK
  <2> QED
    BY <2>1, <2>2, <1>6 DEF IInv, TypeOK
<1>11. \A i, j \in DOMAIN queue' : queue'[i] = queue'[j] => i = j
  <2> SUFFICES ASSUME NEW i \in 1..(n - 1), NEW j \in 1..(n - 1),
                      queue'[i] = queue'[j]
               PROVE  i = j
    BY <1>4
  <2> DEFINE a == IF i < k THEN i ELSE i + 1
             b == IF j < k THEN j ELSE j + 1
  <2>1. a \in 1..n /\ b \in 1..n /\ queue[a] = queue[b]
    BY <1>1, <1>2, <1>5
  <2>2. a = b
    BY <2>1, <1>2 DEF IInv, QueueOK
  <2> QED
    BY <2>2, <1>1, <1>2
<1>12. \A q \in Requests :
          request'[q] = "queued" => \E i \in DOMAIN queue' : queue'[i] = q
  <2> SUFFICES ASSUME NEW q \in Requests, request'[q] = "queued"
               PROVE  \E i \in DOMAIN queue' : queue'[i] = q
    OBVIOUS
  <2>1. q # r /\ request[q] = "queued"
    BY <1>6 DEF IInv, TypeOK
  <2>2. PICK m \in 1..n : queue[m] = q
    BY <2>1, <1>2 DEF IInv, QueueOK
  <2>3. m # k
    BY <2>1, <2>2, <1>1
  <2> DEFINE i == IF m < k THEN m ELSE m - 1
  <2>4. i \in 1..(n - 1) /\ m = IF i < k THEN i ELSE i + 1
    BY <2>3, <1>1, <1>2
  <2>5. queue'[i] = q
    BY <2>4, <2>2, <1>5
  <2> QED
    BY <2>4, <2>5, <1>4
<1>13. PermitsConserved'
  <2>1. queue # <<>>
    BY <1>1
  <2> QED
    BY <2>1, <1>6, <1>8 DEF IInv, PermitsConserved
<1> QED
  BY <1>3, <1>10, <1>11, <1>12, <1>13 DEF QueueOK

\* A permit that is given up goes to the first waiter or back to the pool.
LEMMA GiveUpPermit ==
  ASSUME IInv, NEW r \in Requests, Release(r)
  PROVE  /\ QueueOK' /\ PermitsConserved'
         /\ queue' \in Seq(Requests) /\ permits' \in 0..MaxExecutors
         /\ request' \in [Requests -> RequestState]
<1>1. request[r] = "releasing" /\ r \in Holders
  BY DEF Release, Holders, InState
<1>2. Cardinality(Holders \ {r}) = Cardinality(Holders) - 1
  BY <1>1, HoldersFinite, FS_RemoveElement
<1>3. IsFiniteSet(Holders \ {r})
  BY HoldersFinite, FS_RemoveElement
<1>4. CASE queue = <<>>
  <2>1. /\ request' = [request EXCEPT ![r] = "answered"]
        /\ permits' = permits + 1
        /\ queue' = queue
    BY <1>4 DEF Release
  <2>2. Holders' = Holders \ {r}
    BY <2>1, <1>1 DEF IInv, TypeOK, Holders, InState
  <2>3. Cardinality(Holders \ {r}) \in Nat
    BY <1>3, FS_CardinalityType
  <2>4. PermitsConserved' /\ permits' \in 0..MaxExecutors
    BY <2>1, <2>2, <2>3, <1>2, <1>4, HoldersFinite, PoolAssumption
    DEF IInv, TypeOK, PermitsConserved
  <2>5. QueueOK' /\ request' \in [Requests -> RequestState]
    BY <2>1, <1>1, <1>4 DEF IInv, TypeOK, QueueOK, RequestState
  <2> QED
    BY <2>1, <2>4, <2>5, <1>4 DEF IInv, TypeOK
<1>5. CASE queue # <<>>
  <2> DEFINE h == Head(queue)
             n == Len(queue)
  <2>1. /\ request' = [request EXCEPT ![r] = "answered", ![h] = "granted"]
        /\ queue' = Tail(queue)
        /\ permits' = permits
    BY <1>5 DEF Release
  <2>2. /\ queue \in Seq(Requests) /\ n \in Nat \ {0} /\ h = queue[1]
        /\ DOMAIN queue = 1..n /\ h \in Requests
    BY <1>5 DEF IInv, TypeOK
  <2>3. /\ queue' \in Seq(Requests) /\ DOMAIN queue' = 1..(n - 1)
        /\ \A i \in 1..(n - 1) : queue'[i] = queue[i + 1]
    BY <2>1, <2>2
  <2>4. request[h] = "queued" /\ h # r
    BY <2>2, <1>1 DEF IInv, QueueOK
  <2>5. \A q \in Requests :
            request'[q] = IF q = h THEN "granted"
                          ELSE IF q = r THEN "answered" ELSE request[q]
    BY <2>1, <2>2, <2>4 DEF IInv, TypeOK
  <2> HIDE DEF h, n
  <2>6. Holders' = (Holders \ {r}) \cup {h} /\ h \notin Holders \ {r}
    BY <2>2, <2>4, <2>5 DEF Holders, InState
  <2>7. Cardinality(Holders') = Cardinality(Holders)
    <3>1. Cardinality((Holders \ {r}) \cup {h}) = Cardinality(Holders \ {r}) + 1
      BY <2>6, <1>3, FS_AddElement
    <3> QED
      BY <3>1, <2>6, <1>2, HoldersFinite
  <2>8. PermitsConserved' /\ permits' \in 0..MaxExecutors
    BY <2>1, <2>7, <1>5 DEF IInv, TypeOK, PermitsConserved
  <2>9. request' \in [Requests -> RequestState]
    BY <2>1, <2>2 DEF IInv, TypeOK, RequestState
  <2>10. \A i \in 1..(n - 1) : queue[i + 1] \in Requests /\ queue[i + 1] # h
    BY <2>2 DEF IInv, QueueOK
  <2>11. \A i \in DOMAIN queue' : request'[queue'[i]] = "queued"
    <3> SUFFICES ASSUME NEW i \in 1..(n - 1)
                 PROVE  request'[queue'[i]] = "queued"
      BY <2>3
    <3>1. i + 1 \in DOMAIN queue
      BY <2>2
    <3>2. request[queue[i + 1]] = "queued"
      BY <3>1 DEF IInv, QueueOK
    <3> QED
      BY <3>2, <2>3, <2>5, <2>10, <1>1
  <2>12. \A i, j \in DOMAIN queue' : queue'[i] = queue'[j] => i = j
    <3> SUFFICES ASSUME NEW i \in 1..(n - 1), NEW j \in 1..(n - 1),
                        queue'[i] = queue'[j]
                 PROVE  i = j
      BY <2>3
    <3>1. i + 1 \in DOMAIN queue /\ j + 1 \in DOMAIN queue
      BY <2>2
    <3>2. i + 1 = j + 1
      BY <3>1, <2>3 DEF IInv, QueueOK
    <3> QED
      BY <3>2
  <2>13. \A q \in Requests :
            request'[q] = "queued" => \E i \in DOMAIN queue' : queue'[i] = q
    <3> SUFFICES ASSUME NEW q \in Requests, request'[q] = "queued"
                 PROVE  \E i \in DOMAIN queue' : queue'[i] = q
      OBVIOUS
    <3>1. q # h /\ request[q] = "queued"
      BY <2>5
    <3>2. PICK m \in 1..n : queue[m] = q
      BY <3>1, <2>2 DEF IInv, QueueOK
    <3>3. m # 1
      BY <3>1, <3>2, <2>2
    <3>4. m - 1 \in 1..(n - 1) /\ (m - 1) + 1 = m
      BY <3>3, <2>2
    <3>5. queue'[m - 1] = q
      BY <3>2, <3>4, <2>3
    <3> QED
      BY <3>4, <3>5, <2>3
  <2> QED
    BY <2>3, <2>8, <2>9, <2>11, <2>12, <2>13 DEF QueueOK
<1> QED
  BY <1>4, <1>5

\* Ending an execution kills the child and keeps the permit for one step more.
LEMMA StopStep ==
  ASSUME IInv, NEW r \in Requests, NEW why \in Results, Stop(r, why),
         request[r] \in {"granted", "spawning", "writing", "awaiting"}
  PROVE  IInv'
<1>1. QueueOK' /\ PermitsConserved'
  BY QuietStep DEF Stop, HolderState, IInv, TypeOK
<1>2. TypeOK'
  BY DEF IInv, TypeOK, Stop, RequestState, ChildState
<1>3. ChildOK'
  BY DEF IInv, TypeOK, ChildOK, Supervised, Stop
<1> QED
  BY <1>1, <1>2, <1>3 DEF IInv

\* Every step of every request, and of every child, keeps the invariant.
LEMMA NextIInv == IInv /\ [Next]_vars => IInv'
<1> SUFFICES ASSUME IInv, [Next]_vars PROVE IInv'
  OBVIOUS
<1> USE DEF Supervised
<1>1. ASSUME NEW r \in Requests, Arrive(r) PROVE IInv'
  <2>1. QueueOK' /\ PermitsConserved'
    BY <1>1, QuietStep DEF Arrive, Answer, HolderState, IInv, TypeOK
  <2>2. TypeOK'
    BY <1>1 DEF IInv, TypeOK, Arrive, Answer, RequestState, Results
  <2>3. ChildOK'
    BY <1>1 DEF IInv, TypeOK, ChildOK, Arrive, Answer
  <2> QED
    BY <2>1, <2>2, <2>3 DEF IInv
<1>2. ASSUME NEW r \in Requests, Configure(r) PROVE IInv'
  <2>1. QueueOK' /\ PermitsConserved'
    BY <1>2, QuietStep DEF Configure, Answer, HolderState, IInv, TypeOK
  <2>2. TypeOK'
    BY <1>2 DEF IInv, TypeOK, Configure, Answer, RequestState, Results
  <2>3. ChildOK'
    BY <1>2 DEF IInv, TypeOK, ChildOK, Configure, Answer
  <2> QED
    BY <2>1, <2>2, <2>3 DEF IInv
<1>3. ASSUME NEW r \in Requests, Cancel(r) PROVE IInv'
  <2>1. QueueOK' /\ PermitsConserved'
    BY <1>3, QuietStep DEF Cancel
  <2> QED
    BY <1>3, <2>1 DEF IInv, TypeOK, ChildOK, Cancel
<1>4. ASSUME NEW r \in Requests, Acquire(r) PROVE IInv'
  <2>1. request[r] = "select"
    BY <1>4 DEF Acquire
  <2>2. CASE Answer(r, "poolFailed") /\ UNCHANGED <<pool, queue, permits>>
    <3>1. QueueOK' /\ PermitsConserved'
      BY <2>1, <2>2, QuietStep DEF Answer, HolderState, IInv, TypeOK
    <3>2. TypeOK' /\ ChildOK'
      BY <1>4, <2>1, <2>2
      DEF Acquire, Answer, IInv, TypeOK, ChildOK, RequestState, Results
    <3> QED
      BY <3>1, <3>2 DEF IInv
  <2>3. CASE /\ pool' = TRUE /\ UNCHANGED result
             /\ permits > 0
             /\ request' = [request EXCEPT ![r] = "spawning"]
             /\ permits' = permits - 1 /\ UNCHANGED queue
    <3>1. QueueOK' /\ PermitsConserved' /\ permits' \in 0..MaxExecutors
      BY <2>1, <2>3, TakePermit DEF HolderState
    <3>2. TypeOK'
      BY <1>4, <2>3, <3>1 DEF Acquire, IInv, TypeOK, RequestState
    <3>3. ChildOK'
      BY <1>4, <2>1, <2>3 DEF Acquire, IInv, TypeOK, ChildOK
    <3> QED
      BY <3>1, <3>2, <3>3 DEF IInv
  <2>4. CASE /\ pool' = TRUE /\ UNCHANGED result
             /\ ~(permits > 0)
             /\ request' = [request EXCEPT ![r] = "queued"]
             /\ queue' = Append(queue, r) /\ UNCHANGED permits
    <3>1. QueueOK' /\ PermitsConserved' /\ queue' \in Seq(Requests)
      BY <2>1, <2>4, JoinQueue DEF HolderState
    <3>2. TypeOK'
      BY <1>4, <2>4, <3>1 DEF Acquire, IInv, TypeOK, RequestState
    <3>3. ChildOK'
      BY <1>4, <2>1, <2>4 DEF Acquire, IInv, TypeOK, ChildOK
    <3> QED
      BY <3>1, <3>2, <3>3 DEF IInv
  <2> QED
    BY <1>4, <2>2, <2>3, <2>4 DEF Acquire
<1>5. ASSUME NEW r \in Requests, Start(r) PROVE IInv'
  <2>1. QueueOK' /\ PermitsConserved'
    BY <1>5, QuietStep DEF Start, HolderState, IInv, TypeOK
  <2> QED
    BY <1>5, <2>1 DEF IInv, TypeOK, ChildOK, Start, RequestState
<1>6. ASSUME NEW r \in Requests, Spawn(r) PROVE IInv'
  <2>1. CASE Stop(r, "spawnFailed")
    BY <1>6, <2>1, StopStep DEF Spawn, Results
  <2>2. CASE /\ request' = [request EXCEPT ![r] = "writing"]
             /\ child' = [child EXCEPT ![r] = "alive"]
             /\ UNCHANGED <<cancelled, expired, result, pool, queue, permits>>
    <3>1. QueueOK' /\ PermitsConserved'
      BY <1>6, <2>2, QuietStep DEF Spawn, HolderState, IInv, TypeOK
    <3> QED
      BY <2>2, <3>1 DEF IInv, TypeOK, ChildOK, RequestState, ChildState
  <2> QED
    BY <1>6, <2>1, <2>2 DEF Spawn
<1>7. ASSUME NEW r \in Requests, Write(r) PROVE IInv'
  <2>1. CASE \E why \in Results : Stop(r, why)
    BY <1>7, <2>1, StopStep DEF Write
  <2>2. CASE /\ request' = [request EXCEPT ![r] = "awaiting"]
             /\ UNCHANGED <<cancelled, expired, child, result, pool, queue,
                            permits>>
    <3>1. QueueOK' /\ PermitsConserved'
      BY <1>7, <2>2, QuietStep DEF Write, HolderState, IInv, TypeOK
    <3> QED
      BY <1>7, <2>2, <3>1 DEF Write, IInv, TypeOK, ChildOK, RequestState
  <2> QED
    BY <1>7, <2>1, <2>2 DEF Write, Results
<1>8. ASSUME NEW r \in Requests, Receive(r) PROVE IInv'
  <2>1. \E why \in Results : Stop(r, why)
    BY <1>8 DEF Receive, Results
  <2> QED
    BY <1>8, <2>1, StopStep DEF Receive
<1>9. ASSUME NEW r \in Requests, Expire(r) PROVE IInv'
  <2>1. QueueOK' /\ PermitsConserved'
    BY <1>9, QuietStep DEF Expire
  <2> QED
    BY <1>9, <2>1 DEF IInv, TypeOK, ChildOK, Expire
<1>10. ASSUME NEW r \in Requests, Timeout(r) PROVE IInv'
  BY <1>10, StopStep DEF Timeout, Results
<1>11. ASSUME NEW r \in Requests, DropCall(r) PROVE IInv'
  <2>1. CASE /\ request[r] = "select"
             /\ Answer(r, "cancelled")
             /\ UNCHANGED <<cancelled, expired, child, pool, queue, permits>>
    <3>1. QueueOK' /\ PermitsConserved'
      BY <2>1, QuietStep DEF Answer, HolderState, IInv, TypeOK
    <3> QED
      BY <2>1, <3>1 DEF Answer, IInv, TypeOK, ChildOK, RequestState, Results
  <2>2. CASE Withdraw(r)
    <3>1. QueueOK' /\ PermitsConserved' /\ queue' \in Seq(Requests)
      BY <2>2, LeaveQueue
    <3>2. TypeOK'
      BY <2>2, <3>1 DEF Withdraw, Answer, IInv, TypeOK, RequestState, Results
    <3>3. ChildOK'
      BY <2>2 DEF Withdraw, Answer, IInv, TypeOK, ChildOK
    <3> QED
      BY <3>1, <3>2, <3>3 DEF IInv
  <2>3. CASE /\ request[r] \in {"granted", "spawning", "writing", "awaiting"}
             /\ Stop(r, "cancelled")
    BY <2>3, StopStep DEF Results
  <2> QED
    BY <1>11, <2>1, <2>2, <2>3 DEF DropCall
<1>12. ASSUME NEW r \in Requests, Release(r) PROVE IInv'
  <2>1. /\ QueueOK' /\ PermitsConserved'
        /\ queue' \in Seq(Requests) /\ permits' \in 0..MaxExecutors
        /\ request' \in [Requests -> RequestState]
    BY <1>12, GiveUpPermit
  <2>2. TypeOK'
    BY <1>12, <2>1 DEF Release, IInv, TypeOK
  <2>3. /\ request[r] = "releasing" /\ UNCHANGED child
        /\ queue # <<>> => Head(queue) \in Requests /\ request[Head(queue)] = "queued"
    BY <1>12 DEF Release, IInv, TypeOK, QueueOK
  <2>4. ChildOK'
    BY <1>12, <2>3 DEF Release, IInv, TypeOK, ChildOK
  <2> QED
    BY <2>1, <2>2, <2>4 DEF IInv
<1>13. ASSUME NEW r \in Requests, ChildReply(r) \/ ChildExit(r) PROVE IInv'
  <2>1. QueueOK' /\ PermitsConserved'
    BY <1>13, QuietStep DEF ChildReply, ChildExit
  <2> QED
    BY <1>13, <2>1
    DEF ChildReply, ChildExit, IInv, TypeOK, ChildOK, ChildState
<1>14. ASSUME UNCHANGED vars PROVE IInv'
  <2>1. Holders' = Holders
    BY <1>14 DEF vars, Holders, InState
  <2> QED
    BY <1>14, <2>1 DEF vars, IInv, TypeOK, QueueOK, PermitsConserved, ChildOK
<1> QED
  BY <1>1, <1>2, <1>3, <1>4, <1>5, <1>6, <1>7, <1>8, <1>9, <1>10, <1>11,
     <1>12, <1>13, <1>14 DEF Next, Server

\* The inductive invariant holds in every reachable state.
THEOREM Invariance == Spec => []IInv
  BY InitIInv, NextIInv, PTL DEF Spec

\* Every variable keeps its type, the permits never leaving 0..MaxExecutors.
THEOREM TypeCorrect == Spec => []TypeOK
<1>1. IInv => TypeOK
  BY DEF IInv
<1> QED
  BY <1>1, Invariance, PTL

\* The pool's semaphore never loses or forges a permit, and never keeps one
\* free while a request waits, whatever errors, timeouts and cancellations
\* interrupt its holders.
THEOREM PermitsAreConserved == Spec => []PermitsConserved
<1>1. IInv => PermitsConserved
  BY DEF IInv
<1> QED
  BY <1>1, Invariance, PTL

\* The queue is exactly the set of the waiting requests.
THEOREM QueueIsExact == Spec => []QueueIsWaiting
<1>1. IInv => QueueIsWaiting
  BY DEF IInv, TypeOK, QueueOK, QueueIsWaiting, Range, InState
<1> QED
  BY <1>1, Invariance, PTL

\* No executor process outlives the permit of its request.
THEOREM NoChildStrays == Spec => []NoStrayChild
<1>1. IInv => NoStrayChild
  BY DEF IInv, ChildOK, NoStrayChild, Live, Holders, InState, Supervised
<1> QED
  BY <1>1, Invariance, PTL

-----------------------------------------------------------------------------
(* The executor processes implement the bounded service. *)

\* The instance counts with the same Cardinality.
LEMMA ServiceCardinality == \A S : Service!Cardinality(S) = Cardinality(S)
  BY Zenon DEF Service!Cardinality, Cardinality

\* Spawning finds room: the live children belong to the other holders.
LEMMA SpawnEnters ==
  ASSUME IInv, NEW r \in Requests, request[r] = "spawning",
         child' = [child EXCEPT ![r] = "alive"]
  PROVE  Service!Enter(r)
<1>1. child[r] = "none" /\ r \notin Spawned /\ r \notin Live /\ r \in Holders
  BY DEF IInv, ChildOK, Spawned, Live, Holders, InState
<1>2. Live \in SUBSET (Holders \ {r})
  BY <1>1 DEF IInv, ChildOK, Live, Holders, InState, Supervised
<1>3. /\ IsFiniteSet(Holders \ {r})
      /\ Cardinality(Holders \ {r}) = Cardinality(Holders) - 1
  BY <1>1, HoldersFinite, FS_RemoveElement
<1>4. Cardinality(Live) <= Cardinality(Holders) - 1 /\ Cardinality(Live) \in Nat
  BY <1>2, <1>3, FS_Subset, FS_CardinalityType
<1>5. Cardinality(Live) < MaxExecutors
  BY <1>4, HoldersFinite, PoolAssumption DEF IInv, TypeOK, PermitsConserved
<1>6. Spawned \in SUBSET Requests /\ Spawned # Requests
  BY <1>1 DEF Spawned
<1>7. Cardinality(Spawned) < Cardinality(Requests)
  <2>1. Cardinality(Requests) \in Nat /\ Cardinality(Spawned) \in Nat
    BY <1>6, PoolAssumption, FS_Subset, FS_CardinalityType
  <2> QED
    BY <2>1, <1>6, PoolAssumption, FS_Subset
<1>8. \A q \in Requests : child'[q] = IF q = r THEN "alive" ELSE child[q]
  BY DEF IInv, TypeOK
<1>9. Live' = Live \cup {r}
  BY <1>8 DEF Live
<1>10. Spawned' = Spawned \cup {r}
  BY <1>8 DEF Spawned
<1> QED
  BY <1>1, <1>5, <1>7, <1>9, <1>10, ServiceCardinality DEF Service!Enter

\* A step that starts no child removes at most the one it is about.
LEMMA ChildLeaves ==
  ASSUME IInv, NEW r \in Requests, NEW s \in {"exited", "killed"},
         child[r] \in {"alive", "replied"},
         child' = [child EXCEPT ![r] = s]
  PROVE  Service!Leave(r)
BY DEF IInv, TypeOK, Live, Spawned, Service!Leave

LEMMA StopRefines ==
  ASSUME IInv, NEW r \in Requests, NEW why, Stop(r, why)
  PROVE  [Service!Next]_(Service!vars)
<1>1. CASE child[r] \in {"alive", "replied"}
  <2>1. child' = [child EXCEPT ![r] = "killed"]
    BY <1>1 DEF Stop
  <2> QED
    BY <1>1, <2>1, ChildLeaves DEF Service!Next
<1>2. CASE child[r] \notin {"alive", "replied"}
  <2>1. child' = child
    BY <1>2 DEF Stop, IInv, TypeOK
  <2> QED
    BY <2>1 DEF Live, Spawned, Service!vars
<1> QED
  BY <1>1, <1>2

LEMMA StepRefines == IInv /\ [Next]_vars => [Service!Next]_(Service!vars)
<1> SUFFICES ASSUME IInv, [Next]_vars PROVE [Service!Next]_(Service!vars)
  OBVIOUS
<1>1. ASSUME UNCHANGED child PROVE [Service!Next]_(Service!vars)
  BY <1>1 DEF Live, Spawned, Service!vars
<1>2. ASSUME NEW r \in Requests, Spawn(r) PROVE [Service!Next]_(Service!vars)
  <2>1. CASE Stop(r, "spawnFailed")
    BY <2>1, StopRefines
  <2>2. CASE child' = [child EXCEPT ![r] = "alive"]
    BY <1>2, <2>2, SpawnEnters DEF Spawn, Service!Next
  <2> QED
    BY <1>2, <2>1, <2>2 DEF Spawn
<1>3. ASSUME NEW r \in Requests, Write(r) \/ Receive(r) \/ Timeout(r) \/ DropCall(r)
      PROVE  [Service!Next]_(Service!vars)
  <2>1. (\E why : Stop(r, why)) \/ UNCHANGED child
    BY <1>3 DEF Write, Receive, Timeout, DropCall, Withdraw
  <2> QED
    BY <2>1, <1>1, StopRefines
<1>4. ASSUME NEW r \in Requests, ChildExit(r) PROVE [Service!Next]_(Service!vars)
  BY <1>4, ChildLeaves DEF ChildExit, Service!Next
<1>5. ASSUME NEW r \in Requests, ChildReply(r) PROVE [Service!Next]_(Service!vars)
  <2>1. /\ child[r] = "alive"
        /\ \A q \in Requests : child'[q] = IF q = r THEN "replied" ELSE child[q]
    BY <1>5 DEF ChildReply, IInv, TypeOK
  <2>2. Live' = Live
    BY <2>1 DEF Live
  <2>3. Spawned' = Spawned
    BY <2>1 DEF Spawned
  <2> QED
    BY <2>2, <2>3 DEF Service!vars
<1>6. ASSUME NEW r \in Requests,
             Arrive(r) \/ Configure(r) \/ Cancel(r) \/ Acquire(r) \/ Expire(r)
                 \/ Start(r) \/ Release(r)
      PROVE  UNCHANGED child
  BY <1>6 DEF Arrive, Configure, Cancel, Acquire, Expire, Start, Release
<1>7. ASSUME UNCHANGED vars PROVE UNCHANGED child
  BY <1>7 DEF vars
<1> QED
  BY <1>1, <1>2, <1>3, <1>4, <1>5, <1>6, <1>7 DEF Next, Server

\* The pool keeps the promise of BoundedService: one process per request, and
\* at most MaxExecutors alive, for every set of requests and every limit.
THEOREM PoolImplementsService == Spec => ImplementsService
<1>1. Init => Service!Init
  BY DEF Init, Service!Init, Live, Spawned
<1>2. IInv /\ [Next]_vars => [Service!Next]_(Service!vars)
  BY StepRefines
<1> QED
  BY <1>1, <1>2, Invariance, PTL DEF Spec, ImplementsService, Service!Spec
=============================================================================
