------------------------ MODULE ManagedRuntimeProofs ------------------------
(***************************************************************************)
(* ManagedRuntime is correct for any number of requests.                   *)
(*                                                                         *)
(* OneContainer is not inductive: that nobody starts a second container    *)
(* needs the request that starts one to own the cell (PlaceOK), the cell   *)
(* to be empty as long as it is owned, and a waiter that takes over to     *)
(* have been waiting there and nowhere else (QueueOK).  ChosenConnection   *)
(* needs to know where each cell's value came from (ValueOK).              *)
(***************************************************************************)
EXTENDS ManagedRuntime, FiniteSetTheorems, SequenceTheorems, TLAPS

\* The places of a request that is initialising a cell.  The closure of
\* Operations fills the runtime's cell first.
Initialising(c) ==
    CASE c = "operations" -> {"runtime", "starting", "started", "building"}
      [] c = "runtime"    -> {"starting", "started"}
      [] c = "s2"         -> {"connecting"}
      [] c = "pool"       -> {"opening"}

\* Who waits for a cell is there, once.
QueueOK ==
    \A c \in Cells :
        /\ \A i \in DOMAIN queue[c] : at[queue[c][i]] = c
        /\ \A i, j \in DOMAIN queue[c] : queue[c][i] = queue[c][j] => i = j

\* A cell has at most one initialiser, and is empty until it is done.
PlaceOK ==
    /\ \A c \in Cells, r \in Requests :
           owner[c] = r => /\ at[r] \in Initialising(c) /\ value[c] = Empty
                           /\ c = "operations" => mode = "tools"
    /\ \A r \in Requests :
           /\ at[r] \in {"starting", "started"} => owner["runtime"] = r
           /\ at[r] = "building" => owner["operations"] = r
           /\ at[r] \in {"runtime", "starting", "started"} /\ mode = "tools"
                  => owner["operations"] = r
           /\ at[r] = "connecting" => owner["s2"] = r
           /\ at[r] = "opening" => owner["pool"] = r
           /\ at[r] = "operations" => mode = "tools"

\* A cell a request has passed holds its value.
PassedOK ==
    \A r \in Requests :
        /\ at[r] \in {"building", "pool", "opening", "executing"} =>
               value["runtime"] # Empty
        /\ at[r] \in {"s2", "connecting", "calling"} => value["operations"] # Empty
        /\ at[r] = "calling" => value["s2"] # Empty
        /\ at[r] = "executing" => value["pool"] # Empty

\* The runtime's connection is the one that was asked for.
Chosen(connection) ==
    CASE intent = "cloud" ->
             connection.endpoint = "cloud" /\ connection.environment = "cloud"
      [] intent = "managed" ->
             \E r \in Requests : connection = Custom(r, "managed_lite")
      [] intent = "endpoint" -> connection = Custom("url", "custom_endpoint")
      [] intent = "environment" ->
             connection = Custom("variables", "custom_endpoint")

\* Every other cell has its value from the runtime's.
ValueOK ==
    /\ value["runtime"] # Empty => Chosen(value["runtime"])
    /\ value["runtime"] = Empty => intent = "managed"
    /\ value["operations"] \in {Empty, value["runtime"]}
    /\ value["s2"] \in {Empty, value["runtime"]}
    /\ value["pool"] \in {Empty, value["runtime"]}

\* A container is up while its endpoint is, or is about to be, the runtime's.
LiteOK ==
    \A r \in Requests :
        lite[r] = "up" <=> at[r] = "started" \/ value["runtime"].endpoint = r

IInv ==
    TypeOK /\ QueueOK /\ PlaceOK /\ PassedOK /\ ValueOK /\ LiteOK

-----------------------------------------------------------------------------
(* Queues. *)

LEMMA RemoveAtElement ==
  ASSUME NEW S, NEW s \in Seq(S), NEW i \in DOMAIN s, NEW j \in 1..(Len(s) - 1)
  PROVE  RemoveAt(s, i)[j] = s[IF j < i THEN j ELSE j + 1]
<1>1. PICK n \in Nat : n = Len(s) /\ i \in 1..n /\ j \in 1..(n - 1)
  OBVIOUS
<1>2. PICK front, back :
        front = SubSeq(s, 1, i - 1) /\ back = SubSeq(s, i + 1, n)
  OBVIOUS
<1>3. /\ front \in Seq(S) /\ Len(front) = i - 1
      /\ \A k \in 1..(i - 1) : front[k] = s[k]
  BY <1>1, <1>2
<1>4. /\ back \in Seq(S) /\ Len(back) = n - i
      /\ \A k \in 1..(n - i) : back[k] = s[i + k]
  BY <1>1, <1>2
<1>5. PICK whole : whole = front \o back /\ whole = RemoveAt(s, i)
  BY <1>1, <1>2 DEF RemoveAt
<1>6. \A k \in 1..(Len(front) + Len(back)) :
        (front \o back)[k] = IF k <= Len(front) THEN front[k] ELSE back[k - Len(front)]
  BY <1>3, <1>4, ConcatProperties, Zenon
<1>7. \A k \in 1..(Len(front) + Len(back)) :
        whole[k] = IF k <= Len(front) THEN front[k] ELSE back[k - Len(front)]
  BY <1>5, <1>6, Zenon
<1>8. PICK m, l : m = Len(front) /\ l = Len(back)
  OBVIOUS
<1>9. /\ m = i - 1 /\ l = n - i
      /\ \A k \in 1..(m + l) : whole[k] = IF k <= m THEN front[k] ELSE back[k - m]
  BY <1>3, <1>4, <1>7, <1>8, Zenon
<1>10. whole[j] = s[IF j < i THEN j ELSE j + 1]
  <2> HIDE DEF RemoveAt
  <2>1. j \in 1..(m + l)
    BY <1>1, <1>9
  <2>2. CASE j < i
    <3>1. j <= m /\ j \in 1..(i - 1)
      BY <1>1, <1>9, <2>2
    <3> QED BY <1>3, <1>9, <2>1, <2>2, <3>1
  <2>3. CASE ~(j < i)
    <3>1. ~(j <= m) /\ j - m \in 1..(n - i) /\ i + (j - m) = j + 1
      BY <1>1, <1>9, <2>3
    <3>2. whole[j] = back[j - m] /\ back[j - m] = s[i + (j - m)]
      BY <1>4, <1>9, <2>1, <3>1
    <3> QED BY <2>3, <3>1, <3>2
  <2> QED BY <2>2, <2>3
<1> QED BY <1>5, <1>10

LEMMA RemoveAtOK ==
  ASSUME NEW S, NEW s \in Seq(S), NEW k \in DOMAIN s
  PROVE  /\ RemoveAt(s, k) \in Seq(S) /\ Len(RemoveAt(s, k)) = Len(s) - 1
         /\ \A j \in 1..(Len(s) - 1) :
                RemoveAt(s, k)[j] = s[IF j < k THEN j ELSE j + 1]
<1>1. RemoveAt(s, k) \in Seq(S) /\ Len(RemoveAt(s, k)) = Len(s) - 1
  BY DEF RemoveAt
<1>2. ASSUME NEW j \in 1..(Len(s) - 1)
      PROVE  RemoveAt(s, k)[j] = s[IF j < k THEN j ELSE j + 1]
  BY RemoveAtElement, Zenon
<1> QED
  BY <1>1, <1>2

LEMMA WithoutOK ==
  ASSUME NEW S, NEW s \in Seq(S), NEW r,
         \A i, j \in DOMAIN s : s[i] = s[j] => i = j
  PROVE  /\ Without(s, r) \in Seq(S)
         /\ \A i \in DOMAIN Without(s, r) :
                /\ Without(s, r)[i] # r
                /\ \E j \in DOMAIN s : Without(s, r)[i] = s[j]
         /\ \A i, j \in DOMAIN Without(s, r) :
                Without(s, r)[i] = Without(s, r)[j] => i = j
<1>1. CASE r \in Range(s)
  <2> DEFINE k == CHOOSE i \in DOMAIN s : s[i] = r
             t == RemoveAt(s, k)
  <2>1. k \in DOMAIN s /\ s[k] = r
    BY <1>1 DEF Range
  <2> HIDE DEF k
  <2>2. /\ t \in Seq(S) /\ Len(t) = Len(s) - 1
        /\ \A j \in 1..(Len(s) - 1) : t[j] = s[IF j < k THEN j ELSE j + 1]
    BY <2>1, RemoveAtOK
  <2>3. Without(s, r) = t
    BY <1>1 DEF Without, k
  <2> HIDE DEF t
  <2>4. \A j \in DOMAIN t :
            /\ (IF j < k THEN j ELSE j + 1) \in DOMAIN s
            /\ (IF j < k THEN j ELSE j + 1) # k
            /\ t[j] = s[IF j < k THEN j ELSE j + 1]
    BY <2>1, <2>2
  <2>5. \A i, j \in DOMAIN t : t[i] = t[j] => i = j
    BY <2>1, <2>2, <2>4
  <2> QED
    BY <2>1, <2>2, <2>3, <2>4, <2>5
<1>2. CASE r \notin Range(s)
  BY <1>2 DEF Without, Range
<1> QED
  BY <1>1, <1>2

LEMMA TailOK ==
  ASSUME NEW S, NEW s \in Seq(S), s # <<>>,
         \A i, j \in DOMAIN s : s[i] = s[j] => i = j
  PROVE  /\ Head(s) \in S /\ 1 \in DOMAIN s /\ Head(s) = s[1]
         /\ Tail(s) \in Seq(S)
         /\ \A i \in DOMAIN Tail(s) :
                /\ Tail(s)[i] # Head(s)
                /\ \E j \in DOMAIN s : Tail(s)[i] = s[j]
         /\ \A i, j \in DOMAIN Tail(s) : Tail(s)[i] = Tail(s)[j] => i = j
<1>1. /\ Len(s) \in Nat \ {0} /\ DOMAIN s = 1..Len(s)
      /\ Tail(s) \in Seq(S) /\ DOMAIN Tail(s) = 1..(Len(s) - 1)
      /\ \A i \in 1..(Len(s) - 1) : Tail(s)[i] = s[i + 1]
  OBVIOUS
<1>2. \A i \in DOMAIN Tail(s) : i + 1 \in DOMAIN s /\ i + 1 # 1
  BY <1>1
<1> QED
  BY <1>1, <1>2

-----------------------------------------------------------------------------
(* Values. *)

\* The names of requests are no other endpoints, and no value is Empty.
LEMMA ValueTypes ==
  /\ Nobody \notin Requests
  /\ \A v \in Connection : v # Empty /\ v.endpoint # "none"
  /\ Empty.endpoint \notin Requests
  /\ \A r \in Requests : Custom(r, "managed_lite") \in Connection
  /\ Custom("url", "custom_endpoint") \in Connection
  /\ Custom("variables", "custom_endpoint") \in Connection
BY RequestsAssumption DEF Nobody, Connection, Endpoints, Empty, Custom

LEMMA LoadCloudType ==
  ASSUME NEW v \in LoadCloud
  PROVE  v \in Connection /\ v.endpoint = "cloud" /\ v.environment = "cloud"
<1>1. PICK c \in Persisted :
          v = [c EXCEPT !.endpoint = "cloud", !.environment = "cloud"]
  BY DEF LoadCloud
<1>2. PICK d \in Connection : c = Transferred(d)
  BY <1>1 DEF Persisted
<1>3. c \in Connection
  BY <1>2 DEF Transferred, Connection
<1> QED
  BY <1>1, <1>3 DEF Connection, Endpoints

LEMMA InitIInv == Init => IInv
<1> SUFFICES ASSUME Init PROVE IInv
  OBVIOUS
<1>1. PICK runtime \in Resolve :
          value = [c \in Cells |-> IF c = "runtime" THEN runtime ELSE Empty]
  BY DEF Init
<1>2. /\ intent \in {"cloud", "managed", "endpoint", "environment"}
      /\ \A r \in Requests : at[r] = "new" /\ lite[r] = "none"
      /\ \A c \in Cells : owner[c] = Nobody /\ queue[c] = <<>>
  BY DEF Init
<1>3. /\ value["runtime"] = runtime
      /\ value["operations"] = Empty /\ value["s2"] = Empty /\ value["pool"] = Empty
  BY <1>1 DEF Cells
<1>4. /\ runtime \in Connection \cup {Empty}
      /\ runtime = Empty <=> intent = "managed"
      /\ runtime # Empty => Chosen(runtime)
      /\ runtime.endpoint \notin Requests
  <2>1. CASE intent = "cloud"
    BY <2>1, LoadCloudType, ValueTypes, RequestsAssumption DEF Resolve, Chosen
  <2>2. CASE intent = "managed"
    BY <2>2, ValueTypes DEF Resolve
  <2>3. CASE intent = "endpoint"
    <3>1. runtime = Custom("url", "custom_endpoint")
      BY <2>3 DEF Resolve
    <3> QED
      BY <2>3, <3>1, ValueTypes, RequestsAssumption DEF Chosen, Custom
  <2>4. CASE intent = "environment"
    <3>1. runtime = Custom("variables", "custom_endpoint")
      BY <2>4 DEF Resolve
    <3> QED
      BY <2>4, <3>1, ValueTypes, RequestsAssumption DEF Chosen, Custom
  <2> QED
    BY <1>2, <2>1, <2>2, <2>3, <2>4
<1>5. TypeOK
  BY <1>1, <1>3, <1>4 DEF Init, TypeOK, Places, InSelect
<1>6. QueueOK
  BY <1>2 DEF QueueOK
<1>7. PlaceOK
  BY <1>2, ValueTypes DEF PlaceOK
<1>8. PassedOK /\ ValueOK /\ LiteOK
  BY <1>2, <1>3, <1>4 DEF PassedOK, ValueOK, LiteOK
<1> QED
  BY <1>5, <1>6, <1>7, <1>8 DEF IInv

-----------------------------------------------------------------------------
(* What a step that leaves the values and the intent alone keeps. *)

LEMMA ValueUnchanged ==
  ASSUME IInv, UNCHANGED <<launch, value>>
  PROVE  ValueOK'
BY DEF IInv, ValueOK, Chosen, Custom, launch

\* A request asks for a cell: it passes, becomes the initialiser or waits.
LEMMA AskStep ==
  ASSUME IInv, NEW r \in Requests, NEW c \in Cells, Ask(r, c)
  PROVE  IInv'
<1>1. /\ at[r] = c /\ ~Waits(r, c)
      /\ UNCHANGED <<launch, cancelled, value, lite>>
      /\ UNCHANGED <<mode, intent>>
  BY DEF Ask, launch
<1>2. TypeOK /\ QueueOK /\ PlaceOK /\ PassedOK /\ LiteOK
  BY DEF IInv
<1>3. /\ c \in {"operations", "runtime", "s2", "pool"}
      /\ \A d \in Cells : owner[d] = r => d = "operations" /\ c = "runtime"
  BY <1>1, <1>2 DEF PlaceOK, Initialising, Cells
<1>4. \A d \in Cells : \A i \in DOMAIN queue[d] : queue[d][i] # r
  BY <1>1, <1>2 DEF QueueOK, Waits, Range
<1>5. CASE /\ value[c] # Empty
           /\ at' = [at EXCEPT ![r] = After(c)]
           /\ UNCHANGED <<owner, queue>>
  <2>1. /\ at'[r] = After(c) /\ \A x \in Requests : x # r => at'[x] = at[x]
        /\ at' \in [Requests -> Places]
    BY <1>2, <1>3, <1>5 DEF TypeOK, After, Places, InSelect
  <2>2. TypeOK'
    BY <1>1, <1>2, <1>5, <2>1 DEF TypeOK
  <2>3. QueueOK'
    BY <1>2, <1>4, <1>5, <2>1 DEF TypeOK, QueueOK
  <2>4. PlaceOK'
    <3>1. ASSUME NEW d \in Cells, NEW x \in Requests, owner[d] = x
          PROVE  /\ at'[x] \in Initialising(d) /\ value[d] = Empty
                 /\ d = "operations" => mode = "tools"
      <4>1. /\ at[x] \in Initialising(d) /\ value[d] = Empty
            /\ d = "operations" => mode = "tools"
        BY <1>2, <3>1 DEF PlaceOK
      <4> QED
        BY <1>3, <2>1, <3>1, <4>1 DEF Initialising, After
    <3>2. ASSUME NEW x \in Requests
          PROVE  /\ at'[x] \in {"starting", "started"} => owner["runtime"] = x
                 /\ at'[x] = "building" => owner["operations"] = x
                 /\ at'[x] \in {"runtime", "starting", "started"} /\ mode = "tools"
                        => owner["operations"] = x
                 /\ at'[x] = "connecting" => owner["s2"] = x
                 /\ at'[x] = "opening" => owner["pool"] = x
                 /\ at'[x] = "operations" => mode = "tools"
      BY <1>1, <1>2, <1>3, <2>1 DEF PlaceOK, After, TypeOK
    <3> QED
      BY <1>1, <1>5, <3>1, <3>2 DEF PlaceOK
  <2>5. PassedOK'
    BY <1>1, <1>2, <1>3, <1>5, <2>1 DEF PassedOK, After
  <2>6. LiteOK'
    BY <1>1, <1>2, <1>3, <1>5, <2>1 DEF LiteOK, After
  <2> QED
    BY <1>1, <2>2, <2>3, <2>4, <2>5, <2>6, ValueUnchanged DEF IInv
<1>6. CASE /\ value[c] = Empty /\ owner[c] = Nobody
           /\ owner' = [owner EXCEPT ![c] = r]
           /\ at' = [at EXCEPT ![r] = Inside(c)]
           /\ UNCHANGED queue
  <2>1. /\ at'[r] = Inside(c) /\ \A x \in Requests : x # r => at'[x] = at[x]
        /\ at' \in [Requests -> Places]
        /\ owner'[c] = r /\ \A d \in Cells : d # c => owner'[d] = owner[d]
        /\ owner' \in [Cells -> Requests \cup {Nobody}]
    BY <1>2, <1>3, <1>6 DEF TypeOK, Inside, Places, InSelect
  <2>2. TypeOK'
    BY <1>1, <1>2, <1>6, <2>1 DEF TypeOK
  <2>3. QueueOK'
    BY <1>2, <1>4, <1>6, <2>1 DEF TypeOK, QueueOK
  <2>4. PlaceOK'
    BY <1>1, <1>2, <1>3, <1>6, <2>1, ValueTypes
       DEF PlaceOK, Initialising, Cells, Inside
  <2>5. PassedOK'
    BY <1>1, <1>2, <1>3, <2>1 DEF PassedOK, Inside
  <2>6. LiteOK'
    BY <1>1, <1>2, <1>3, <2>1 DEF LiteOK, Inside
  <2> QED
    BY <1>1, <2>2, <2>3, <2>4, <2>5, <2>6, ValueUnchanged DEF IInv
<1>7. CASE /\ value[c] = Empty /\ owner[c] # Nobody
           /\ queue' = [queue EXCEPT ![c] = Append(@, r)]
           /\ UNCHANGED <<at, owner>>
  <2>1. queue[c] \in Seq(Requests) /\ Len(queue[c]) \in Nat
    BY <1>2 DEF TypeOK
  <2>2. /\ queue'[c] = Append(queue[c], r) /\ queue'[c] \in Seq(Requests)
        /\ \A d \in Cells : d # c => queue'[d] = queue[d]
        /\ queue' \in [Cells -> Seq(Requests)]
    BY <1>2, <1>7, <2>1 DEF TypeOK
  <2>3. TypeOK'
    BY <1>1, <1>2, <1>7, <2>2 DEF TypeOK
  <2>4. QueueOK'
    <3>1. /\ DOMAIN queue'[c] = 1..(Len(queue[c]) + 1)
          /\ DOMAIN queue[c] = 1..Len(queue[c])
          /\ queue'[c][Len(queue[c]) + 1] = r
          /\ \A i \in DOMAIN queue[c] : queue'[c][i] = queue[c][i]
      BY <2>1, <2>2
    <3>2. \A i \in DOMAIN queue'[c] : at[queue'[c][i]] = c
      BY <1>1, <1>2, <2>1, <3>1 DEF QueueOK
    <3>3. \A i, j \in DOMAIN queue'[c] : queue'[c][i] = queue'[c][j] => i = j
      BY <1>2, <1>4, <2>1, <3>1 DEF QueueOK
    <3> QED
      BY <1>2, <1>7, <2>2, <3>2, <3>3 DEF QueueOK
  <2>5. PlaceOK' /\ PassedOK' /\ LiteOK'
    BY <1>1, <1>2, <1>7 DEF PlaceOK, PassedOK, LiteOK
  <2> QED
    BY <1>1, <2>3, <2>4, <2>5, ValueUnchanged DEF IInv
<1> QED
  BY <1>5, <1>6, <1>7 DEF Ask

\* What Leave does to each request, cell and queue.
LEMMA LeaveFacts ==
  ASSUME TypeOK, QueueOK, PlaceOK, NEW r \in Requests, Leave(r)
  PROVE  /\ at' \in [Requests -> Places]
         /\ owner' \in [Cells -> Requests \cup {Nobody}]
         /\ queue' \in [Cells -> Seq(Requests)]
         /\ at'[r] = "answered"
         /\ \A x \in Requests : x # r =>
                \/ at'[x] = at[x]
                \/ \E c \in Cells : /\ owner[c] = r /\ owner'[c] = x
                                    /\ at[x] = c /\ at'[x] = Inside(c)
         /\ \A c \in Cells :
                \/ owner[c] # r /\ owner'[c] = owner[c]
                \/ owner[c] = r /\ owner'[c] = Nobody
                \/ /\ owner[c] = r /\ owner'[c] \in Requests \ {r}
                   /\ at'[owner'[c]] = Inside(c)
         /\ QueueOK'
<1> DEFINE Next1(c) == Head(queue[c])
<1>1. \A c \in Cells : owner[c] = r => at[r] # c
  BY DEF PlaceOK, Initialising, Cells
<1>2. ASSUME NEW c \in Cells
      PROVE  /\ queue[c] \in Seq(Requests)
             /\ \A i, j \in DOMAIN queue[c] : queue[c][i] = queue[c][j] => i = j
             /\ \A i \in DOMAIN queue[c] :
                    queue[c][i] \in Requests /\ at[queue[c][i]] = c
  BY DEF TypeOK, QueueOK
<1>3. ASSUME NEW c \in Heirs(r)
      PROVE  /\ c \in Cells /\ owner[c] = r
             /\ Next1(c) \in Requests \ {r} /\ at[Next1(c)] = c
  <2>1. c \in Cells /\ owner[c] = r /\ queue[c] # <<>>
    BY <1>3 DEF Heirs, Owns
  <2>2. /\ Head(queue[c]) \in Requests /\ 1 \in DOMAIN queue[c]
        /\ Head(queue[c]) = queue[c][1]
    BY <1>2, <2>1, TailOK
  <2> QED
    BY <1>1, <1>2, <2>1, <2>2
<1>4. /\ \A x \in Requests :
             at'[x] = IF x = r THEN "answered"
                      ELSE IF \E c \in Heirs(r) : Next1(c) = x
                      THEN Inside(CHOOSE c \in Heirs(r) : Next1(c) = x)
                      ELSE at[x]
      /\ DOMAIN at' = Requests
      /\ at' = [x \in Requests |-> at'[x]]
  BY DEF Leave
<1>5. /\ \A c \in Cells :
             /\ owner'[c] = IF owner[c] # r THEN owner[c]
                            ELSE IF c \in Heirs(r) THEN Next1(c) ELSE Nobody
             /\ queue'[c] = IF c \in Heirs(r) THEN Tail(queue[c])
                            ELSE Without(queue[c], r)
      /\ owner' = [c \in Cells |-> owner'[c]]
      /\ queue' = [c \in Cells |-> queue'[c]]
  BY DEF Leave, Owns
<1>6. ASSUME NEW x \in Requests, x # r
      PROVE  \/ at'[x] = at[x] /\ ~\E c \in Heirs(r) : Next1(c) = x
             \/ \E c \in Heirs(r) : /\ Next1(c) = x /\ owner'[c] = x
                                     /\ at[x] = c /\ at'[x] = Inside(c)
  <2>1. CASE ~\E c \in Heirs(r) : Next1(c) = x
    BY <1>4, <1>6, <2>1
  <2>2. CASE \E c \in Heirs(r) : Next1(c) = x
    <3> DEFINE d == CHOOSE c \in Heirs(r) : Next1(c) = x
    <3>1. d \in Heirs(r) /\ Next1(d) = x
      BY <2>2
    <3>2. at'[x] = Inside(d)
      BY <1>4, <1>6, <2>2
    <3> HIDE DEF d
    <3>3. d \in Cells /\ owner[d] = r /\ at[x] = d
      BY <1>3, <3>1
    <3> QED
      BY <1>5, <3>1, <3>2, <3>3
  <2> QED
    BY <2>1, <2>2
<1>7. ASSUME NEW c \in Heirs(r)
      PROVE  owner'[c] = Next1(c) /\ at'[Next1(c)] = Inside(c)
  <2>1. Next1(c) \in Requests /\ Next1(c) # r /\ at[Next1(c)] = c /\ c \in Cells
    BY <1>3, <1>7
  <2>2. PICK d \in Heirs(r) : at[Next1(c)] = d /\ at'[Next1(c)] = Inside(d)
    BY <1>6, <1>7, <2>1
  <2> QED
    BY <1>3, <1>5, <1>7, <2>1, <2>2
<1> HIDE DEF Next1
<1>8. \A c \in Cells : Inside(c) \in Places
  BY DEF Cells, Inside, Places, InSelect
<1>9. at' \in [Requests -> Places]
  <2>1. ASSUME NEW x \in Requests PROVE at'[x] \in Places
    <3>1. CASE x = r
      BY <1>4, <3>1 DEF Places
    <3>2. CASE x # r
      <4>1. at[x] \in Places
        BY DEF TypeOK
      <4>2. at'[x] = at[x] \/ \E c \in Cells : at'[x] = Inside(c)
        BY <1>3, <1>6, <3>2
      <4> QED
        BY <1>8, <4>1, <4>2
    <3> QED
      BY <3>1, <3>2
  <2> QED
    BY <1>4, <2>1
<1>10. owner' \in [Cells -> Requests \cup {Nobody}]
  <2>1. \A c \in Cells : owner'[c] \in Requests \cup {Nobody}
    BY <1>3, <1>5 DEF TypeOK
  <2> QED
    BY <1>5, <2>1
<1>11. ASSUME NEW c \in Cells
       PROVE  /\ queue'[c] \in Seq(Requests)
              /\ \A i, j \in DOMAIN queue'[c] : queue'[c][i] = queue'[c][j] => i = j
              /\ \A i \in DOMAIN queue'[c] : at'[queue'[c][i]] = c
  <2>1. /\ queue'[c] \in Seq(Requests)
        /\ \A i, j \in DOMAIN queue'[c] : queue'[c][i] = queue'[c][j] => i = j
        /\ \A i \in DOMAIN queue'[c] :
               /\ \E j \in DOMAIN queue[c] : queue'[c][i] = queue[c][j]
               /\ c \in Heirs(r) => queue'[c][i] # Next1(c)
               /\ c \notin Heirs(r) => queue'[c][i] # r
    <3>1. CASE c \in Heirs(r)
      <4>1. queue'[c] = Tail(queue[c]) /\ queue[c] # <<>>
        BY <1>5, <3>1 DEF Heirs
      <4> QED
        BY <1>2, <3>1, <4>1, TailOK DEF Next1
    <3>2. CASE c \notin Heirs(r)
      <4>1. queue'[c] = Without(queue[c], r)
        BY <1>5, <3>2
      <4> QED
        BY <1>2, <3>2, <4>1, WithoutOK
    <3> QED
      BY <3>1, <3>2
  <2>2. ASSUME NEW i \in DOMAIN queue'[c] PROVE at'[queue'[c][i]] = c
    <3>1. PICK j \in DOMAIN queue[c] : queue'[c][i] = queue[c][j]
      BY <2>1, <2>2
    <3>2. queue[c][j] \in Requests /\ at[queue[c][j]] = c
      BY <1>2
    <3>3. queue[c][j] # r
      BY <1>1, <1>3, <2>1, <2>2, <3>1, <3>2
    <3>4. ASSUME NEW d \in Heirs(r), Next1(d) = queue[c][j] PROVE FALSE
      BY <1>3, <2>1, <2>2, <3>1, <3>2, <3>4
    <3> QED
      BY <1>6, <3>1, <3>2, <3>3, <3>4
  <2> QED
    BY <2>1, <2>2
<1>12. queue' \in [Cells -> Seq(Requests)] /\ QueueOK'
  BY <1>5, <1>11 DEF QueueOK
<1>13. ASSUME NEW c \in Cells
       PROVE  \/ owner[c] # r /\ owner'[c] = owner[c]
              \/ owner[c] = r /\ owner'[c] = Nobody
              \/ /\ owner[c] = r /\ owner'[c] \in Requests \ {r}
                 /\ at'[owner'[c]] = Inside(c)
  BY <1>3, <1>5, <1>7
<1>14. ASSUME NEW x \in Requests, x # r
       PROVE  \/ at'[x] = at[x]
              \/ \E c \in Cells : /\ owner[c] = r /\ owner'[c] = x
                                  /\ at[x] = c /\ at'[x] = Inside(c)
  BY <1>3, <1>6, <1>14
<1> QED
  BY <1>4, <1>9, <1>10, <1>12, <1>13, <1>14

\* A request is answered, taking its container along if it has not come to be
\* the runtime's.
LEMMA LeaveStep ==
  ASSUME IInv, NEW r \in Requests, Fail(r),
         \/ at[r] # "started" /\ UNCHANGED lite
         \/ at[r] = "started" /\ lite' = [lite EXCEPT ![r] = "removed"]
  PROVE  IInv'
<1>1. TypeOK /\ QueueOK /\ PlaceOK /\ PassedOK /\ ValueOK /\ LiteOK
  BY DEF IInv
<1>2. /\ Leave(r) /\ UNCHANGED <<launch, cancelled, value>>
      /\ UNCHANGED <<mode, intent>>
  BY DEF Fail, launch
<1>3. /\ at' \in [Requests -> Places]
      /\ owner' \in [Cells -> Requests \cup {Nobody}]
      /\ queue' \in [Cells -> Seq(Requests)]
      /\ at'[r] = "answered"
      /\ \A x \in Requests : x # r =>
             \/ at'[x] = at[x]
             \/ \E c \in Cells : /\ owner[c] = r /\ owner'[c] = x
                                 /\ at[x] = c /\ at'[x] = Inside(c)
      /\ \A c \in Cells :
             \/ owner[c] # r /\ owner'[c] = owner[c]
             \/ owner[c] = r /\ owner'[c] = Nobody
             \/ /\ owner[c] = r /\ owner'[c] \in Requests \ {r}
                /\ at'[owner'[c]] = Inside(c)
      /\ QueueOK'
  BY <1>1, <1>2, LeaveFacts
<1>4. TypeOK'
  <2>1. lite' \in [Requests -> {"none", "up", "removed"}]
    BY <1>1 DEF TypeOK
  <2> QED
    BY <1>1, <1>2, <1>3, <2>1 DEF TypeOK
<1>5. PlaceOK'
  <2>1. ASSUME NEW c \in Cells, NEW x \in Requests, owner'[c] = x
        PROVE  /\ at'[x] \in Initialising(c) /\ value[c] = Empty
               /\ c = "operations" => mode = "tools"
    <3>1. CASE owner[c] # r
      <4>1. /\ owner[c] = x /\ at[x] \in Initialising(c) /\ value[c] = Empty
            /\ c = "operations" => mode = "tools"
        BY <1>1, <1>3, <2>1, <3>1 DEF PlaceOK
      <4>2. CASE at'[x] = at[x]
        BY <4>1, <4>2
      <4>3. CASE at'[x] # at[x]
        <5>1. PICK d \in Cells : at[x] = d /\ at'[x] = Inside(d)
          BY <1>3, <3>1, <4>1, <4>3
        <5>2. c = "operations" /\ d = "runtime"
          BY <4>1, <5>1 DEF Initialising, Cells
        <5> QED
          BY <4>1, <5>1, <5>2 DEF Initialising, Inside
      <4> QED
        BY <4>2, <4>3
    <3>2. CASE owner[c] = r
      <4>1. /\ at'[x] = Inside(c) /\ value[c] = Empty
            /\ c = "operations" => mode = "tools"
        BY <1>1, <1>3, <2>1, <3>2, ValueTypes DEF PlaceOK
      <4> QED
        BY <4>1 DEF Inside, Initialising, Cells
    <3> QED
      BY <3>1, <3>2
  <2>2. ASSUME NEW x \in Requests
        PROVE  /\ at'[x] \in {"starting", "started"} => owner'["runtime"] = x
               /\ at'[x] = "building" => owner'["operations"] = x
               /\ at'[x] \in {"runtime", "starting", "started"} /\ mode = "tools"
                      => owner'["operations"] = x
               /\ at'[x] = "connecting" => owner'["s2"] = x
               /\ at'[x] = "opening" => owner'["pool"] = x
               /\ at'[x] = "operations" => mode = "tools"
    <3>1. CASE x = r
      BY <1>3, <3>1
    <3>2. CASE x # r /\ at'[x] = at[x]
      BY <1>1, <1>3, <3>2 DEF PlaceOK, Cells
    <3>3. CASE x # r /\ at'[x] # at[x]
      <4>1. PICK c \in Cells : /\ owner[c] = r /\ owner'[c] = x
                                /\ at[x] = c /\ at'[x] = Inside(c)
        BY <1>3, <3>3
      <4> QED
        BY <1>1, <1>3, <3>3, <4>1 DEF PlaceOK, Cells, Inside
    <3> QED
      BY <3>1, <3>2, <3>3
  <2> QED
    BY <1>2, <2>1, <2>2 DEF PlaceOK
<1>6. PassedOK'
  <2> SUFFICES ASSUME NEW x \in Requests
               PROVE  /\ at'[x] \in {"building", "pool", "opening", "executing"} =>
                             value["runtime"] # Empty
                      /\ at'[x] \in {"s2", "connecting", "calling"} =>
                             value["operations"] # Empty
                      /\ at'[x] = "calling" => value["s2"] # Empty
                      /\ at'[x] = "executing" => value["pool"] # Empty
    BY <1>2 DEF PassedOK
  <2>1. \/ at'[x] = at[x] \/ x = r
        \/ \E c \in Cells : at[x] = c /\ at'[x] = Inside(c)
    BY <1>3
  <2> QED
    BY <1>1, <1>3, <2>1 DEF PassedOK, Inside, Cells
<1>7. LiteOK'
  <2>1. ASSUME NEW x \in Requests, x # r
        PROVE  lite'[x] = lite[x] /\ (at'[x] = "started" <=> at[x] = "started")
    <3>1. lite'[x] = lite[x]
      BY <1>1, <2>1 DEF TypeOK
    <3> QED
      BY <1>3, <2>1, <3>1 DEF Cells, Inside
  <2>2. lite'[r] = "up" <=> value["runtime"].endpoint = r
    <3>1. CASE at[r] = "started"
      <4>1. owner["runtime"] = r
        BY <1>1, <3>1 DEF PlaceOK
      <4>2. value["runtime"] = Empty
        BY <1>1, <4>1 DEF PlaceOK, Cells
      <4> QED
        BY <1>1, <3>1, <4>2, ValueTypes DEF TypeOK
    <3>2. CASE at[r] # "started"
      BY <1>1, <3>2 DEF LiteOK
    <3> QED
      BY <3>1, <3>2
  <2> QED
    BY <1>1, <1>2, <1>3, <2>1, <2>2 DEF LiteOK
<1> QED
  BY <1>2, <1>3, <1>4, <1>5, <1>6, <1>7, ValueUnchanged DEF IInv

\* The value an initialiser may fill its cell with.
Fits(r, c, v) ==
    CASE c = "runtime"    -> at[r] = "started" /\ v = Custom(r, "managed_lite")
      [] c = "operations" -> /\ at[r] = "building" /\ v = value["runtime"]
                             /\ v.key # "invalid"
      [] c = "s2"         -> /\ at[r] = "connecting" /\ v = value["operations"]
                             /\ v.token
      [] c = "pool"       -> at[r] = "opening" /\ v = value["runtime"]

\* An initialiser is done: only the runtime's gains an endpoint, and that is
\* the one of its own container.
LEMMA FillStep ==
  ASSUME IInv, NEW r \in Requests, NEW c \in Cells, NEW v, Fits(r, c, v),
         Fill(r, c, v), UNCHANGED <<launch, cancelled, lite>>
  PROVE  IInv'
<1>1. TypeOK /\ QueueOK /\ PlaceOK /\ PassedOK /\ ValueOK /\ LiteOK
  BY DEF IInv
<1>2. UNCHANGED <<mode, intent, cancelled, lite>>
  BY DEF launch
<1>3. c \in {"operations", "runtime", "s2", "pool"}
  BY DEF Cells
<1>4. owner[c] = r /\ value[c] = Empty
  BY <1>1, <1>3 DEF PlaceOK, Fits, Cells
<1>5. v \in Connection /\ v # Empty
  <2>1. \A d \in Cells : value[d] \in Connection \cup {Empty}
    BY <1>1 DEF TypeOK
  <2> QED
    BY <1>1, <1>3, <2>1, ValueTypes DEF Fits, PassedOK, Cells
<1>6. /\ value' = [value EXCEPT ![c] = v]
      /\ owner' = [owner EXCEPT ![c] = Nobody]
      /\ queue' = [queue EXCEPT ![c] = <<>>]
      /\ at' = [at EXCEPT ![r] = After(c)]
  BY DEF Fill
<1>7. /\ value'[c] = v /\ \A d \in Cells : d # c => value'[d] = value[d]
      /\ owner'[c] = Nobody /\ \A d \in Cells : d # c => owner'[d] = owner[d]
      /\ queue'[c] = <<>> /\ \A d \in Cells : d # c => queue'[d] = queue[d]
      /\ at'[r] = After(c) /\ \A x \in Requests : x # r => at'[x] = at[x]
  BY <1>1, <1>6 DEF TypeOK
<1>8. \A d \in Cells : d # c /\ owner[d] = r => d = "operations" /\ c = "runtime"
  BY <1>1, <1>3 DEF PlaceOK, Initialising, Cells, Fits
<1>9. \A d \in Cells : \A i \in DOMAIN queue[d] : queue[d][i] # r
  <2>1. at[r] \notin Cells
    BY <1>3 DEF Cells, Fits
  <2> QED
    BY <1>1, <2>1 DEF QueueOK
<1>10. TypeOK'
  <2>1. /\ at' \in [Requests -> Places]
        /\ owner' \in [Cells -> Requests \cup {Nobody}]
        /\ queue' \in [Cells -> Seq(Requests)]
        /\ value' \in [Cells -> Connection \cup {Empty}]
    <3>1. After(c) \in Places /\ <<>> \in Seq(Requests)
      BY <1>3 DEF After, Places, InSelect
    <3> QED
      BY <1>1, <1>5, <1>6, <3>1 DEF TypeOK
  <2>2. /\ value'["operations"] # Empty => value'["operations"].key # "invalid"
        /\ value'["s2"] # Empty => value'["s2"].token
    BY <1>1, <1>3, <1>7 DEF TypeOK, Cells, Fits
  <2> QED
    BY <1>1, <1>2, <2>1, <2>2 DEF TypeOK
<1>11. QueueOK'
  <2> SUFFICES ASSUME NEW d \in Cells
               PROVE  /\ \A i \in DOMAIN queue'[d] : at'[queue'[d][i]] = d
                      /\ \A i, j \in DOMAIN queue'[d] :
                             queue'[d][i] = queue'[d][j] => i = j
    BY DEF QueueOK
  <2>1. CASE d = c
    BY <1>7, <2>1
  <2>2. CASE d # c
    <3>1. \A i \in DOMAIN queue[d] : queue[d][i] \in Requests
      BY <1>1 DEF TypeOK
    <3> QED
      BY <1>1, <1>7, <1>9, <2>2, <3>1 DEF QueueOK
  <2> QED
    BY <2>1, <2>2
<1>12. PlaceOK'
  <2>1. ASSUME NEW d \in Cells, NEW x \in Requests, owner'[d] = x
        PROVE  /\ at'[x] \in Initialising(d) /\ value'[d] = Empty
               /\ d = "operations" => mode = "tools"
    <3>1. d # c /\ owner[d] = x
      BY <1>7, <2>1, ValueTypes
    <3>2. /\ at[x] \in Initialising(d) /\ value'[d] = Empty
          /\ d = "operations" => mode = "tools"
      BY <1>1, <1>7, <3>1 DEF PlaceOK
    <3> QED
      BY <1>7, <1>8, <3>1, <3>2 DEF Initialising, After
  <2>2. ASSUME NEW x \in Requests
        PROVE  /\ at'[x] \in {"starting", "started"} => owner'["runtime"] = x
               /\ at'[x] = "building" => owner'["operations"] = x
               /\ at'[x] \in {"runtime", "starting", "started"} /\ mode = "tools"
                      => owner'["operations"] = x
               /\ at'[x] = "connecting" => owner'["s2"] = x
               /\ at'[x] = "opening" => owner'["pool"] = x
               /\ at'[x] = "operations" => mode = "tools"
    <3>1. CASE x = r
      BY <1>1, <1>2, <1>3, <1>7, <3>1 DEF PlaceOK, After, Fits, Cells, TypeOK
    <3>2. CASE x # r
      BY <1>1, <1>3, <1>4, <1>7, <3>2 DEF PlaceOK, Cells
    <3> QED
      BY <3>1, <3>2
  <2> QED
    BY <1>2, <2>1, <2>2 DEF PlaceOK
<1>13. PassedOK'
  <2> SUFFICES ASSUME NEW x \in Requests
               PROVE  /\ at'[x] \in {"building", "pool", "opening", "executing"} =>
                             value'["runtime"] # Empty
                      /\ at'[x] \in {"s2", "connecting", "calling"} =>
                             value'["operations"] # Empty
                      /\ at'[x] = "calling" => value'["s2"] # Empty
                      /\ at'[x] = "executing" => value'["pool"] # Empty
    BY DEF PassedOK
  <2>1. \A d \in Cells : value[d] # Empty => value'[d] # Empty
    BY <1>5, <1>7
  <2>2. CASE x = r
    BY <1>1, <1>3, <1>5, <1>7, <2>1, <2>2 DEF PassedOK, After, Fits, Cells
  <2>3. CASE x # r
    BY <1>1, <1>7, <2>1, <2>3 DEF PassedOK, Cells
  <2> QED
    BY <2>2, <2>3
<1>14. ValueOK'
  <2>1. CASE c = "runtime"
    <3>1. v = Custom(r, "managed_lite") /\ intent = "managed"
      BY <1>1, <1>4, <2>1 DEF Fits, ValueOK
    <3>2. Chosen(v)' /\ value'["runtime"] = v
      BY <1>2, <1>7, <2>1, <3>1 DEF Chosen, Custom
    <3>3. value["operations"] = Empty /\ value["s2"] = Empty /\ value["pool"] = Empty
      BY <1>1, <1>4, <2>1 DEF ValueOK
    <3> QED
      BY <1>2, <1>5, <1>7, <2>1, <3>2, <3>3 DEF ValueOK, Cells, Chosen
  <2>2. CASE c # "runtime"
    <3>1. v = value["runtime"]
      BY <1>1, <1>3, <1>5, <2>2 DEF Fits, ValueOK, PassedOK
    <3>2. value'["runtime"] = value["runtime"]
      BY <1>7, <2>2 DEF Cells
    <3>3. Chosen(value["runtime"])' <=> Chosen(value["runtime"])
      BY <1>2, <3>2 DEF Chosen, Custom
    <3> QED
      BY <1>1, <1>2, <1>3, <1>7, <2>2, <3>1, <3>2, <3>3 DEF ValueOK, Cells
  <2> QED
    BY <2>1, <2>2
<1>15. LiteOK'
  <2> SUFFICES ASSUME NEW x \in Requests
               PROVE  lite[x] = "up" <=>
                          at'[x] = "started" \/ value'["runtime"].endpoint = x
    BY <1>2 DEF LiteOK
  <2>1. at'[r] # "started"
    BY <1>3, <1>7 DEF After
  <2>2. CASE c = "runtime"
    <3>1. /\ value'["runtime"].endpoint = r /\ at[r] = "started"
          /\ value["runtime"] = Empty /\ owner["runtime"] = r
      BY <1>4, <1>7, <2>2 DEF Fits, Custom
    <3> QED
      BY <1>1, <1>7, <2>1, <3>1, ValueTypes DEF LiteOK, PlaceOK
  <2>3. CASE c # "runtime"
    <3>1. value'["runtime"] = value["runtime"] /\ at[r] # "started"
      BY <1>3, <1>7, <2>3 DEF Fits, Cells
    <3> QED
      BY <1>1, <1>7, <2>1, <3>1 DEF LiteOK
  <2> QED
    BY <2>2, <2>3
<1> QED
  BY <1>10, <1>11, <1>12, <1>13, <1>14, <1>15 DEF IInv

-----------------------------------------------------------------------------
(* The invariant. *)

\* Before and around the cells: a request arrives or is cancelled.
LEMMA OutsideStep ==
  ASSUME IInv, NEW r \in Requests, Arrive(r) \/ Cancel(r)
  PROVE  IInv'
<1>1. TypeOK /\ QueueOK /\ PlaceOK /\ PassedOK /\ LiteOK
  BY DEF IInv
<1>2. UNCHANGED <<mode, intent, launch, value, owner, queue, lite>>
  BY DEF Arrive, Cancel, cells, launch
<1>3. CASE Arrive(r)
  <2>1. PICK place \in {"answered", IF mode = "code" THEN "runtime" ELSE "operations"} :
            at' = [at EXCEPT ![r] = place]
    BY <1>3 DEF Arrive
  <2>2. at[r] = "new" /\ UNCHANGED cancelled
    BY <1>3 DEF Arrive
  <2>3. /\ at'[r] = place /\ \A x \in Requests : x # r => at'[x] = at[x]
        /\ at' \in [Requests -> Places]
    BY <1>1, <2>1 DEF TypeOK, Places
  <2>4. \A c \in Cells : owner[c] # r
    BY <1>1, <2>2 DEF PlaceOK, Initialising, Cells
  <2>5. \A c \in Cells : \A i \in DOMAIN queue[c] :
            queue[c][i] # r /\ queue[c][i] \in Requests
    BY <1>1, <2>2 DEF TypeOK, QueueOK, Cells
  <2>6. TypeOK'
    BY <1>1, <1>2, <2>2, <2>3 DEF TypeOK
  <2>7. QueueOK'
    BY <1>1, <1>2, <2>3, <2>5 DEF QueueOK
  <2>8. PlaceOK'
    <3>1. mode \in {"code", "tools"}
      BY <1>1 DEF TypeOK
    <3> QED
      BY <1>1, <1>2, <2>1, <2>2, <2>3, <2>4, <3>1 DEF PlaceOK
  <2>9. PassedOK' /\ LiteOK'
    BY <1>1, <1>2, <2>1, <2>2, <2>3 DEF PassedOK, LiteOK
  <2> QED
    BY <1>2, <2>6, <2>7, <2>8, <2>9, ValueUnchanged DEF IInv
<1>4. CASE Cancel(r)
  <2>1. at' = at /\ cancelled' = cancelled \cup {r}
    BY <1>4 DEF Cancel
  <2>2. TypeOK'
    BY <1>1, <1>2, <2>1 DEF TypeOK
  <2>3. QueueOK' /\ PlaceOK' /\ PassedOK' /\ LiteOK'
    BY <1>1, <1>2, <2>1 DEF QueueOK, PlaceOK, PassedOK, LiteOK
  <2> QED
    BY <1>2, <2>2, <2>3, ValueUnchanged DEF IInv
<1> QED
  BY <1>3, <1>4

\* S2Lite::start creates the container of the request that owns the cell.
LEMMA StartStep ==
  ASSUME IInv, NEW r \in Requests, StartLite(r)
  PROVE  IInv'
<1>1. TypeOK /\ QueueOK /\ PlaceOK /\ PassedOK /\ LiteOK
  BY DEF IInv
<1>2. CASE /\ lite' = [lite EXCEPT ![r] = "up"]
           /\ at' = [at EXCEPT ![r] = "started"]
           /\ UNCHANGED <<launch, cancelled, cells>>
  <2>1. UNCHANGED <<mode, intent, cancelled, value, owner, queue>> /\ at[r] = "starting"
    BY <1>2 DEF cells, launch, StartLite
  <2>2. /\ at'[r] = "started" /\ \A x \in Requests : x # r => at'[x] = at[x]
        /\ lite'[r] = "up" /\ \A x \in Requests : x # r => lite'[x] = lite[x]
        /\ at' \in [Requests -> Places]
        /\ lite' \in [Requests -> {"none", "up", "removed"}]
    BY <1>1, <1>2 DEF TypeOK, Places
  <2>3. TypeOK'
    BY <1>1, <2>1, <2>2 DEF TypeOK
  <2>4. QueueOK'
    <3>1. \A c \in Cells : \A i \in DOMAIN queue[c] :
              queue[c][i] # r /\ queue[c][i] \in Requests
      BY <1>1, <2>1 DEF TypeOK, QueueOK, Cells
    <3> QED
      BY <1>1, <2>1, <2>2, <3>1 DEF QueueOK
  <2>5. PlaceOK'
    <3>1. ASSUME NEW c \in Cells, NEW x \in Requests, owner[c] = x
          PROVE  /\ at'[x] \in Initialising(c) /\ value[c] = Empty
                 /\ c = "operations" => mode = "tools"
      <4>1. /\ at[x] \in Initialising(c) /\ value[c] = Empty
            /\ c = "operations" => mode = "tools"
        BY <1>1, <3>1 DEF PlaceOK
      <4> QED
        BY <2>1, <2>2, <4>1 DEF Initialising, Cells
    <3> QED
      BY <1>1, <2>1, <2>2, <3>1 DEF PlaceOK
  <2>6. PassedOK' /\ LiteOK'
    BY <1>1, <2>1, <2>2 DEF PassedOK, LiteOK
  <2> QED
    BY <1>2, <2>1, <2>3, <2>4, <2>5, <2>6, ValueUnchanged DEF IInv
<1>3. CASE Fail(r) /\ UNCHANGED lite
  <2>1. at[r] # "started"
    BY DEF StartLite
  <2> QED
    BY <1>3, <2>1, LeaveStep
<1> QED
  BY <1>2, <1>3 DEF StartLite

\* The other steps of a request end the initialisation of a cell, or the
\* request.
LEMMA ServeStep ==
  ASSUME IInv, NEW r \in Requests,
         \/ Manage(r) \/ Build(r) \/ Local(r) \/ Connect(r) \/ Open(r)
         \/ DropCall(r) \/ Answer(r)
  PROVE  IInv'
<1>1. \/ \E c \in Cells, v \in {Custom(r, "managed_lite"), value["runtime"],
                                value["operations"]} :
             Fits(r, c, v) /\ Fill(r, c, v) /\ UNCHANGED <<launch, cancelled, lite>>
      \/ /\ Fail(r)
         /\ \/ at[r] # "started" /\ UNCHANGED lite
            \/ at[r] = "started" /\ lite' = [lite EXCEPT ![r] = "removed"]
  <2>1. CASE Manage(r)
    <3>1. Fits(r, "runtime", Custom(r, "managed_lite"))
      BY <2>1 DEF Manage, Fits
    <3> QED
      BY <2>1, <3>1 DEF Manage, Cells
  <2>2. CASE Build(r)
    <3>1. CASE value["runtime"].key = "invalid"
      BY <2>2, <3>1 DEF Build
    <3>2. CASE value["runtime"].key # "invalid"
      <4>1. Fits(r, "operations", value["runtime"])
        BY <2>2, <3>2 DEF Build, Fits
      <4> QED
        BY <2>2, <3>2, <4>1 DEF Build, Cells
    <3> QED
      BY <3>1, <3>2
  <2>3. CASE Local(r)
    BY <2>3 DEF Local
  <2>4. CASE Connect(r)
    <3>1. value["operations"].token => Fits(r, "s2", value["operations"])
      BY <2>4 DEF Connect, Fits
    <3> QED
      BY <2>4, <3>1 DEF Connect, Cells
  <2>5. CASE Open(r)
    <3>1. Fits(r, "pool", value["runtime"])
      BY <2>5 DEF Open, Fits
    <3> QED
      BY <2>5, <3>1 DEF Open, Cells
  <2>6. CASE DropCall(r)
    BY <2>6 DEF DropCall, InSelect
  <2>7. CASE Answer(r)
    BY <2>7 DEF Answer
  <2> QED
    BY <2>1, <2>2, <2>3, <2>4, <2>5, <2>6, <2>7
<1> QED
  BY <1>1, FillStep, LeaveStep

LEMMA NextIInv == IInv /\ [Next]_vars => IInv'
<1> SUFFICES ASSUME IInv, [Next]_vars PROVE IInv'
  OBVIOUS
<1>1. ASSUME NEW r \in Requests, Arrive(r) \/ Cancel(r) PROVE IInv'
  BY <1>1, OutsideStep
<1>2. ASSUME NEW r \in Requests, NEW c \in Cells, Ask(r, c) PROVE IInv'
  BY <1>2, AskStep
<1>3. ASSUME NEW r \in Requests, StartLite(r) PROVE IInv'
  BY <1>3, StartStep
<1>4. ASSUME NEW r \in Requests,
             \/ Manage(r) \/ Build(r) \/ Local(r) \/ Connect(r) \/ Open(r)
             \/ DropCall(r) \/ Answer(r)
      PROVE  IInv'
  BY <1>4, ServeStep
<1>5. CASE UNCHANGED vars
  <2>1. UNCHANGED <<mode, intent, launch, at, cancelled, value, owner, queue, lite>>
    BY <1>5 DEF vars, launch, cells
  <2>2. TypeOK'
    BY <2>1 DEF IInv, TypeOK
  <2>3. QueueOK' /\ PlaceOK' /\ PassedOK' /\ LiteOK'
    BY <2>1 DEF IInv, QueueOK, PlaceOK, PassedOK, LiteOK
  <2> QED
    BY <2>1, <2>2, <2>3, ValueUnchanged DEF IInv
<1> QED
  BY <1>1, <1>2, <1>3, <1>4, <1>5 DEF Next, Server

\* IInv is an invariant of the runtime.
THEOREM RuntimeInvariant == Spec => []IInv
BY InitIInv, NextIInv, PTL DEF Spec

-----------------------------------------------------------------------------
(* What it says. *)

\* The live container is the one that is starting or the runtime's.
LEMMA LiveOne == IInv => OneContainer
<1> SUFFICES ASSUME IInv PROVE OneContainer
  OBVIOUS
<1>1. TypeOK /\ PlaceOK /\ ValueOK /\ LiteOK
  BY DEF IInv
<1>2. \A r, s \in Live : r = s
  <2> SUFFICES ASSUME NEW r \in Live, NEW s \in Live PROVE r = s
    OBVIOUS
  <2>1. /\ r \in Requests /\ s \in Requests
        /\ at[r] = "started" \/ value["runtime"].endpoint = r
        /\ at[s] = "started" \/ value["runtime"].endpoint = s
    BY <1>1 DEF Live, LiteOK
  <2>2. \A x \in Requests : at[x] = "started" =>
            owner["runtime"] = x /\ value["runtime"] = Empty
    BY <1>1 DEF PlaceOK, Cells
  <2> QED
    BY <2>1, <2>2, ValueTypes
<1>3. Cardinality(Live) <= 1
  <2>1. CASE Live = {}
    BY <2>1, FS_EmptySet
  <2>2. CASE Live # {}
    <3>1. PICK r \in Live : TRUE
      BY <2>2
    <3>2. Live = {r}
      BY <1>2, <3>1
    <3>3. Cardinality({r}) = 1
      BY FS_Singleton, Zenon
    <3>4. Cardinality(Live) = 1
      BY <3>2, <3>3, Zenon
    <3> QED
      BY <3>4
  <2> QED
    BY <2>1, <2>2
<1>4. ASSUME intent = "managed", value["runtime"] # Empty
      PROVE  Live = {value["runtime"].endpoint}
  <2>1. PICK r \in Requests : value["runtime"] = Custom(r, "managed_lite")
    BY <1>1, <1>4 DEF ValueOK, Chosen
  <2>2. value["runtime"].endpoint = r
    BY <2>1 DEF Custom
  <2>3. r \in Live
    BY <1>1, <2>2 DEF LiteOK, Live
  <2> QED
    BY <1>2, <2>2, <2>3
<1> QED
  BY <1>3, <1>4 DEF OneContainer

\* A request at work uses the runtime's connection, transferred or not.
LEMMA UsedIsChosen == IInv => ChosenConnection
<1> SUFFICES ASSUME IInv, NEW r \in Requests, at[r] \in {"calling", "executing"}
             PROVE  /\ at[r] = "calling" => Used(r).token /\ Used(r).key # "invalid"
                    /\ CASE intent = "cloud" ->
                                /\ Used(r).endpoint = "cloud"
                                /\ Used(r).environment = "cloud"
                         [] intent = "managed" ->
                                /\ Used(r).endpoint \in Live
                                /\ Used(r).environment = "managed_lite"
                         [] intent = "endpoint" ->
                                Used(r) = Custom("url", "custom_endpoint")
                         [] OTHER -> Used(r) = Custom("variables", "custom_endpoint")
  BY DEF ChosenConnection
<1> DEFINE connection == value["runtime"]
<1>1. TypeOK /\ PassedOK /\ ValueOK /\ LiteOK
  BY DEF IInv
<1>2. /\ connection # Empty /\ Chosen(connection) /\ connection \in Connection
      /\ Used(r) \in {connection, Transferred(connection)}
      /\ at[r] = "calling" => /\ Used(r) = connection
                              /\ Used(r).token /\ Used(r).key # "invalid"
  <2>1. connection \in Connection \cup {Empty}
    BY <1>1 DEF TypeOK, Cells
  <2>2. CASE at[r] = "calling"
    <3>1. /\ value["s2"] # Empty /\ value["s2"] = connection
          /\ value["operations"] # Empty /\ value["operations"] = connection
      BY <1>1, <2>2 DEF PassedOK, ValueOK
    <3> QED
      BY <1>1, <2>1, <2>2, <3>1 DEF Used, TypeOK, ValueOK
  <2>3. CASE at[r] = "executing"
    <3>1. value["pool"] # Empty /\ value["pool"] = connection
      BY <1>1, <2>3 DEF PassedOK, ValueOK
    <3> QED
      BY <1>1, <2>1, <2>3, <3>1 DEF Used, ValueOK
  <2> QED
    BY <2>2, <2>3
<1> HIDE DEF connection
<1>3. CASE intent = "cloud"
  <2>1. connection.endpoint = "cloud" /\ connection.environment = "cloud"
    BY <1>2, <1>3 DEF Chosen
  <2>2. Transferred(connection).endpoint = "cloud"
        /\ Transferred(connection).environment = "cloud"
    BY <1>2, <2>1 DEF Transferred, Connection
  <2> QED
    BY <1>2, <1>3, <2>1, <2>2
<1>4. CASE intent = "managed"
  <2>1. PICK s \in Requests : connection = Custom(s, "managed_lite")
    BY <1>2, <1>4 DEF Chosen
  <2>2. /\ connection.endpoint = s /\ connection.environment = "managed_lite"
        /\ s # "cloud"
    BY <2>1, RequestsAssumption DEF Custom
  <2>3. /\ Transferred(connection).endpoint = s
        /\ Transferred(connection).environment = "managed_lite"
    BY <1>2, <2>2 DEF Transferred, Connection
  <2>4. s \in Live
    BY <1>1, <2>2 DEF LiteOK, Live, connection
  <2> QED
    BY <1>2, <1>4, <2>2, <2>3, <2>4
<1>5. ASSUME NEW url \in {"url", "variables"}
      PROVE  Transferred(Custom(url, "custom_endpoint")) = Custom(url, "custom_endpoint")
  <2> DEFINE c == Custom(url, "custom_endpoint")
  <2>1. c \in Connection
    BY ValueTypes
  <2>2. c.endpoint # "cloud" /\ c.environment = "custom_endpoint"
    BY DEF Custom
  <2> HIDE DEF c
  <2>3. Transferred(c) = [c EXCEPT !.environment = "custom_endpoint"]
    BY <2>2 DEF Transferred
  <2>4. [c EXCEPT !.environment = "custom_endpoint"] = c
    BY <2>1, <2>2 DEF Connection
  <2> QED
    BY <2>3, <2>4 DEF c
<1>6. CASE intent \in {"endpoint", "environment"}
  BY <1>2, <1>5, <1>6 DEF Chosen
<1> QED
  BY <1>1, <1>2, <1>3, <1>4, <1>6 DEF TypeOK

\* Every variable keeps its type; in particular no S2 client is built without
\* an access token, and no Operations with a key that does not parse.
THEOREM RuntimeTypeCorrect == Spec => []TypeOK
<1>1. IInv => TypeOK
  BY DEF IInv
<1> QED
  BY <1>1, RuntimeInvariant, PTL

\* However many requests race, fail and are cancelled, one container runs at
\* most, and the runtime's is not removed.
THEOREM ContainerIsUnique == Spec => []OneContainer
BY LiveOne, RuntimeInvariant, PTL

\* However a request came by its connection, it works at the endpoint that was
\* chosen at start, and under `--dev` in a container that is up.
THEOREM ConnectionIsChosen == Spec => []ChosenConnection
BY UsedIsChosen, RuntimeInvariant, PTL
=============================================================================
