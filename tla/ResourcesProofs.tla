-------------------------- MODULE ResourcesProofs --------------------------
(***************************************************************************)
(* However many streams there are, and whatever the pages, the limits, the *)
(* failures and the other clients, the loop of list_streams, diff_resources*)
(* and the reconfigurations ends with what the client wants, reports stay  *)
(* within their budget and hide nothing, no retention age of no seconds is *)
(* stored, and a change made from a report changes nothing else.           *)
(*                                                                         *)
(* That the loop ends reconciled is not inductive.  IInv follows a resource*)
(* that is not as wanted through the loop: it comes after the cursor, or   *)
(* is left to do, and what a call has seen of it is as it was, or has been *)
(* touched since.  For the reports, IInv keeps the books of a call as its  *)
(* entries come in.                                                        *)
(***************************************************************************)
EXTENDS Resources, FiniteSetTheorems, SequenceTheorems, TLAPS

\* A configuration of a resource, as the service may have it.
Stored(config, r) ==
    /\ DOMAIN config = Paths(r)
    /\ \A p \in Paths(r) : config[p] \in Values(p) \ {"zero"}

\* The configurations the service may have, and the ones the client wants.
ConfigsOK ==
    /\ DOMAIN actual = Resource
    /\ \A r \in Resource :
           /\ Stored(actual[r], r)
           /\ DOMAIN desired[r] = Paths(r)
           /\ \A p \in Paths(r) : desired[r][p] \in Values(p)

\* A stream is there only with its basin.
ExistsOK == exists \subseteq Resource /\ (exists # {} => Basin \in exists)

\* The client compares and changes only in the phase for it, one after the
\* other, and is done when nothing is left to do.
PhaseOK ==
    /\ phase \in {"listing", "comparing"} \cup Final
    /\ cursor \in 0..Streams
    /\ call # NoCall \/ pending # <<>> => phase = "comparing"
    /\ call # NoCall => pending = <<>>
    /\ phase = "comparing" => cursor = 0
    /\ phase = "done" => todo = <<>>

\* What diff_resources says of a resource.
Entry == [resource : Resource, matches : BOOLEAN, difference_count : Nat,
          differences : Seq(UNION {Paths(r) : r \in Resource}), truncated : BOOLEAN]

\* An entry shows fields of its resource.
EntriesOK(entries) ==
    /\ entries \in Seq(Entry)
    /\ \A i \in DOMAIN entries :
           Range(entries[i].differences) \subseteq Paths(entries[i].resource)

\* A call is for the first resources left to do, and has an entry for each
\* that was compared.
CallOK ==
    /\ call \in [resources : Seq(Resource), entries : Seq(Entry), count : Nat,
                 limit : 0..MaxItems, remaining : Nat]
    /\ call.remaining <= call.limit
    /\ EntriesOK(call.entries)
    /\ Len(call.entries) <= Len(call.resources)
    /\ Len(call.resources) <= Len(todo)
    /\ \A i \in 1..Len(call.resources) : call.resources[i] = todo[i]
    /\ \A i \in 1..Len(call.entries) : call.entries[i].resource = call.resources[i]

\* An entry says that it is cut short when it shows less than it counts.
SaysWhatIsLeft(e) == e.truncated <=> Len(e.differences) < e.difference_count

\* What a call has returned and counted, over all of its entries.
Books(entries, returned, count, spent) ==
    /\ IsFiniteSet(Shown(entries)) /\ Cardinality(Shown(entries)) = returned
    /\ returned <= count
    /\ count = 0 <=> \A i \in DOMAIN entries : entries[i].matches
    /\ returned < count <=> \E i \in DOMAIN entries : entries[i].truncated
    /\ \A i \in DOMAIN entries :
           /\ entries[i].matches => entries[i].differences = <<>> /\ ~entries[i].truncated
           /\ entries[i].truncated =>
                  /\ spent
                  /\ \A j \in DOMAIN entries : j > i => entries[j].differences = <<>>
    /\ \A i \in DOMAIN entries : SaysWhatIsLeft(entries[i])

\* The call's own books.
BooksOK == Books(call.entries, call.limit - call.remaining, call.count,
                 call.remaining = 0)

\* What is to be changed has yet to be seen to match.
PendingOK ==
    /\ EntriesOK(pending)
    /\ \A i \in DOMAIN pending : pending[i].resource \in Range(todo)

\* Only resources are left to do.
TodoOK == todo \in Seq(Resource)

\* The service has what the client wants of a resource.
Reconciled(r) == Effective(actual[r]) = Effective(desired[r])

\* A resource that the call has compared is as wanted, or the call says not.
ComparedOK ==
    \A i \in DOMAIN call.entries :
        \/ call.entries[i].resource \in touched
        \/ Reconciled(call.entries[i].resource)
        \/ \E j \in DOMAIN call.entries :
               /\ call.entries[j].resource = call.entries[i].resource
               /\ ~call.entries[j].matches

\* A resource that is not as wanted is left to do, or has yet to be listed.
NothingMissed ==
    phase \notin {"refused", "no basin"} =>
        \A r \in exists \ touched :
            \/ Reconciled(r)
            \/ r \in Range(todo)
            \/ phase = "listing" /\ r > cursor

\* The bound on disturbances, and what they touched.
CountersOK == disturbances \in 0..MaxDisturbances /\ touched \subseteq Resource

\* The inductive invariant.
IInv ==
    /\ ConfigsOK /\ ExistsOK /\ PhaseOK /\ TodoOK /\ CallOK /\ BooksOK
    /\ PendingOK /\ ComparedOK /\ NothingMissed /\ CountersOK /\ ReportIsHonest
-----------------------------------------------------------------------------
(* Sets of numbers and sequences. *)

\* A finite set of numbers, in their order.
LEMMA AscendingOrders ==
  ASSUME NEW S \in SUBSET Nat, IsFiniteSet(S)
  PROVE  /\ Ascending[S] \in Seq(S)
         /\ Len(Ascending[S]) = Cardinality(S)
         /\ \A i, j \in 1..Cardinality(S) :
                i < j => Ascending[S][i] < Ascending[S][j]
         /\ \A n \in S : \E i \in 1..Cardinality(S) : Ascending[S][i] = n
<1> DEFINE below(n) == {m \in S : m < n}
           place == [n \in S |-> Cardinality(below(n)) + 1]
           size  == Cardinality(S)
           asc   == [i \in 1..size |-> CHOOSE n \in S : Cardinality(below(n)) = i - 1]
<1>0. /\ \A n \in S : n \in Nat
      /\ \A m, n \in S : m < n \/ m = n \/ n < m
  OBVIOUS
<1>1. size \in Nat
  BY FS_CardinalityType
<1>2. ASSUME NEW n \in S
      PROVE  /\ IsFiniteSet(below(n)) /\ Cardinality(below(n)) \in Nat
             /\ place[n] \in 1..size
  <2>1. below(n) \in SUBSET S /\ below(n) # S
    OBVIOUS
  <2>2. /\ IsFiniteSet(below(n)) /\ Cardinality(below(n)) \in Nat
        /\ Cardinality(below(n)) <= size /\ Cardinality(below(n)) # size
    BY <2>1, FS_Subset, FS_CardinalityType
  <2> QED BY <1>1, <2>2
<1>3. ASSUME NEW m \in S, NEW n \in S, m < n
      PROVE  place[m] < place[n]
  <2>0. ~(m < m) /\ \A k \in S : k < m => k < n
    BY <1>0, <1>3
  <2>1. m \notin below(m) /\ below(m) \cup {m} \in SUBSET below(n)
    BY <2>0, <1>3, Zenon
  <2>2. Cardinality(below(m) \cup {m}) = Cardinality(below(m)) + 1
    BY <2>1, <1>2, FS_AddElement
  <2>3. Cardinality(below(m) \cup {m}) <= Cardinality(below(n))
    BY <2>1, <1>2, FS_Subset
  <2> HIDE DEF below
  <2>4. Cardinality(below(m)) \in Nat /\ Cardinality(below(n)) \in Nat
    BY <1>2, FS_CardinalityType
  <2> QED BY <2>2, <2>3, <2>4
<1> HIDE DEF below
<1>4. place \in Injection(S, 1..size)
  <2>1. place \in [S -> 1..size]
    BY <1>2
  <2>2. \A m, n \in S : m < n \/ n < m \/ m = n
    OBVIOUS
  <2>3. \A m, n \in S : place[m] \in Nat /\ (place[m] = place[n] => m = n)
    <3> HIDE DEF place
    <3> QED BY <1>1, <1>2, <1>3, <2>2
  <2> HIDE DEF place
  <2> QED BY <2>1, <2>3 DEF Injection, IsInjective
<1>5. \A i \in 1..size : \E n \in S : place[n] = i
  <2>1. IsFiniteSet(1..size) /\ Cardinality(1..size) = size
    BY <1>1, FS_Interval
  <2>2. place \in Surjection(S, 1..size)
    BY <1>4, <2>1, FS_Injection
  <2> HIDE DEF place
  <2> QED BY <2>2 DEF Surjection
<1>6. \A i \in 1..size : asc[i] \in S /\ place[asc[i]] = i
  <2>1. ASSUME NEW i \in 1..size
        PROVE  asc[i] \in S /\ place[asc[i]] = i
    <3>1. PICK n \in S : place[n] = i
      BY <1>5
    <3>2. Cardinality(below(n)) = i - 1
      BY <1>2, <3>1
    <3>3. asc[i] = CHOOSE k \in S : Cardinality(below(k)) = i - 1
      OBVIOUS
    <3> HIDE DEF asc
    <3>4. asc[i] \in S /\ Cardinality(below(asc[i])) = i - 1
      BY <3>2, <3>3
    <3> QED BY <3>4
  <2> QED BY <2>1
<1>7. asc \in Seq(S) /\ Len(asc) = size
  <2>1. asc \in [1..size -> S]
    BY <1>6
  <2> HIDE DEF asc, size
  <2> QED BY <2>1, <1>1
<1>8. \A i, j \in 1..size : i < j => asc[i] < asc[j]
  <2> HIDE DEF place, asc
  <2>1. SUFFICES ASSUME NEW i \in 1..size, NEW j \in 1..size, i < j,
                        ~(asc[i] < asc[j])
                 PROVE  FALSE
    OBVIOUS
  <2>2. asc[i] \in S /\ asc[j] \in S /\ place[asc[i]] = i /\ place[asc[j]] = j
    BY <1>6
  <2>3. asc[i] = asc[j] \/ asc[j] < asc[i]
    BY <2>1, <2>2, <1>0, Zenon
  <2>4. j = i \/ j < i
    BY <2>2, <2>3, <1>3
  <2> QED BY <1>1, <2>1, <2>4
<1>9. \A n \in S : \E i \in 1..size : asc[i] = n
  <2>1. SUFFICES ASSUME NEW n \in S PROVE \E i \in 1..size : asc[i] = n
    OBVIOUS
  <2>2. place[n] \in 1..size
    BY <1>2
  <2>3. asc[place[n]] \in S /\ place[asc[place[n]]] = place[n]
    BY <1>6, <2>2
  <2> HIDE DEF place, asc
  <2>4. asc[place[n]] = n
    BY <1>4, <2>3 DEF Injection, IsInjective
  <2> QED BY <2>2, <2>4
<1>10. asc = Ascending[S]
  BY DEF Ascending, below
<1> HIDE DEF asc
<1> QED
  BY <1>7, <1>8, <1>9, <1>10

\* What a sequence has at some places, is what it has there.
LEMMA AtPicks ==
  ASSUME NEW T, NEW seq \in Seq(T), NEW places \in SUBSET (DOMAIN seq)
  PROVE  /\ At(seq, places) \in Seq(T)
         /\ At(seq, places) = <<>> => places = {}
         /\ places = {} => At(seq, places) = <<>>
         /\ \A i \in 1..Len(At(seq, places)) : \E p \in places : At(seq, places)[i] = seq[p]
         /\ \A p \in places : \E i \in 1..Len(At(seq, places)) : At(seq, places)[i] = seq[p]
<1>1. Len(seq) \in Nat /\ DOMAIN seq = 1..Len(seq)
  BY LenProperties
<1>2. places \in SUBSET Nat /\ IsFiniteSet(places)
  <2>1. IsFiniteSet(1..Len(seq))
    BY <1>1, FS_Interval
  <2> QED BY <1>1, <2>1, FS_Subset
<1>3. PICK order \in Seq(places) :
        /\ order = Ascending[places] /\ Len(order) = Cardinality(places)
        /\ \A p \in places : \E i \in 1..Cardinality(places) : order[i] = p
  BY <1>2, AscendingOrders
<1>4. PICK size \in Nat : size = Cardinality(places)
  BY <1>2, FS_CardinalityType
<1>5. \A i \in 1..size : order[i] \in places /\ seq[order[i]] \in T
  <2>1. \A i \in 1..size : order[i] \in places
    BY <1>3, <1>4, ElementOfSeq
  <2> QED BY <1>1, <2>1, ElementOfSeq
<1>6. At(seq, places) = [i \in 1..size |-> seq[order[i]]]
  BY <1>3, <1>4 DEF At
<1>7. PICK at : at = [i \in 1..size |-> seq[order[i]]]
  OBVIOUS
<1>8. at \in Seq(T) /\ Len(at) = size
  <2>1. at \in [1..size -> T]
    BY <1>5, <1>7
  <2> QED BY <1>4, <2>1
<1>9. /\ \A i \in 1..size : \E p \in places : at[i] = seq[p]
      /\ \A p \in places : \E i \in 1..size : at[i] = seq[p]
  BY <1>3, <1>4, <1>5, <1>7
<1>10. at = <<>> => places = {}
  BY <1>8, <1>9, EmptySeq
<1>11. places = {} => at = <<>>
  <2>1. size # 0 => 1 \in 1..size
    OBVIOUS
  <2> QED BY <1>5, <1>8, <2>1, EmptySeq
<1>12. At(seq, places) = at
  BY <1>6, <1>7
<1>13. /\ at \in Seq(T) /\ (at = <<>> => places = {}) /\ (places = {} => at = <<>>)
       /\ \A i \in 1..Len(at) : \E p \in places : at[i] = seq[p]
       /\ \A p \in places : \E i \in 1..Len(at) : at[i] = seq[p]
  BY <1>8, <1>9, <1>10, <1>11
<1> QED
  BY <1>12, <1>13, Zenon

\* A slice from the beginning.
LEMMA FirstOnes ==
  ASSUME NEW T, NEW seq \in Seq(T), NEW n \in 0..Len(seq)
  PROVE  /\ SubSeq(seq, 1, n) \in Seq(T) /\ Len(SubSeq(seq, 1, n)) = n
         /\ \A i \in 1..n : SubSeq(seq, 1, n)[i] = seq[i]
<1>1. Len(seq) \in Nat
  BY LenProperties
<1>2. PICK one \in Int, m \in Int : one = 1 /\ m = n
  BY <1>1
<1>3. \A i \in one..m : seq[i] \in T
  <2>1. \A i \in one..m : i \in 1..Len(seq)
    BY <1>1, <1>2
  <2> QED BY <2>1, ElementOfSeq
<1>4. /\ SubSeq(seq, one, m) \in Seq(T)
      /\ Len(SubSeq(seq, one, m)) = (IF one <= m THEN m - one + 1 ELSE 0)
      /\ \A i \in 1..(m - one + 1) : SubSeq(seq, one, m)[i] = seq[one + i - 1]
  BY <1>3, SubSeqProperties
<1>5. PICK slice : slice = SubSeq(seq, one, m)
  OBVIOUS
<1>6. Len(slice) = n /\ \A i \in 1..n : slice[i] = seq[i]
  <2>1. m - one + 1 = n /\ (one <= m <=> n # 0) /\ \A i \in 1..n : one + i - 1 = i
    BY <1>1, <1>2
  <2> QED BY <1>4, <1>5, <2>1
<1>7. slice = SubSeq(seq, 1, n) /\ slice \in Seq(T)
  BY <1>2, <1>4, <1>5
<1> QED BY <1>6, <1>7

\* Two sequences, one after the other: an element of the second, and the whole.
LEMMA ConcatSecond ==
  ASSUME NEW T, NEW a \in Seq(T), NEW b \in Seq(T), NEW m \in Nat, NEW n \in Nat,
         Len(a) = m, Len(b) = n, NEW i \in 1..n, NEW k, k = m + i
  PROVE  (a \o b)[k] = b[i]
<1>1. \A j \in 1..(m + n) : (a \o b)[j] = IF j <= m THEN a[j] ELSE b[j - m]
  <2>1. \A j \in 1..(Len(a) + Len(b)) : (a \o b)[j] =
            IF j <= Len(a) THEN a[j] ELSE b[j - Len(a)]
    BY ConcatProperties
  <2> QED BY <2>1, Zenon
<1>2. k \in 1..(m + n) /\ ~(k <= m) /\ k - m = i
  OBVIOUS
<1> QED BY <1>1, <1>2, Zenon

LEMMA Concat ==
  ASSUME NEW T, NEW a \in Seq(T), NEW b \in Seq(T), NEW m \in Nat, NEW n \in Nat,
         Len(a) = m, Len(b) = n
  PROVE  /\ a \o b \in Seq(T) /\ Len(a \o b) = m + n /\ DOMAIN (a \o b) = 1..(m + n)
         /\ \A i \in 1..m : (a \o b)[i] = a[i]
         /\ \A i \in 1..n : (a \o b)[m + i] = b[i]
<1>1. /\ a \o b \in Seq(T) /\ Len(a \o b) = Len(a) + Len(b)
      /\ \A i \in 1..(Len(a) + Len(b)) : (a \o b)[i] =
            IF i <= Len(a) THEN a[i] ELSE b[i - Len(a)]
  BY ConcatProperties
<1>2. PICK c : c = a \o b
  OBVIOUS
<1>3. /\ c \in Seq(T) /\ Len(c) = m + n
      /\ \A i \in 1..(m + n) : c[i] = IF i <= m THEN a[i] ELSE b[i - m]
  BY <1>1, <1>2, Zenon
<1>4. /\ \A i \in 1..m : i \in 1..(m + n) /\ i <= m
      /\ \A i \in 1..n : m + i \in 1..(m + n) /\ ~(m + i <= m) /\ m + i - m = i
  OBVIOUS
<1>5. ASSUME NEW i \in 1..m
      PROVE  c[i] = a[i]
  BY <1>3, <1>4
<1>7. ASSUME NEW i \in 1..n
      PROVE  c[m + i] = b[i]
  <2>1. PICK k \in Nat : k = m + i
    OBVIOUS
  <2>2. (a \o b)[k] = b[i]
    BY <2>1, ConcatSecond
  <2> QED BY <1>2, <2>1, <2>2
<1>6. DOMAIN c = 1..(m + n)
  BY <1>3, LenProperties
<1> QED BY <1>2, <1>3, <1>5, <1>6, <1>7, Zenon
-----------------------------------------------------------------------------
(* The fields of a configuration. *)

\* What the fields of a configuration are called.
Token ==
    {"storage_class", "retention_policy", "timestamping", "mode", "uncapped",
     "delete_on_empty", "min_age_seconds", "default_stream_config",
     "stream_cipher", "create_stream_on_append", "create_stream_on_read"}

\* What a field's path is.
Path == Seq(Token)

\* A prefix has what the sequence has, as far as it goes.
LEMMA PrefixAgrees ==
  ASSUME NEW T, NEW a \in Seq(T), NEW b \in Seq(T), IsPrefix(a, b)
  PROVE  Len(a) <= Len(b) /\ \A i \in 1..Len(a) : a[i] = b[i]
<1>1. Len(a) \in Nat /\ Len(b) \in Nat /\ Len(a) <= Len(b)
      /\ SubSeq(a, 1, Len(a)) = SubSeq(b, 1, Len(a))
  BY LenProperties DEF IsPrefix
<1>2. \A i \in 1..Len(a) : SubSeq(a, 1, Len(a))[i] = a[i]
  BY <1>1, FirstOnes
<1>3. \A i \in 1..Len(a) : SubSeq(b, 1, Len(a))[i] = b[i]
  BY <1>1, FirstOnes
<1> QED BY <1>1, <1>2, <1>3

\* A field of the basin's default for its streams.
Nested(p) == \E q \in Range(StreamFields) :
                p \in Seq(Token) /\ Len(p) = Len(q) + 1 /\ p[1] = "default_stream_config"
                /\ \A i \in 1..Len(q) : p[i + 1] = q[i]

\* The fields of a stream.
LEMMA StreamFieldShapes ==
  /\ StreamFields \in Seq(Path) /\ DOMAIN StreamFields = 1..5
  /\ \A q \in Range(StreamFields) : q \in Seq(Token)
  /\ \A q \in Range(StreamFields) :
        q \in { <<"storage_class">>, <<"retention_policy">>,
                <<"timestamping", "mode">>, <<"timestamping", "uncapped">>,
                <<"delete_on_empty", "min_age_seconds">> }
<1>1. DOMAIN StreamFields = 1..5 /\ Len(StreamFields) = 5
  BY DEF StreamFields
<1>2. ASSUME NEW i \in 1..5
      PROVE  StreamFields[i] \in
              { <<"storage_class">>, <<"retention_policy">>,
                <<"timestamping", "mode">>, <<"timestamping", "uncapped">>,
                <<"delete_on_empty", "min_age_seconds">> }
  <2>1. i = 1 \/ i = 2 \/ i = 3 \/ i = 4 \/ i = 5
    OBVIOUS
  <2> QED BY <2>1 DEF StreamFields
<1>3. \A i \in 1..5 : StreamFields[i] \in Seq(Token)
  <2>1. /\ <<"storage_class">> \in Seq(Token) /\ <<"retention_policy">> \in Seq(Token)
        /\ <<"timestamping", "mode">> \in Seq(Token)
        /\ <<"timestamping", "uncapped">> \in Seq(Token)
        /\ <<"delete_on_empty", "min_age_seconds">> \in Seq(Token)
    BY DEF Token
  <2> QED BY <1>2, <2>1
<1>4. StreamFields \in Seq(Path)
  <2>1. \A i \in 1..5 : StreamFields[i] \in Path
    BY <1>3 DEF Path
  <2> QED BY <2>1 DEF StreamFields
<1> QED BY <1>1, <1>2, <1>3, <1>4 DEF Range

\* The fields of a stream, or of the basin.
LEMMA FieldShapes ==
  ASSUME NEW r \in Resource
  PROVE  /\ Fields[r] \in Seq(Path) /\ Paths(r) = Range(Fields[r])
         /\ \A p \in Paths(r) :
               \/ r # Basin /\ p \in Range(StreamFields)
               \/ r = Basin /\ (Nested(p) \/ p = Cipher \/ p \in Range(Switches))
<1>1. Paths(r) = Range(Fields[r])
  BY DEF Paths
<1>2. CASE r # Basin
  <2>1. Fields[r] = StreamFields
    BY <1>2 DEF Fields
  <2> QED BY <1>1, <1>2, <2>1, StreamFieldShapes
<1>3. CASE r = Basin
  <2> DEFINE nested == [i \in DOMAIN StreamFields |-> Default(StreamFields[i])]
  <2>1. ASSUME NEW i \in 1..5
        PROVE  nested[i] \in Seq(Token) /\ Nested(nested[i])
    <3>1. i \in DOMAIN StreamFields
      BY StreamFieldShapes
    <3>2. StreamFields[i] \in Seq(Token) /\ StreamFields[i] \in Range(StreamFields)
      BY <3>1, StreamFieldShapes DEF Range
    <3>3. PICK q \in Seq(Token) : q = StreamFields[i] /\ q \in Range(StreamFields)
      BY <3>2
    <3>4. PICK d : d = <<"default_stream_config">>
      OBVIOUS
    <3>5. PICK one \in Nat, n \in Nat : one = 1 /\ n = Len(q)
      BY LenProperties
    <3>6. /\ d \in Seq(Token) /\ Len(d) = one /\ Len(q) = n
      BY <3>4, <3>5 DEF Token
    <3>7. PICK p : p = d \o q
      OBVIOUS
    <3>8. /\ p \in Seq(Token) /\ Len(p) = one + n
          /\ \A j \in 1..one : p[j] = d[j]
          /\ \A j \in 1..n : p[one + j] = q[j]
      <4>1. PICK a \in Seq(Token), b \in Seq(Token) :
               a = d /\ b = q /\ Len(a) = one /\ Len(b) = n
        BY <3>6
      <4>2. Len(a) = one /\ Len(b) = n
        BY <4>1
      <4>3. a \o b \in Seq(Token) /\ Len(a \o b) = one + n
        BY <4>2, Concat
      <4>4. \A j \in 1..one : (a \o b)[j] = a[j]
        BY <4>2, Concat
      <4>5. ASSUME NEW j \in 1..n
            PROVE  (a \o b)[one + j] = b[j]
        <5>1. PICK k : k = one + j
          OBVIOUS
        <5>2. (a \o b)[k] = b[j]
          BY <4>2, <5>1, ConcatSecond
        <5> QED BY <5>1, <5>2
      <4> QED BY <3>7, <4>1, <4>3, <4>4, <4>5, Zenon
    <3>9. /\ p \in Seq(Token) /\ Len(p) = Len(q) + 1 /\ p[1] = "default_stream_config"
          /\ \A j \in 1..Len(q) : p[j + 1] = q[j]
      <4>1. 1 \in 1..one /\ one + n = n + 1 /\ \A j \in 1..n : one + j = j + 1
        BY <3>5
      <4>2. d[1] = "default_stream_config"
        BY <3>4
      <4> QED BY <3>5, <3>8, <4>1, <4>2
    <3>10. nested[i] = p
      BY <3>3, <3>4, <3>7, StreamFieldShapes DEF Default
    <3> HIDE DEF nested
    <3> QED BY <3>3, <3>9, <3>10 DEF Nested
  <2>2. DOMAIN nested = 1..5
    BY StreamFieldShapes
  <2> HIDE DEF nested
  <2>3. PICK one \in Nat, two \in Nat, five \in Nat : one = 1 /\ two = 2 /\ five = 5
    OBVIOUS
  <2>4. nested \in Seq(Path) /\ Len(nested) = five
    <3>1. 1..five = 1..5
      BY <2>3
    <3>2. nested = [i \in 1..five |-> Default(StreamFields[i])]
      BY <2>2, <3>1 DEF nested
    <3>3. \A i \in 1..five : nested[i] \in Path
      BY <2>1, <3>1 DEF Path
    <3>4. nested \in [1..five -> Path]
      BY <3>2, <3>3, Zenon
    <3> QED BY <3>4
  <2>5. PICK c : c = <<Cipher>>
    OBVIOUS
  <2>6. c \in Seq(Path) /\ Len(c) = one
    <3>1. Cipher \in Path
      BY DEF Cipher, Token, Path
    <3> QED BY <2>3, <2>5, <3>1
  <2>7. Switches \in Seq(Path) /\ Len(Switches) = two
        /\ \A i \in 1..two : Switches[i] \in Range(Switches)
    <3>1. /\ <<"create_stream_on_append">> \in Path
          /\ <<"create_stream_on_read">> \in Path
      BY DEF Token, Path
    <3> QED BY <2>3, <3>1 DEF Switches, Range
  <2>8. PICK front : front = nested \o c
    OBVIOUS
  <2>9. /\ front \in Seq(Path) /\ Len(front) = five + one
        /\ \A i \in 1..five : front[i] = nested[i]
        /\ \A i \in 1..one : front[five + i] = c[i]
    <3>1. PICK a \in Seq(Path), b \in Seq(Path) :
             a = nested /\ b = c /\ Len(a) = five /\ Len(b) = one
      BY <2>4, <2>6
    <3>2. Len(a) = five /\ Len(b) = one
      BY <3>1
    <3>3. a \o b \in Seq(Path) /\ Len(a \o b) = five + one
      BY <3>2, Concat
    <3>4. \A i \in 1..five : (a \o b)[i] = a[i]
      BY <3>2, Concat
    <3>5. ASSUME NEW i \in 1..one
          PROVE  (a \o b)[five + i] = b[i]
      <4>1. PICK k \in Nat : k = five + i
        OBVIOUS
      <4>2. PICK m \in Nat, n \in Nat : m = five /\ n = one
        OBVIOUS
      <4>3. Len(a) = m /\ Len(b) = n /\ i \in 1..n /\ k = m + i
        BY <3>2, <4>1, <4>2
      <4>4. (a \o b)[k] = b[i]
        BY <4>3, ConcatSecond
      <4> QED BY <4>1, <4>4
    <3> QED BY <2>8, <3>1, <3>3, <3>4, <3>5, Zenon
  <2>10. PICK all : all = front \o Switches
    OBVIOUS
  <2>11. PICK six \in Nat : six = five + one
    OBVIOUS
  <2>12. Len(front) = six
    BY <2>9, <2>11
  <2>13. front \in Seq(Path)
    BY <2>9
  <2>14. /\ all \in Seq(Path) /\ DOMAIN all = 1..(six + two)
         /\ \A i \in 1..six : all[i] = front[i]
         /\ \A i \in 1..two : all[six + i] = Switches[i]
    <3>1. PICK a \in Seq(Path), b \in Seq(Path) :
             a = front /\ b = Switches /\ Len(a) = six /\ Len(b) = two
      BY <2>7, <2>12, <2>13
    <3>2. Len(a) = six /\ Len(b) = two
      BY <3>1
    <3>3. a \o b \in Seq(Path) /\ Len(a \o b) = six + two
      BY <3>2, Concat
    <3>4. DOMAIN (a \o b) = 1..(six + two)
      BY <3>2, Concat
    <3>5. \A i \in 1..six : (a \o b)[i] = a[i]
      BY <3>2, Concat
    <3>6. ASSUME NEW i \in 1..two
          PROVE  (a \o b)[six + i] = b[i]
      <4>1. PICK k : k = six + i
        OBVIOUS
      <4>2. (a \o b)[k] = b[i]
        BY <3>2, <4>1, ConcatSecond
      <4> QED BY <4>1, <4>2
    <3> QED BY <2>10, <3>1, <3>3, <3>4, <3>5, <3>6, Zenon
  <2>15. Fields[r] = all
    <3>1. c = <<Cipher>> /\ front \o Switches = nested \o <<Cipher>> \o Switches
      BY <2>5, <2>8
    <3> QED BY <1>3, <2>10, <3>1 DEF Fields, nested
  <2>16. ASSUME NEW i \in 1..(six + two)
         PROVE  Nested(all[i]) \/ all[i] = Cipher \/ all[i] \in Range(Switches)
    <3>1. CASE i <= five
      <4>1. i \in 1..five /\ i \in 1..six /\ i \in 1..5
        BY <2>3, <2>11, <3>1
      <4> QED BY <2>1, <2>9, <2>14, <4>1
    <3>2. CASE i = six
      <4>1. 1 \in 1..one /\ six \in 1..six /\ five + 1 = six
        BY <2>3, <2>11
      <4>2. c[1] = Cipher
        BY <2>5
      <4> QED BY <2>9, <2>14, <3>2, <4>1, <4>2
    <3>3. CASE i > six
      <4>1. i - six \in 1..two /\ six + (i - six) = i
        BY <3>3
      <4> QED BY <2>7, <2>14, <4>1
    <3> QED BY <2>3, <2>11, <3>1, <3>2, <3>3
  <2> QED BY <1>1, <1>3, <2>14, <2>15, <2>16 DEF Range
<1> QED BY <1>2, <1>3

\* The fields of a basin that are not nested in anything.
LEMMA SwitchShapes ==
  /\ \A p \in Range(Switches) :
        p = <<"create_stream_on_append">> \/ p = <<"create_stream_on_read">>
  /\ \A p \in Range(Switches) \cup {Cipher} : p \in Seq(Token) /\ Len(p) = 1
  /\ \A p, q \in Range(Switches) \cup {Cipher} : p[1] = q[1] => p = q
  /\ \A p \in Range(Switches) \cup {Cipher} :
        p[1] \in {"create_stream_on_append", "create_stream_on_read", "stream_cipher"}
<1>1. \A p \in Range(Switches) :
        p = <<"create_stream_on_append">> \/ p = <<"create_stream_on_read">>
  BY DEF Switches, Range
<1>2. /\ <<"create_stream_on_append">> \in Seq(Token)
      /\ <<"create_stream_on_read">> \in Seq(Token) /\ <<"stream_cipher">> \in Seq(Token)
  BY DEF Token
<1> QED BY <1>1, <1>2 DEF Cipher

\* A field's path is not empty.
LEMMA PathsType ==
  ASSUME NEW r \in Resource, NEW p \in Paths(r)
  PROVE  p \in Seq(Token) /\ Len(p) \in Nat \ {0} /\ (p \in Range(Switches) => Len(p) = 1)
<1>1. DOMAIN Fields[r] = 1..Len(Fields[r])
  BY FieldShapes, LenProperties
<1>2. PICK i \in 1..Len(Fields[r]) : Fields[r][i] = p
  BY <1>1, FieldShapes DEF Range
<1>3. p \in Seq(Token)
  BY <1>2, FieldShapes, ElementOfSeq DEF Path
<1>4. Len(p) \in Nat \ {0}
  <2>1. CASE r # Basin
    <3>1. p \in Range(StreamFields)
      BY <2>1, FieldShapes
    <3>2. \/ p = <<"storage_class">> \/ p = <<"retention_policy">>
          \/ p = <<"timestamping", "mode">> \/ p = <<"timestamping", "uncapped">>
          \/ p = <<"delete_on_empty", "min_age_seconds">>
      BY <3>1, StreamFieldShapes
    <3> QED BY <3>2
  <2>2. CASE r = Basin
    <3>1. CASE Nested(p)
      <4>1. PICK q \in Range(StreamFields) : Len(p) = Len(q) + 1
        BY <3>1 DEF Nested
      <4>2. Len(q) \in Nat
        BY StreamFieldShapes, LenProperties
      <4> QED BY <4>1, <4>2
    <3>2. CASE p \in Range(Switches) \cup {Cipher}
      BY <3>2, SwitchShapes
    <3> QED BY <2>2, <3>1, <3>2, FieldShapes
  <2> QED BY <2>1, <2>2
<1> QED BY <1>3, <1>4, SwitchShapes

\* No field is nested in another.
LEMMA PrefixFree ==
  ASSUME NEW r \in Resource, NEW a \in Paths(r), NEW b \in Paths(r), IsPrefix(a, b)
  PROVE  a = b
<1>1. a \in Seq(Token) /\ b \in Seq(Token)
  BY PathsType
<1>2. Len(a) <= Len(b) /\ (\A i \in 1..Len(a) : a[i] = b[i])
  BY <1>1, PrefixAgrees
<1>3. ASSUME NEW p \in Range(StreamFields), NEW q \in Range(StreamFields),
             Len(p) <= Len(q), \A i \in 1..Len(p) : p[i] = q[i]
      PROVE  p = q
  <2>1. Len(p) = 1 \/ Len(p) = 2
    BY StreamFieldShapes
  <2>11. \A f \in Range(StreamFields) :
           \/ f = <<"storage_class">> \/ f = <<"retention_policy">>
           \/ f = <<"timestamping", "mode">> \/ f = <<"timestamping", "uncapped">>
           \/ f = <<"delete_on_empty", "min_age_seconds">>
    BY StreamFieldShapes
  <2>2. CASE Len(p) = 1
    <3>1. p[1] = q[1]
      BY <1>3, <2>2
    <3> QED BY <2>2, <2>11, <3>1
  <2>3. CASE Len(p) = 2
    <3>1. p[1] = q[1] /\ p[2] = q[2] /\ ~(Len(q) = 1)
      BY <1>3, <2>3
    <3>2. Len(q) = 2
      BY <3>1, StreamFieldShapes
    <3>3. \A f \in Range(StreamFields) : Len(f) = 2 =>
            \/ f = <<"timestamping", "mode">> \/ f = <<"timestamping", "uncapped">>
            \/ f = <<"delete_on_empty", "min_age_seconds">>
      BY <2>11
    <3> QED BY <2>3, <3>1, <3>2, <3>3
  <2> QED BY <2>1, <2>2, <2>3
<1>4. CASE r # Basin
  BY <1>2, <1>3, <1>4, FieldShapes
<1>5. CASE r = Basin
  <2>1. CASE Nested(a) /\ Nested(b)
    <3>1. PICK p \in Range(StreamFields) :
            Len(a) = Len(p) + 1 /\ a[1] = "default_stream_config"
            /\ \A i \in 1..Len(p) : a[i + 1] = p[i]
      BY <2>1 DEF Nested
    <3>2. PICK q \in Range(StreamFields) :
            Len(b) = Len(q) + 1 /\ b[1] = "default_stream_config"
            /\ \A i \in 1..Len(q) : b[i + 1] = q[i]
      BY <2>1 DEF Nested
    <3>3. Len(p) \in Nat /\ Len(q) \in Nat
      BY StreamFieldShapes, LenProperties
    <3>4. Len(p) <= Len(q)
      BY <1>2, <3>1, <3>2, <3>3
    <3>5. ASSUME NEW i \in 1..Len(p) PROVE p[i] = q[i]
      <4>1. i + 1 \in 1..Len(a) /\ i \in 1..Len(q)
        BY <3>1, <3>3, <3>4
      <4> QED BY <1>2, <3>1, <3>2, <4>1
    <3>6. p = q
      BY <1>3, <3>4, <3>5
    <3>7. a \in [1..Len(a) -> Token] /\ b \in [1..Len(b) -> Token]
      BY <1>1, LenProperties
    <3>8. Len(a) = Len(b) /\ Len(a) \in Nat
      BY <3>1, <3>2, <3>3, <3>6
    <3>9. ASSUME NEW i \in 1..Len(a) PROVE a[i] = b[i]
      BY <1>2
    <3> QED BY <3>7, <3>8, <3>9
  <2>2. CASE ~Nested(a) \/ ~Nested(b)
    <3>1. /\ Nested(a) \/ a \in Range(Switches) \cup {Cipher}
          /\ Nested(b) \/ b \in Range(Switches) \cup {Cipher}
      BY <1>5, FieldShapes
    <3>2. 1 \in 1..Len(a) /\ a[1] = b[1]
      <4>1. Len(a) \in Nat \ {0}
        <5>1. CASE Nested(a)
          BY <5>1, StreamFieldShapes, LenProperties DEF Nested
        <5> QED BY <3>1, <5>1, SwitchShapes
      <4> QED BY <1>2, <4>1
    <3>3. ~Nested(a) /\ ~Nested(b)
      BY <2>2, <3>1, <3>2, SwitchShapes DEF Nested
    <3> QED BY <3>1, <3>2, <3>3, SwitchShapes
  <2> QED BY <2>1, <2>2
<1> QED BY <1>4, <1>5

\* What a request may name: a field, or an object fields are nested in.
Named(request) ==
    \A node \in DOMAIN request : node \in Seq(Token) /\ Len(node) \in Nat \ {0}

\* The path of an object is not empty.
LEMMA GroupsType ==
  ASSUME NEW r \in Resource, NEW node \in Groups(r)
  PROVE  node \in Seq(Token) /\ Len(node) \in Nat \ {0}
<1>1. PICK p \in Paths(r) : \E n \in 1..(Len(p) - 1) : node = SubSeq(p, 1, n)
  BY DEF Groups
<1>2. PICK n \in 1..(Len(p) - 1) : node = SubSeq(p, 1, n)
  BY <1>1
<1>3. p \in Seq(Token) /\ n \in 0..Len(p) /\ n \in Nat \ {0}
  BY PathsType
<1>4. SubSeq(p, 1, n) \in Seq(Token) /\ Len(SubSeq(p, 1, n)) = n
  BY <1>3, FirstOnes
<1> QED BY <1>2, <1>3, <1>4

\* A switch cannot be cleared, and no object holds it.
LEMMA SwitchStands ==
  ASSUME NEW r \in Resource, NEW p \in Paths(r), p \in Range(Switches),
         NEW request, Named(request), ~Refuses(request)
  PROVE  ~Cleared(request, p)
<1>1. SUFFICES ASSUME NEW node \in DOMAIN request, request[node] = Null, IsPrefix(node, p)
               PROVE  FALSE
  BY DEF Cleared
<1>2. node \in Seq(Token) /\ Len(node) \in Nat \ {0} /\ p \in Seq(Token) /\ Len(p) = 1
  BY PathsType DEF Named
<1>3. Len(node) <= Len(p) /\ \A i \in 1..Len(node) : node[i] = p[i]
  BY <1>1, <1>2, PrefixAgrees
<1>4. Len(node) = 1 /\ node[1] = p[1]
  BY <1>2, <1>3
<1>5. node = p
  <2>1. node \in [1..1 -> Token] /\ p \in [1..1 -> Token]
    BY <1>2, <1>4, LenProperties
  <2> QED BY <1>4, <2>1
<1> QED
  BY <1>1, <1>5 DEF Refuses

\* No retention age of no seconds comes out of a reconfiguration.
LEMMA ReconfiguredOK ==
  ASSUME NEW r \in Resource, NEW config, DOMAIN config = Paths(r),
         \A p \in Paths(r) : config[p] \in Values(p) \ {"zero"},
         NEW request, Named(request), ~Refuses(request),
         \A p \in Paths(r) \cap DOMAIN request :
             request[p] # Null => request[p] \in Values(p)
  PROVE  /\ DOMAIN Reconfigured(config, request) = Paths(r)
         /\ \A p \in Paths(r) : Reconfigured(config, request)[p] \in Values(p) \ {"zero"}
<1>1. ASSUME NEW p \in Paths(r), Cleared(request, p)
      PROVE  "unset" \in Values(p) \ {"zero"}
  BY <1>1, SwitchStands DEF Values
<1>2. ASSUME NEW p \in Paths(r), p \in DOMAIN request
      PROVE  request[p] # "zero"
  BY <1>2 DEF Refuses
<1> QED
  BY <1>1, <1>2 DEF Reconfigured

\* The configurations of the instance.
LEMMA WithOK ==
  ASSUME NEW r \in Resource, NEW fields
  PROVE  /\ Stored(With(r, fields, "other"), r)
         /\ DOMAIN With(r, fields, "zero") = Paths(r)
         /\ fields \subseteq {"retention_policy"} =>
                \A p \in Paths(r) : With(r, fields, "zero")[p] \in Values(p)
BY DEF With, Base, Values, Stored

\* A desired configuration that is valid is asked for field by field.
LEMMA RequestOK ==
  ASSUME NEW r \in Resource, NEW fields \in SUBSET Paths(r),
         DOMAIN desired[r] = Paths(r),
         \A p \in Paths(r) : desired[r][p] \in Values(p)
  PROVE  /\ Named(Request(r, fields)) /\ DOMAIN Request(r, fields) = fields
         /\ \A p \in Paths(r) \cap fields :
               Request(r, fields)[p] # Null => Request(r, fields)[p] \in Values(p)
<1>1. DOMAIN Request(r, fields) = fields
  BY DEF Request
<1>2. Named(Request(r, fields))
  BY <1>1, PathsType DEF Named
<1>3. ASSUME NEW p \in fields
      PROVE  Request(r, fields)[p] = Null \/ Request(r, fields)[p] \in Values(p)
  <2>1. desired[r][p] \in Values(p) /\ "default" \in Values(p)
    BY DEF Values
  <2>2. Effective(desired[r])[p] \in Values(p)
    BY <2>1 DEF Effective
  <2> QED BY <2>2 DEF Request
<1> QED BY <1>1, <1>2, <1>3

\* Only what is sent is changed: a request names no object.
LEMMA OnlySentChange ==
  ASSUME NEW r \in Resource, NEW config, DOMAIN config = Paths(r),
         NEW fields \in SUBSET Paths(r), NEW request, DOMAIN request = fields,
         NEW p \in Paths(r), Reconfigured(config, request)[p] # config[p]
  PROVE  p \in fields
<1>1. CASE Cleared(request, p)
  <2>1. PICK node \in DOMAIN request : IsPrefix(node, p)
    BY <1>1 DEF Cleared
  <2> QED BY <2>1, PrefixFree
<1>2. CASE ~Cleared(request, p)
  BY <1>2 DEF Reconfigured
<1> QED BY <1>1, <1>2

\* Two configurations differ in the fields that are reported, and only in them.
LEMMA DifferencesOK ==
  ASSUME NEW r \in Resource, NEW have, NEW want,
         DOMAIN have = Paths(r), DOMAIN want = Paths(r)
  PROVE  /\ Differences(r, have, want) \in Seq(Paths(r))
         /\ Differences(r, have, want) = <<>> => Effective(have) = Effective(want)
<1> DEFINE places == {i \in DOMAIN Fields[r] :
                        Effective(have)[Fields[r][i]] # Effective(want)[Fields[r][i]]}
<1>1. Fields[r] \in Seq(Paths(r)) /\ Paths(r) = Range(Fields[r])
  <2>1. Fields[r] \in [1..Len(Fields[r]) -> Path] /\ Len(Fields[r]) \in Nat
    BY FieldShapes, LenProperties
  <2>2. Paths(r) = Range(Fields[r])
    BY FieldShapes
  <2>3. Fields[r] \in [1..Len(Fields[r]) -> Paths(r)]
    BY <2>1, <2>2 DEF Range
  <2> QED BY <2>1, <2>2, <2>3
<1>2. /\ At(Fields[r], places) \in Seq(Paths(r))
      /\ At(Fields[r], places) = <<>> => places = {}
  BY <1>1, AtPicks
<1>3. Differences(r, have, want) = At(Fields[r], places)
  BY DEF Differences
<1>4. ASSUME places = {} PROVE Effective(have) = Effective(want)
  <2>1. \A p \in Paths(r) : Effective(have)[p] = Effective(want)[p]
    BY <1>1, <1>4 DEF Range
  <2>2. /\ Effective(have) = [p \in Paths(r) |-> Effective(have)[p]]
        /\ Effective(want) = [p \in Paths(r) |-> Effective(want)[p]]
    BY DEF Effective
  <2> QED BY <2>1, <2>2
<1> HIDE DEF places
<1> QED BY <1>2, <1>3, <1>4
-----------------------------------------------------------------------------
(* The entries of a call. *)

\* An entry adds as many items as it shows.
LEMMA ShownAppend ==
  ASSUME NEW entries \in Seq(Entry), NEW e \in Entry, IsFiniteSet(Shown(entries))
  PROVE  /\ IsFiniteSet(Shown(Append(entries, e)))
         /\ Cardinality(Shown(Append(entries, e))) =
               Cardinality(Shown(entries)) + Len(e.differences)
<1>1. PICK n \in Nat, d \in Nat : /\ n = Len(entries) /\ DOMAIN entries = 1..n
                                  /\ d = Len(e.differences) /\ DOMAIN e.differences = 1..d
  BY LenProperties DEF Entry
<1>2. PICK more : more = Append(entries, e)
  OBVIOUS
<1>3. /\ more \in Seq(Entry) /\ DOMAIN more = 1..(n + 1)
      /\ \A i \in 1..n : more[i] = entries[i]
      /\ more[n + 1] = e
  <2>1. /\ Append(entries, e) \in Seq(Entry) /\ Len(Append(entries, e)) = Len(entries) + 1
        /\ \A i \in 1..Len(entries) : Append(entries, e)[i] = entries[i]
        /\ Append(entries, e)[Len(entries) + 1] = e
    BY AppendProperties
  <2>2. /\ more \in Seq(Entry) /\ Len(more) = n + 1
        /\ \A i \in 1..n : more[i] = entries[i]
        /\ more[n + 1] = e
    BY <1>1, <1>2, <2>1, Zenon
  <2> QED BY <2>2, LenProperties
<1> DEFINE added == {<<n + 1, j>> : j \in 1..d}
<1>4. Shown(more) = Shown(entries) \cup added
  <2>1. ASSUME NEW x
        PROVE  x \in Shown(more) <=> x \in Shown(entries) \/ x \in added
    <3>1. x \in Shown(entries) <=>
              \E i \in 1..n : \E j \in DOMAIN entries[i].differences : x = <<i, j>>
      BY <1>1 DEF Shown
    <3>2. x \in Shown(more) <=>
              \E i \in 1..(n + 1) : \E j \in DOMAIN more[i].differences : x = <<i, j>>
      BY <1>3 DEF Shown
    <3>3. \A i : i \in 1..(n + 1) <=> i \in 1..n \/ i = n + 1
      OBVIOUS
    <3>4. x \in added <=> \E j \in DOMAIN e.differences : x = <<n + 1, j>>
      BY <1>1
    <3> HIDE DEF added
    <3> QED BY <1>3, <3>1, <3>2, <3>3, <3>4, Zenon
  <2> QED BY <2>1
<1>5. Shown(entries) \cap added = {}
  <2>1. ASSUME NEW x \in Shown(entries), x \in added PROVE FALSE
    <3>1. PICK i \in 1..n : \E j \in DOMAIN entries[i].differences : x = <<i, j>>
      BY <1>1 DEF Shown
    <3>2. x[1] = i /\ x[1] = n + 1
      BY <2>1, <3>1
    <3> QED BY <3>2
  <2> QED BY <2>1
<1>6. IsFiniteSet(added) /\ Cardinality(added) = d
  <2>1. IsFiniteSet(1..d) /\ Cardinality(1..d) = d
    BY FS_Interval
  <2> DEFINE f == [j \in 1..d |-> <<n + 1, j>>]
  <2>2. f \in Bijection(1..d, added)
    <3>1. f \in Injection(1..d, added)
      BY DEF Injection, IsInjective
    <3>2. f \in Surjection(1..d, added)
      BY DEF Surjection
    <3> QED BY <3>1, <3>2 DEF Bijection
  <2>3. ExistsBijection(1..d, added)
    BY <2>2 DEF ExistsBijection
  <2> HIDE DEF added
  <2> QED BY <2>1, <2>3, FS_Bijection
<1> HIDE DEF added
<1>7. IsFiniteSet(Shown(more)) /\ Cardinality(Shown(more)) = Cardinality(Shown(entries)) + d
  <2>1. Cardinality(Shown(entries)) \in Nat
    BY FS_CardinalityType
  <2>2. /\ IsFiniteSet(Shown(entries) \cup added)
        /\ Cardinality(Shown(entries) \cup added) =
              Cardinality(Shown(entries)) + Cardinality(added) - Cardinality({})
    BY <1>5, <1>6, FS_Union
  <2>3. Cardinality({}) = 0
    BY FS_EmptySet
  <2> QED BY <1>4, <1>6, <2>1, <2>2, <2>3
<1> QED BY <1>1, <1>2, <1>7

\* The books of a call are kept entry by entry.
LEMMA BooksAppend ==
  ASSUME NEW entries \in Seq(Entry), NEW e \in Entry,
         NEW returned \in Nat, NEW count \in Nat, NEW remaining \in Nat,
         Books(entries, returned, count, remaining = 0),
         NEW now \in Nat, now <= remaining, now <= e.difference_count,
         Len(e.differences) = now,
         e.matches <=> e.difference_count = 0,
         e.truncated <=> now < e.difference_count,
         e.truncated => now = remaining
  PROVE  Books(Append(entries, e), returned + now, count + e.difference_count,
               remaining - now = 0)
<1>1. PICK n \in Nat, more \in Seq(Entry) :
        n = Len(entries) /\ DOMAIN entries = 1..n /\ more = Append(entries, e)
  BY LenProperties, AppendProperties
<1>2. /\ DOMAIN more = 1..(n + 1)
      /\ \A i \in 1..n : more[i] = entries[i]
      /\ more[n + 1] = e
  <2>1. /\ Append(entries, e) \in Seq(Entry) /\ Len(Append(entries, e)) = Len(entries) + 1
        /\ \A i \in 1..Len(entries) : Append(entries, e)[i] = entries[i]
        /\ Append(entries, e)[Len(entries) + 1] = e
    BY AppendProperties
  <2>2. /\ more \in Seq(Entry) /\ Len(more) = n + 1
        /\ \A i \in 1..n : more[i] = entries[i]
        /\ more[n + 1] = e
    BY <1>1, <2>1, Zenon
  <2> QED BY <2>2, LenProperties
<1>3. /\ IsFiniteSet(Shown(more)) /\ Cardinality(Shown(more)) = returned + now
  BY <1>1, ShownAppend DEF Books
<1>4. \A i : i \in 1..(n + 1) <=> i \in 1..n \/ i = n + 1
  OBVIOUS
<1>5. e.difference_count \in Nat /\ (e.differences = <<>> <=> now = 0)
      /\ e.matches \in BOOLEAN /\ e.truncated \in BOOLEAN
  <2>1. e.differences \in Seq(UNION {Paths(r) : r \in Resource})
    BY DEF Entry
  <2> QED BY <2>1, EmptySeq DEF Entry
<1>6. /\ returned <= count
      /\ count = 0 <=> \A i \in 1..n : entries[i].matches
      /\ returned < count <=> \E i \in 1..n : entries[i].truncated
      /\ \A i \in 1..n :
           /\ entries[i].matches => entries[i].differences = <<>> /\ ~entries[i].truncated
           /\ entries[i].truncated =>
                  /\ remaining = 0
                  /\ \A j \in 1..n : j > i => entries[j].differences = <<>>
  BY <1>1 DEF Books
<1>7. returned + now <= count + e.difference_count
  BY <1>5, <1>6
<1>8. count + e.difference_count = 0 <=> \A i \in 1..(n + 1) : more[i].matches
  <2>1. count + e.difference_count = 0 <=> count = 0 /\ e.difference_count = 0
    BY <1>5
  <2>2. (\A i \in 1..(n + 1) : more[i].matches) <=>
            (\A i \in 1..n : entries[i].matches) /\ e.matches
    BY <1>2, <1>4
  <2> QED BY <1>6, <2>1, <2>2
<1>9. returned + now < count + e.difference_count <=> \E i \in 1..(n + 1) : more[i].truncated
  <2>1. returned + now < count + e.difference_count <=>
            returned < count \/ now < e.difference_count
    BY <1>5, <1>6
  <2>2. (\E i \in 1..(n + 1) : more[i].truncated) <=>
            (\E i \in 1..n : entries[i].truncated) \/ e.truncated
    BY <1>2, <1>4
  <2> QED BY <1>6, <2>1, <2>2
<1>10. ASSUME NEW i \in 1..(n + 1)
       PROVE  /\ more[i].matches => more[i].differences = <<>> /\ ~more[i].truncated
              /\ more[i].truncated =>
                    /\ remaining - now = 0
                    /\ \A j \in 1..(n + 1) : j > i => more[j].differences = <<>>
  <2>1. CASE i = n + 1
    <3>1. \A j \in 1..(n + 1) : ~(j > n + 1)
      OBVIOUS
    <3> QED BY <1>2, <1>5, <2>1, <3>1
  <2>2. CASE i # n + 1
    <3>1. i \in 1..n /\ more[i] = entries[i]
      BY <1>2, <1>4, <2>2
    <3>2. ASSUME more[i].truncated
          PROVE  /\ remaining - now = 0
                 /\ \A j \in 1..(n + 1) : j > i => more[j].differences = <<>>
      <4>1. remaining = 0 /\ now = 0 /\ remaining - now = 0
        BY <1>6, <3>1, <3>2
      <4>2. e.differences = <<>>
        BY <1>5, <4>1
      <4>3. \A j \in 1..n : j > i => entries[j].differences = <<>>
        BY <1>6, <3>1, <3>2
      <4>4. ASSUME NEW j \in 1..(n + 1), j > i
            PROVE  more[j].differences = <<>>
        <5>1. CASE j = n + 1
          BY <1>2, <4>2, <5>1
        <5>2. CASE j \in 1..n
          <6>1. more[j] = entries[j]
            BY <1>2, <5>2
          <6> QED BY <4>3, <4>4, <5>2, <6>1
        <5> QED BY <1>4, <5>1, <5>2
      <4> QED BY <4>1, <4>4
    <3> QED BY <1>6, <3>1, <3>2
  <2> QED BY <2>1, <2>2
<1>11. ASSUME NEW i \in 1..(n + 1)
       PROVE  SaysWhatIsLeft(more[i])
  <2>1. SaysWhatIsLeft(e)
    BY DEF SaysWhatIsLeft
  <2>2. \A j \in 1..n : SaysWhatIsLeft(entries[j])
    BY <1>1 DEF Books
  <2> QED BY <1>2, <1>4, <2>1, <2>2
<1>12. Books(more, returned + now, count + e.difference_count, remaining - now = 0)
  BY <1>2, <1>3, <1>7, <1>8, <1>9, <1>10, <1>11 DEF Books
<1> QED BY <1>1, <1>12
-----------------------------------------------------------------------------
(* The steps. *)

\* A listing from the beginning accounts for every resource.
LEMMA InitHolds == Init => IInv
<1> SUFFICES ASSUME Init PROVE IInv
  OBVIOUS
<1>1. Basin \in Resource /\ 0 \in 0..Streams /\ 0 \in 0..MaxItems
      /\ 0 \in 0..MaxDisturbances
  BY ResourcesAssumption DEF Resource, Basin
<1>2. ConfigsOK
  <2>1. PICK set \in SUBSET {Basin, 1} :
           actual = [r \in Resource |->
               With(r, IF (IF r = Basin THEN Basin ELSE 1) \in set THEN Varied ELSE {},
                    "other")]
    BY DEF Init
  <2>2. DOMAIN actual = Resource /\ \A r \in Resource : Stored(actual[r], r)
    BY <2>1, WithOK
  <2>3. ASSUME NEW r \in Resource
        PROVE  DOMAIN desired[r] = Paths(r) /\ \A p \in Paths(r) : desired[r][p] \in Values(p)
    <3>1. desired \in Desires
      BY DEF Init
    <3>2. CASE \E fields : desired = [q \in Resource |-> With(q, fields, "other")]
      BY <3>2, WithOK DEF Stored
    <3>3. CASE desired = [q \in Resource |-> With(q, Varied \cap {"retention_policy"}, "zero")]
      BY <3>3, WithOK
    <3> QED BY <3>1, <3>2, <3>3, Zenon DEF Desires
  <2> QED BY <2>2, <2>3 DEF ConfigsOK
<1>3. ExistsOK
  BY <1>1 DEF Init, ExistsOK
<1>4. PhaseOK /\ CountersOK
  BY <1>1 DEF Init, PhaseOK, CountersOK
<1>5. todo = <<Basin>> /\ TodoOK /\ Basin \in Range(todo)
  BY <1>1 DEF Init, TodoOK, Range
<1>6. PICK none : none = <<>>
  OBVIOUS
<1>7. /\ none \in Seq(Resource) /\ none \in Seq(Entry) /\ Len(none) = 0
      /\ DOMAIN none = {} /\ 1..0 = {}
  BY <1>6, EmptySeq
<1>8. Len(todo) = 1
  BY <1>5
<1>9. /\ call = [resources |-> none, entries |-> none, count |-> 0, limit |-> 0,
                 remaining |-> 0]
      /\ pending = none
  BY <1>6 DEF Init, NoCall
<1>10. EntriesOK(none) /\ Shown(none) = {}
  BY <1>7 DEF EntriesOK, Shown
<1>11. CallOK
  BY <1>1, <1>7, <1>8, <1>9, <1>10 DEF CallOK
<1>12. BooksOK /\ PendingOK /\ ComparedOK
  <2>1. IsFiniteSet({}) /\ Cardinality({}) = 0
    BY FS_EmptySet
  <2>2. BooksOK
    BY <1>7, <1>9, <1>10, <2>1 DEF BooksOK, Books
  <2>3. PendingOK /\ ComparedOK
    BY <1>7, <1>9, <1>10 DEF PendingOK, ComparedOK
  <2> QED BY <2>2, <2>3
<1>13. NothingMissed
  <2>1. \A r \in Resource : r = Basin \/ r > 0
    BY ResourcesAssumption DEF Resource, Names, Basin
  <2>2. phase = "listing" /\ cursor = 0
    BY DEF Init
  <2> QED BY <1>3, <1>5, <2>1, <2>2 DEF NothingMissed, ExistsOK
<1>14. ReportIsHonest
  BY DEF Init, ReportIsHonest
<1> QED
  BY <1>2, <1>3, <1>4, <1>5, <1>11, <1>12, <1>13, <1>14 DEF IInv

\* Others change a resource: the client's part stands as it was.
LEMMA OthersStep ==
  ASSUME IInv, UNCHANGED <<desired, client>>, NEW r \in Resource, Touch(r),
         DOMAIN actual' = Resource, Stored(actual'[r], r),
         \A q \in Resource \ {r} : actual'[q] = actual[q],
         ExistsOK', exists' \subseteq exists \cup {r}
  PROVE  IInv'
<1>1. touched' = touched \cup {r} /\ CountersOK'
  BY ResourcesAssumption DEF IInv, CountersOK, Touch, Disturb
<1>2. ConfigsOK'
  BY DEF IInv, ConfigsOK
<1>3. UNCHANGED <<phase, cursor, todo, call, report, pending>>
  BY DEF client
<1>4. PhaseOK' /\ TodoOK' /\ CallOK' /\ BooksOK' /\ PendingOK' /\ ReportIsHonest'
  BY <1>3 DEF IInv, PhaseOK, TodoOK, CallOK, BooksOK, PendingOK, ReportIsHonest
<1>5. \A q \in Resource \ {r} : Reconciled(q)' <=> Reconciled(q)
  BY DEF Reconciled
<1>6. ComparedOK'
  <2>1. \A i \in DOMAIN call.entries : call.entries[i].resource \in Resource
    BY ElementOfSeq, LenProperties DEF IInv, CallOK, Entry
  <2> QED BY <1>1, <1>3, <1>5, <2>1 DEF IInv, ComparedOK
<1>7. NothingMissed'
  <2>1. SUFFICES ASSUME phase' \notin {"refused", "no basin"},
                        NEW q \in exists' \ touched'
                 PROVE  (\/ Reconciled(q)
                         \/ q \in Range(todo)
                         \/ phase = "listing" /\ q > cursor)'
    BY DEF NothingMissed
  <2>2. q \in exists \ touched /\ q \in Resource \ {r}
    BY <1>1, <2>1 DEF IInv, ExistsOK
  <2> QED BY <1>3, <1>5, <2>1, <2>2 DEF IInv, NothingMissed
<1> QED
  BY <1>1, <1>2, <1>4, <1>6, <1>7 DEF IInv

\* A request that is not refused stores no age of no seconds.
LEMMA ReconfigureStep ==
  ASSUME IInv, NEW r \in Resource, Reconfigure(r)
  PROVE  IInv'
<1>1. PICK node \in Varying(r) \cup Groups(r) :
       \E json \in {Null} \cup IF node \in Groups(r) THEN {Empty} ELSE Values(node) \ {"unset"} :
           LET request == [sent \in {node} |-> json]
           IN  /\ ~Refuses(request)
               /\ actual' = [actual EXCEPT ![r] = Reconfigured(@, request)]
  BY DEF Reconfigure
<1>2. PICK json \in {Null} \cup IF node \in Groups(r) THEN {Empty} ELSE Values(node) \ {"unset"} :
           /\ ~Refuses([sent \in {node} |-> json])
           /\ actual' = [actual EXCEPT ![r] = Reconfigured(@, [sent \in {node} |-> json])]
  BY <1>1
<1>3. PICK request : request = [sent \in {node} |-> json]
  OBVIOUS
<1>4. DOMAIN request = {node} /\ request[node] = json
  BY <1>3
<1>5. node \in Seq(Token) /\ Len(node) \in Nat \ {0}
  BY GroupsType, PathsType DEF Varying
<1>6. Named(request) /\ ~Refuses(request)
  BY <1>2, <1>3, <1>4, <1>5 DEF Named
<1>7. json # Empty
  BY <1>4, <1>6 DEF Refuses
<1>8. \A p \in Paths(r) \cap DOMAIN request : request[p] # Null => request[p] \in Values(p)
  BY <1>2, <1>4, <1>7
<1>9. /\ DOMAIN actual = Resource /\ Stored(actual[r], r)
  BY DEF IInv, ConfigsOK
<1>10. Stored(Reconfigured(actual[r], request), r)
  BY <1>6, <1>8, <1>9, ReconfiguredOK DEF Stored
<1>11. actual' = [actual EXCEPT ![r] = Reconfigured(actual[r], request)]
  BY <1>2, <1>3
<1>12. /\ DOMAIN actual' = Resource /\ Stored(actual'[r], r)
       /\ \A q \in Resource \ {r} : actual'[q] = actual[q]
  BY <1>9, <1>10, <1>11
<1>13. /\ UNCHANGED <<desired, client>> /\ Touch(r)
       /\ ExistsOK' /\ exists' \subseteq exists \cup {r}
  BY DEF Reconfigure, IInv, ExistsOK
<1> QED BY <1>12, <1>13, OthersStep

\* What clients send to ensure a resource and is converted can be stored.
LEMMA ConvertedOK ==
  ASSUME NEW r \in Resource, NEW config \in ConfigsSent(r), Convertible(config)
  PROVE  Stored(config, r)
<1>1. CASE \E fields : config = With(r, fields, "other")
  BY <1>1, WithOK
<1>2. CASE config = With(r, Varied \cap {"retention_policy"}, "zero")
  <2>1. PICK fields : fields = Varied \cap {"retention_policy"}
    OBVIOUS
  <2>2. /\ DOMAIN config = Paths(r)
        /\ \A p \in Paths(r) : config[p] \in Values(p)
    <3>1. fields \subseteq {"retention_policy"} /\ config = With(r, fields, "zero")
      BY <1>2, <2>1
    <3> QED BY <3>1, WithOK
  <2>3. \A p \in Paths(r) : config[p] # "zero"
    BY <2>2 DEF Convertible, Valid
  <2> QED BY <2>2, <2>3 DEF Stored
<1> QED
  BY <1>1, <1>2 DEF ConfigsSent

\* A resource is created, or changed, with what was sent.
LEMMA EnsureStep ==
  ASSUME IInv, EnsureBasin \/ \E s \in Names : EnsureStream(s)
  PROVE  IInv'
<1>1. PICK r \in Resource :
        \E config \in ConfigsSent(r) :
            /\ Convertible(config) /\ Ensured(r, config)
            /\ UNCHANGED <<desired, client>> /\ Touch(r)
            /\ r = Basin \/ Basin \in exists
  BY DEF EnsureBasin, EnsureStream, Resource
<1>2. PICK config \in ConfigsSent(r) :
            /\ Convertible(config) /\ Ensured(r, config)
            /\ UNCHANGED <<desired, client>> /\ Touch(r)
            /\ r = Basin \/ Basin \in exists
  BY <1>1
<1>3. PICK reset \in BOOLEAN :
           actual' = [actual EXCEPT ![r] = [p \in Paths(r) |->
               IF r \notin exists \/ reset \/ p \in Sent(config)
               THEN config[p] ELSE actual[r][p]]]
  BY <1>2 DEF Ensured
<1>4. /\ DOMAIN actual = Resource /\ Stored(actual[r], r) /\ Stored(config, r)
  BY <1>2, ConvertedOK DEF IInv, ConfigsOK
<1>5. /\ DOMAIN actual' = Resource /\ Stored(actual'[r], r)
      /\ \A q \in Resource \ {r} : actual'[q] = actual[q]
  BY <1>3, <1>4 DEF Stored
<1>6. exists' = exists \cup {r}
  BY <1>2 DEF Ensured
<1>7. ExistsOK' /\ exists' \subseteq exists \cup {r}
  BY <1>2, <1>6 DEF IInv, ExistsOK
<1> QED BY <1>2, <1>5, <1>7, OthersStep

\* What is deleted has nothing to be reconciled.
LEMMA DeleteStep ==
  ASSUME IInv, DeleteBasin \/ \E s \in Names : DeleteStream(s)
  PROVE  IInv'
<1>1. /\ DOMAIN actual = Resource /\ \A r \in Resource : Stored(actual[r], r)
  BY DEF IInv, ConfigsOK
<1>2. CASE DeleteBasin
  <2>1. /\ UNCHANGED <<desired, client>> /\ Basin \in Resource /\ Touch(Basin)
        /\ exists' \subseteq exists \cup {Basin} /\ actual' = actual /\ ExistsOK'
    BY <1>2 DEF DeleteBasin, Resource, ExistsOK
  <2> QED BY <1>1, <2>1, OthersStep
<1>3. ASSUME NEW s \in Names, DeleteStream(s)
      PROVE  IInv'
  <2>1. s \in Resource /\ s # Basin
    BY ResourcesAssumption DEF Resource, Names, Basin
  <2>2. /\ UNCHANGED <<desired, client>> /\ Touch(s)
        /\ exists' \subseteq exists \cup {s} /\ actual' = actual /\ ExistsOK'
    BY <1>3, <2>1 DEF DeleteStream, IInv, ExistsOK
  <2> QED BY <1>1, <2>1, <2>2, OthersStep
<1> QED BY <1>2, <1>3

\* Without a call there is nothing to keep books of.
LEMMA CallEnds ==
  ASSUME call' = NoCall, TodoOK'
  PROVE  CallOK' /\ BooksOK' /\ ComparedOK'
<1>1. PICK none : none = <<>>
  OBVIOUS
<1>2. /\ none \in Seq(Resource) /\ none \in Seq(Entry) /\ Len(none) = 0
      /\ DOMAIN none = {} /\ 1..0 = {}
  BY <1>1, EmptySeq
<1>3. call' = [resources |-> none, entries |-> none, count |-> 0, limit |-> 0,
               remaining |-> 0]
  BY <1>1 DEF NoCall
<1>4. 0 \in 0..MaxItems /\ Len(todo') \in Nat
  BY ResourcesAssumption, LenProperties DEF TodoOK
<1>5. EntriesOK(none) /\ Shown(none) = {}
  BY <1>2 DEF EntriesOK, Shown
<1>6. CallOK'
  BY <1>2, <1>3, <1>4, <1>5 DEF CallOK, EntriesOK
<1>7. IsFiniteSet({}) /\ Cardinality({}) = 0
  BY FS_EmptySet
<1>8. BooksOK'
  <2>1. Books(none, 0, 0, TRUE)
    BY <1>2, <1>5, <1>7 DEF Books
  <2>2. /\ call'.entries = none /\ call'.count = 0 /\ call'.limit - call'.remaining = 0
        /\ call'.remaining = 0
    BY <1>3
  <2> QED BY <2>1, <2>2 DEF BooksOK, Books, Shown
<1>9. ComparedOK'
  BY <1>2, <1>3 DEF ComparedOK
<1> QED BY <1>6, <1>8, <1>9

\* What is changed of the client's state is not the service's.
LEMMA ServiceStands ==
  ASSUME IInv, UNCHANGED <<service, desired>>
  PROVE  /\ ConfigsOK' /\ ExistsOK' /\ \A r : Reconciled(r)' <=> Reconciled(r)
         /\ exists' = exists
BY DEF IInv, ConfigsOK, ExistsOK, Reconciled, service

\* A call without an answer leaves the client with what it knew.
LEMMA CallFailsStep ==
  ASSUME IInv, CallFails \/ RefuseDesired \/ NoBasin
  PROVE  IInv'
<1>1. UNCHANGED <<service, desired, cursor, todo, report, pending, touched>>
  BY DEF CallFails, RefuseDesired, NoBasin
<1>2. ConfigsOK' /\ ExistsOK' /\ (\A r : Reconciled(r)' <=> Reconciled(r)) /\ exists' = exists
  BY <1>1, ServiceStands
<1>3. TodoOK' /\ ReportIsHonest' /\ PendingOK'
  BY <1>1 DEF IInv, TodoOK, ReportIsHonest, PendingOK
<1>4. CASE CallFails
  <2>1. call' = NoCall /\ UNCHANGED phase /\ Disturb
    BY <1>4 DEF CallFails
  <2>2. CountersOK'
    BY <1>1, <2>1, ResourcesAssumption DEF IInv, CountersOK, Disturb
  <2>3. PhaseOK'
    BY <1>1, <2>1 DEF IInv, PhaseOK
  <2>4. NothingMissed'
    BY <1>1, <1>2, <2>1 DEF IInv, NothingMissed
  <2> QED BY <1>2, <1>3, <2>1, <2>2, <2>3, <2>4, CallEnds DEF IInv
<1>5. CASE RefuseDesired
  <2>1. call' = NoCall /\ phase' = "refused" /\ UNCHANGED disturbances /\ call # NoCall
    BY <1>5 DEF RefuseDesired, Reading
  <2>2. CountersOK'
    BY <1>1, <2>1 DEF IInv, CountersOK
  <2>3. PhaseOK' /\ NothingMissed'
    BY <1>1, <2>1 DEF IInv, PhaseOK, NothingMissed, Final
  <2> QED BY <1>2, <1>3, <2>1, <2>2, <2>3, CallEnds DEF IInv
<1>6. CASE NoBasin
  <2>1. UNCHANGED <<call, disturbances>> /\ phase' = "no basin" /\ phase = "listing"
    BY <1>6 DEF NoBasin
  <2>2. CountersOK'
    BY <1>1, <2>1 DEF IInv, CountersOK
  <2>3. PhaseOK' /\ NothingMissed'
    BY <1>1, <2>1 DEF IInv, PhaseOK, NothingMissed, Final
  <2>4. call' = NoCall
    BY <2>1 DEF IInv, PhaseOK
  <2> QED BY <1>2, <1>3, <2>2, <2>3, <2>4, CallEnds DEF IInv
<1> QED BY <1>4, <1>5, <1>6

\* The resource that is compared next is one that is left to do.
LEMMA ReadingOne ==
  ASSUME IInv, Reading
  PROVE  /\ Current \in Resource /\ Current \in Range(todo) /\ phase = "comparing"
         /\ Len(call.entries) + 1 \in 1..Len(call.resources)
         /\ call.resources[Len(call.entries) + 1] = Current
<1>1. /\ call # NoCall /\ Len(call.entries) < Len(call.resources)
      /\ Len(call.entries) \in Nat /\ Len(call.resources) \in Nat /\ Len(todo) \in Nat
      /\ call.resources \in Seq(Resource) /\ todo \in Seq(Resource)
  <2>1. call.entries \in Seq(Entry) /\ call.resources \in Seq(Resource) /\ todo \in Seq(Resource)
    BY DEF IInv, CallOK, TodoOK
  <2> QED BY <2>1, LenProperties DEF Reading
<1>2. Len(call.entries) + 1 \in 1..Len(call.resources)
  BY <1>1
<1>3. Current \in Resource
  BY <1>1, <1>2, ElementOfSeq DEF Current
<1>4. Current \in Range(todo)
  <2>1. todo[Len(call.entries) + 1] = Current
    BY <1>2 DEF IInv, CallOK, Current
  <2>2. Len(call.entries) + 1 \in DOMAIN todo
    <3>1. Len(call.resources) <= Len(todo)
      BY DEF IInv, CallOK
    <3> QED BY <1>1, <1>2, <3>1, LenProperties
  <2> QED BY <2>1, <2>2 DEF Range
<1> QED
  BY <1>1, <1>2, <1>3, <1>4 DEF IInv, PhaseOK, Current

\* The client lists again from the beginning, and misses nothing.
LEMMA NotFoundStep ==
  ASSUME IInv, NotFound
  PROVE  IInv'
<1>1. /\ UNCHANGED <<service, desired, cursor, report, pending, disturbances, touched>>
      /\ call' = NoCall /\ phase' = "listing" /\ todo' = <<Basin>> /\ Reading /\ call # NoCall
  BY DEF NotFound, Reading
<1>2. ConfigsOK' /\ ExistsOK' /\ (\A r : Reconciled(r)' <=> Reconciled(r)) /\ exists' = exists
  BY <1>1, ServiceStands
<1>3. TodoOK' /\ Basin \in Range(todo') /\ \A r \in Resource : r = Basin \/ r > 0
  BY <1>1, ResourcesAssumption DEF TodoOK, Range, Resource, Names, Basin
<1>4. cursor = 0 /\ pending = <<>>
  BY <1>1 DEF IInv, PhaseOK
<1>5. PhaseOK' /\ CountersOK' /\ ReportIsHonest'
  BY <1>1, <1>4 DEF IInv, PhaseOK, CountersOK, ReportIsHonest
<1>6. PendingOK'
  BY <1>1, <1>4, EmptySeq DEF PendingOK, EntriesOK
<1>7. NothingMissed'
  BY <1>1, <1>2, <1>3, <1>4 DEF IInv, NothingMissed, ExistsOK
<1> QED BY <1>1, <1>2, <1>3, <1>5, <1>6, <1>7, CallEnds DEF IInv

\* The elements of two sequences, one after the other.
LEMMA ConcatRange ==
  ASSUME NEW T, NEW a \in Seq(T), NEW b \in Seq(T)
  PROVE  /\ a \o b \in Seq(T) /\ Len(a \o b) = Len(a) + Len(b)
         /\ Range(a \o b) = Range(a) \cup Range(b)
         /\ \A i \in 1..Len(a) : (a \o b)[i] = a[i]
<1>1. PICK m \in Nat, n \in Nat : m = Len(a) /\ n = Len(b)
  BY LenProperties
<1>2. PICK c : c = a \o b
  OBVIOUS
<1>3. /\ c \in Seq(T) /\ Len(c) = m + n /\ DOMAIN c = 1..(m + n)
      /\ \A i \in 1..m : c[i] = a[i]
      /\ \A i \in 1..n : c[m + i] = b[i]
  <2>1. /\ a \o b \in Seq(T) /\ Len(a \o b) = m + n /\ DOMAIN (a \o b) = 1..(m + n)
        /\ \A i \in 1..m : (a \o b)[i] = a[i]
        /\ \A i \in 1..n : (a \o b)[m + i] = b[i]
    BY <1>1, Concat
  <2> QED BY <1>2, <2>1, Zenon
<1>4. DOMAIN a = 1..m /\ DOMAIN b = 1..n
  BY <1>1, LenProperties
<1>5. /\ \A i \in 1..m : i \in 1..(m + n)
      /\ \A i \in 1..n : m + i \in 1..(m + n)
      /\ \A i \in 1..(m + n) : i \in 1..m \/ (i - m \in 1..n /\ m + (i - m) = i)
  OBVIOUS
<1>6. ASSUME NEW x
      PROVE  x \in Range(c) <=> x \in Range(a) \/ x \in Range(b)
  <2>1. /\ x \in Range(c) <=> \E i \in 1..(m + n) : c[i] = x
        /\ x \in Range(a) <=> \E i \in 1..m : a[i] = x
        /\ x \in Range(b) <=> \E i \in 1..n : b[i] = x
    BY <1>3, <1>4 DEF Range
  <2> QED BY <1>3, <1>5, <2>1
<1>7. Range(c) = Range(a) \cup Range(b)
  BY <1>6
<1> QED BY <1>1, <1>2, <1>3, <1>7, Zenon

\* What a page leaves out comes after its last name.
LEMMA ListStreamsStep ==
  ASSUME IInv, ListStreams
  PROVE  IInv'
<1> DEFINE after == {n \in exists \ {Basin} : n > cursor}
<1>1. PICK sorted : sorted = Ascending[after]
  OBVIOUS
<1>2. PICK n \in 1..MaxPage :
        LET page == SubSeq(sorted, 1, IF n < Len(sorted) THEN n ELSE Len(sorted))
        IN  /\ todo' = todo \o page
            /\ cursor' = NextCursor(page, after \ Range(page))
  BY <1>1 DEF ListStreams
<1>3. /\ phase = "listing"
      /\ phase' = IF cursor' = 0 THEN "comparing" ELSE "listing"
      /\ UNCHANGED <<service, desired, call, report, pending, disturbances, touched>>
  BY DEF ListStreams
<1>4. /\ after \in SUBSET (1..Streams) /\ after \in SUBSET Nat /\ IsFiniteSet(after)
      /\ cursor \in Nat
  <2>1. Streams \in Int /\ cursor \in Nat
    BY ResourcesAssumption DEF IInv, PhaseOK
  <2>2. after \in SUBSET (1..Streams)
    BY DEF IInv, ExistsOK, Resource, Names
  <2>3. IsFiniteSet(1..Streams)
    BY <2>1, FS_Interval
  <2> QED BY <2>1, <2>2, <2>3, FS_Subset
<1> HIDE DEF after
<1>5. PICK size \in Nat : size = Cardinality(after)
  BY <1>4, FS_CardinalityType
<1>6. /\ sorted \in Seq(after) /\ Len(sorted) = size
      /\ \A i, j \in 1..size : i < j => sorted[i] < sorted[j]
      /\ \A m \in after : \E i \in 1..size : sorted[i] = m
  BY <1>1, <1>4, <1>5, AscendingOrders
<1>7. PICK k \in 0..size : /\ k = (IF n < size THEN n ELSE size)
                           /\ size # 0 => k # 0
  BY ResourcesAssumption
<1>8. PICK page : page = SubSeq(sorted, 1, k)
  OBVIOUS
<1>9. /\ page \in Seq(after) /\ Len(page) = k /\ DOMAIN page = 1..k
      /\ \A i \in 1..k : page[i] = sorted[i]
  BY <1>6, <1>8, FirstOnes, LenProperties
<1>10. todo' = todo \o page /\ cursor' = NextCursor(page, after \ Range(page))
  BY <1>2, <1>6, <1>7, <1>8
<1>11. page \in Seq(Resource)
  BY <1>4, <1>9, SeqMonotonic DEF Resource, Names
<1>12. TodoOK' /\ Range(todo') = Range(todo) \cup Range(page)
  BY <1>10, <1>11, ConcatRange DEF IInv, TodoOK
<1>13. call = NoCall /\ pending = <<>>
  BY <1>3 DEF IInv, PhaseOK
<1>14. /\ cursor' \in 0..Streams
       /\ \A r \in after : r \in Range(page) \/ (cursor' # 0 /\ r > cursor')
  <2>1. ASSUME NEW r \in after, r \notin Range(page)
        PROVE  cursor' # 0 /\ r > cursor'
    <3>1. PICK j \in 1..size : sorted[j] = r
      BY <1>6
    <3>2. j \notin 1..k
      BY <1>9, <2>1, <3>1 DEF Range
    <3>3. k \in 1..k /\ k \in 1..size /\ k < j
      BY <1>7, <3>1, <3>2
    <3>4. page # <<>> /\ after \ Range(page) # {}
      BY <1>9, <2>1, <3>3, EmptySeq
    <3>5. cursor' = sorted[k]
      BY <1>9, <1>10, <3>3, <3>4 DEF NextCursor, Last
    <3>6. sorted[k] \in after /\ sorted[k] < r
      BY <1>6, <3>1, <3>3, ElementOfSeq
    <3> QED BY <1>4, <3>5, <3>6
  <2>2. cursor' \in 0..Streams
    <3>1. cursor' = 0 \/ (page # <<>> /\ cursor' = Last(page))
      BY <1>10 DEF NextCursor
    <3>2. page # <<>> => Last(page) \in after
      <4>1. page # <<>> => Len(page) \in 1..Len(page)
        BY <1>9, EmptySeq
      <4> QED BY <1>9, <4>1, ElementOfSeq DEF Last
    <3>3. cursor' = 0 \/ cursor' \in after
      BY <3>1, <3>2
    <3>4. cursor' = 0 \/ cursor' \in 1..Streams
      BY <1>4, <3>3
    <3>5. Streams \in Nat
      BY ResourcesAssumption
    <3> QED BY <3>4, <3>5
  <2> QED BY <2>1, <2>2
<1>15. ConfigsOK' /\ ExistsOK' /\ (\A r : Reconciled(r)' <=> Reconciled(r)) /\ exists' = exists
  BY <1>3, ServiceStands
<1>16. PhaseOK'
  BY <1>3, <1>13, <1>14 DEF PhaseOK
<1>17. CountersOK' /\ ReportIsHonest'
  BY <1>3 DEF IInv, CountersOK, ReportIsHonest
<1>18. PendingOK'
  BY <1>3, <1>12 DEF IInv, PendingOK
<1>19. NothingMissed'
  <2>1. SUFFICES ASSUME NEW r \in exists \ touched, ~Reconciled(r), r \notin Range(todo')
                 PROVE  phase' = "listing" /\ r > cursor'
    BY <1>3, <1>15 DEF NothingMissed
  <2>2. r > cursor
    BY <1>3, <1>12, <2>1 DEF IInv, NothingMissed
  <2>3. r \in after
    BY <1>4, <2>1, <2>2 DEF after, Basin
  <2> QED BY <1>3, <1>12, <1>14, <2>1, <2>3
<1> QED
  BY <1>3, <1>12, <1>13, <1>15, <1>16, <1>17, <1>18, <1>19, CallEnds DEF IInv

\* A call is for the first resources left to do.
LEMMA StartDiffStep ==
  ASSUME IInv, StartDiff
  PROVE  IInv'
<1>1. PICK k : k = (IF Len(todo) < MaxResources THEN Len(todo) ELSE MaxResources)
  OBVIOUS
<1>2. PICK limit \in 1..MaxItems :
        call' = [NoCall EXCEPT !.resources = SubSeq(todo, 1, k),
                               !.limit = limit, !.remaining = limit]
  BY <1>1 DEF StartDiff
<1>3. /\ UNCHANGED <<service, desired, phase, cursor, todo, pending, disturbances, touched>>
      /\ phase = "comparing" /\ pending = <<>> /\ call = NoCall /\ report' = NoReport
  BY DEF StartDiff
<1>4. todo \in Seq(Resource) /\ Len(todo) \in Nat /\ k \in 0..Len(todo)
  BY <1>1, ResourcesAssumption, LenProperties DEF IInv, TodoOK
<1>5. PICK first : first = SubSeq(todo, 1, k)
  OBVIOUS
<1>6. first \in Seq(Resource) /\ Len(first) = k /\ \A i \in 1..k : first[i] = todo[i]
  BY <1>4, <1>5, FirstOnes
<1>7. PICK none : none = <<>>
  OBVIOUS
<1>8. /\ none \in Seq(Entry) /\ Len(none) = 0 /\ DOMAIN none = {} /\ 1..0 = {}
  BY <1>7, EmptySeq
<1>9. call' = [resources |-> first, entries |-> none, count |-> 0, limit |-> limit,
               remaining |-> limit]
  BY <1>2, <1>5, <1>7 DEF NoCall
<1>10. limit \in Nat /\ limit \in 0..MaxItems /\ limit - limit = 0 /\ 0 <= k
  BY <1>4, ResourcesAssumption
<1>11. EntriesOK(none) /\ Shown(none) = {}
  BY <1>8 DEF EntriesOK, Shown
<1>12. CallOK'
  BY <1>3, <1>4, <1>6, <1>8, <1>9, <1>10, <1>11 DEF CallOK, EntriesOK
<1>13. BooksOK'
  <2>1. IsFiniteSet({}) /\ Cardinality({}) = 0
    BY FS_EmptySet
  <2>2. Books(none, 0, 0, limit = 0)
    BY <1>8, <1>11, <2>1 DEF Books
  <2>3. /\ call'.entries = none /\ call'.count = 0 /\ call'.limit - call'.remaining = 0
        /\ call'.remaining = limit
    BY <1>9, <1>10
  <2> QED BY <2>2, <2>3 DEF BooksOK, Books, Shown
<1>14. ComparedOK'
  BY <1>8, <1>9 DEF ComparedOK
<1>15. ConfigsOK' /\ ExistsOK' /\ (\A r : Reconciled(r)' <=> Reconciled(r)) /\ exists' = exists
  BY <1>3, ServiceStands
<1>16. PhaseOK' /\ TodoOK' /\ CountersOK' /\ PendingOK' /\ NothingMissed'
  BY <1>3, <1>15 DEF IInv, PhaseOK, TodoOK, CountersOK, PendingOK, NothingMissed
<1>17. ReportIsHonest'
  <2>1. NoReport' = NoReport
    BY DEF NoReport
  <2> QED BY <1>3, <2>1 DEF ReportIsHonest
<1> QED
  BY <1>12, <1>13, <1>14, <1>15, <1>16, <1>17 DEF IInv

\* A comparison adds an entry, which says whether the resource is as wanted.
LEMMA CompareStep ==
  ASSUME IInv, Compare
  PROVE  IInv'
<1>1. PICK r \in Resource : r = Current
  BY ReadingOne DEF Compare
<1>2. PICK d : d = Differences(r, actual[r], desired[r])
  OBVIOUS
<1>3. PICK now : now = Returned(d)
  OBVIOUS
<1>4. PICK e : e = [resource |-> r, matches |-> d = <<>>, difference_count |-> Len(d),
                    differences |-> SubSeq(d, 1, now), truncated |-> now < Len(d)]
  OBVIOUS
<1>5. call' = [call EXCEPT !.count = @ + Len(d), !.remaining = @ - now,
                           !.entries = Append(@, e)]
  BY <1>1, <1>2, <1>3, <1>4, Zenon DEF Compare
<1>6. /\ UNCHANGED <<service, desired, phase, cursor, todo, report, pending, disturbances>>
      /\ touched' = touched \ {r} /\ r \in exists /\ Reading
  BY <1>1 DEF Compare
<1>7. /\ call \in [resources : Seq(Resource), entries : Seq(Entry), count : Nat,
                   limit : 0..MaxItems, remaining : Nat]
      /\ call.remaining <= call.limit /\ EntriesOK(call.entries)
      /\ Len(call.entries) <= Len(call.resources) /\ Len(call.resources) <= Len(todo)
      /\ \A i \in 1..Len(call.resources) : call.resources[i] = todo[i]
      /\ \A i \in 1..Len(call.entries) : call.entries[i].resource = call.resources[i]
  BY DEF IInv, CallOK
<1>8. /\ r \in Range(todo) /\ phase = "comparing" /\ call # NoCall /\ pending = <<>>
      /\ Len(call.entries) + 1 \in 1..Len(call.resources)
      /\ call.resources[Len(call.entries) + 1] = r
  BY <1>1, <1>6, ReadingOne DEF Reading, IInv, PhaseOK
<1>9. /\ d \in Seq(Paths(r)) /\ Len(d) \in Nat
      /\ d = <<>> => Reconciled(r)
      /\ d = <<>> <=> Len(d) = 0
  <2>1. DOMAIN actual[r] = Paths(r) /\ DOMAIN desired[r] = Paths(r)
    BY DEF IInv, ConfigsOK, Stored
  <2>2. d \in Seq(Paths(r)) /\ (d = <<>> => Effective(actual[r]) = Effective(desired[r]))
    BY <1>2, <2>1, DifferencesOK
  <2> QED BY <2>2, LenProperties, EmptySeq DEF Reconciled
<1>10. PICK remaining \in Nat, limit \in Nat, count \in Nat, entries \in Seq(Entry) :
          /\ remaining = call.remaining /\ limit = call.limit /\ count = call.count
          /\ entries = call.entries /\ remaining <= limit
  <2>1. call.limit \in Nat
    BY <1>7, ResourcesAssumption
  <2> QED BY <1>7, <2>1
<1>11. /\ now \in Nat /\ now <= remaining /\ now <= Len(d) /\ now \in 0..Len(d)
       /\ now < Len(d) => now = remaining
  BY <1>3, <1>9, <1>10 DEF Returned
<1>12. PICK shown : shown = SubSeq(d, 1, now)
  OBVIOUS
<1>13. shown \in Seq(Paths(r)) /\ Len(shown) = now
  BY <1>9, <1>11, <1>12, FirstOnes
<1>14. /\ shown \in Seq(UNION {Paths(q) : q \in Resource})
       /\ Range(shown) \subseteq Paths(r)
  <2>1. Paths(r) \subseteq UNION {Paths(q) : q \in Resource}
    OBVIOUS
  <2>2. shown \in Seq(UNION {Paths(q) : q \in Resource})
    BY <1>13, <2>1, SeqMonotonic
  <2>3. \A i \in 1..Len(shown) : shown[i] \in Paths(r)
    BY <1>13, ElementOfSeq
  <2>4. DOMAIN shown = 1..Len(shown)
    BY <1>13, LenProperties
  <2> QED BY <2>2, <2>3, <2>4 DEF Range
<1>15. /\ e.resource = r /\ e.matches \in BOOLEAN /\ e.truncated \in BOOLEAN
       /\ e.difference_count = Len(d) /\ e.differences = shown
       /\ e.matches <=> d = <<>>
       /\ e.truncated <=> now < Len(d)
  <2>1. e.resource = r /\ e.difference_count = Len(d) /\ e.differences = shown
    BY <1>4, <1>12
  <2>2. e.matches = (d = <<>>) /\ e.truncated = (now < Len(d))
    BY <1>4, Zenon
  <2>3. e.matches \in BOOLEAN /\ (e.matches <=> d = <<>>)
    BY <2>2
  <2>4. e.truncated \in BOOLEAN /\ (e.truncated <=> now < Len(d))
    <3>1. PICK length \in Nat, cut \in {e.truncated} : length = Len(d) /\ cut = e.truncated
      BY <1>9
    <3>2. cut = (now < length)
      BY <2>2, <3>1, Zenon
    <3>3. now \in Nat
      BY <1>11
    <3>4. cut \in BOOLEAN
      BY <3>2, <3>3
    <3>5. cut <=> now < length
      BY <3>2, <3>3
    <3> QED BY <3>1, <3>4, <3>5, Zenon
  <2> QED BY <2>1, <2>3, <2>4
<1>16. e \in Entry
  <2>1. e = [resource |-> e.resource, matches |-> e.matches,
             difference_count |-> e.difference_count,
             differences |-> e.differences, truncated |-> e.truncated]
    BY <1>4
  <2> QED BY <1>9, <1>14, <1>15, <2>1 DEF Entry
<1>17. PICK more : more = Append(entries, e)
  OBVIOUS
<1>18. PICK n \in Nat : n = Len(entries)
  BY LenProperties
<1>19. /\ more \in Seq(Entry) /\ Len(more) = n + 1 /\ DOMAIN more = 1..(n + 1)
       /\ \A i \in 1..n : more[i] = entries[i]
       /\ more[n + 1] = e /\ DOMAIN entries = 1..n
  <2>1. /\ Append(entries, e) \in Seq(Entry) /\ Len(Append(entries, e)) = Len(entries) + 1
        /\ \A i \in 1..Len(entries) : Append(entries, e)[i] = entries[i]
        /\ Append(entries, e)[Len(entries) + 1] = e
    BY <1>16, AppendProperties
  <2>2. /\ more \in Seq(Entry) /\ Len(more) = n + 1
        /\ \A i \in 1..n : more[i] = entries[i]
        /\ more[n + 1] = e
    BY <1>17, <1>18, <2>1, Zenon
  <2> QED BY <1>18, <2>2, LenProperties
<1>20. /\ call'.entries = more /\ call'.count = count + Len(d)
       /\ call'.remaining = remaining - now /\ call'.limit = limit
       /\ call'.resources = call.resources
       /\ call' \in [resources : Seq(Resource), entries : Seq(Entry), count : Nat,
                     limit : 0..MaxItems, remaining : Nat]
  <2>1. /\ call'.entries = more /\ call'.count = count + Len(d)
        /\ call'.remaining = remaining - now /\ call'.limit = limit
        /\ call'.resources = call.resources
    BY <1>5, <1>7, <1>10, <1>17
  <2>2. call' = [resources |-> call'.resources, entries |-> call'.entries,
                 count |-> call'.count, limit |-> call'.limit,
                 remaining |-> call'.remaining]
    BY <1>5, <1>7
  <2>3. count + Len(d) \in Nat /\ remaining - now \in Nat
    BY <1>9, <1>11
  <2> QED BY <1>7, <1>10, <1>19, <2>1, <2>2, <2>3
<1>21. \A i : i \in 1..(n + 1) <=> i \in 1..n \/ i = n + 1
  OBVIOUS
<1>22. EntriesOK(more)
  <2>1. \A i \in 1..n : Range(entries[i].differences) \subseteq Paths(entries[i].resource)
    BY <1>7, <1>10, <1>19 DEF EntriesOK
  <2> QED BY <1>14, <1>15, <1>19, <1>21, <2>1 DEF EntriesOK
<1>23. CallOK'
  <2>1. n + 1 <= Len(call.resources)
    <3>1. Len(call.resources) \in Nat
      BY <1>7, LenProperties
    <3> QED BY <1>8, <1>10, <1>18, <3>1
  <2>2. \A i \in 1..(n + 1) : more[i].resource = call.resources[i]
    BY <1>7, <1>8, <1>10, <1>15, <1>18, <1>19, <1>21
  <2>3. remaining - now <= limit
    BY <1>10, <1>11
  <2>4. EntriesOK(call'.entries)
    BY <1>20, <1>22
  <2>5. EntriesOK(call'.entries) <=> EntriesOK(call.entries)'
    BY DEF EntriesOK, Entry, Paths, Fields, Resource, Names, Basin
  <2>6. /\ call'.remaining <= call'.limit
        /\ Len(call'.entries) <= Len(call'.resources) /\ Len(call'.resources) <= Len(todo')
        /\ \A i \in 1..Len(call'.resources) : call'.resources[i] = todo'[i]
        /\ \A i \in 1..Len(call'.entries) : call'.entries[i].resource = call'.resources[i]
    BY <1>6, <1>7, <1>19, <1>20, <2>1, <2>2, <2>3
  <2> QED BY <1>20, <2>4, <2>5, <2>6 DEF CallOK
<1>24. BooksOK'
  <2>1. PICK returned \in Nat : returned = limit - remaining
    BY <1>10
  <2>2. Books(entries, returned, count, remaining = 0)
    BY <1>10, <2>1 DEF IInv, BooksOK
  <2>3. /\ now <= e.difference_count /\ Len(e.differences) = now
        /\ e.matches <=> e.difference_count = 0
        /\ e.truncated <=> now < e.difference_count
        /\ e.truncated => now = remaining
    BY <1>9, <1>11, <1>13, <1>15
  <2>4. Books(Append(entries, e), returned + now, count + e.difference_count,
              remaining - now = 0)
    BY <1>11, <1>16, <2>2, <2>3, BooksAppend
  <2>5. Books(more, returned + now, count + Len(d), remaining - now = 0)
    BY <1>15, <1>17, <2>4
  <2>6. returned + now = limit - (remaining - now)
    <3>1. now \in Nat /\ remaining \in Nat /\ limit \in Nat
      BY <1>10, <1>11
    <3> QED BY <2>1, <3>1
  <2>7. Books(call'.entries, call'.limit - call'.remaining, call'.count, call'.remaining = 0)
    BY <1>20, <2>5, <2>6
  <2> QED BY <2>7 DEF BooksOK
<1>25. ConfigsOK' /\ ExistsOK' /\ (\A q : Reconciled(q)' <=> Reconciled(q)) /\ exists' = exists
  BY <1>6, ServiceStands
<1>26. PhaseOK'
  BY <1>6, <1>8 DEF IInv, PhaseOK
<1>27. TodoOK' /\ CountersOK' /\ PendingOK' /\ ReportIsHonest'
  BY <1>6 DEF IInv, TodoOK, CountersOK, PendingOK, ReportIsHonest
<1>28. ComparedOK'
  <2>1. SUFFICES ASSUME NEW i \in 1..(n + 1)
                 PROVE  \/ more[i].resource \in touched'
                        \/ Reconciled(more[i].resource)
                        \/ \E j \in 1..(n + 1) : more[j].resource = more[i].resource
                                                 /\ ~more[j].matches
    BY <1>19, <1>20, <1>25 DEF ComparedOK
  <2>2. CASE more[i].resource = r
    BY <1>9, <1>15, <1>19, <1>21, <2>2
  <2>3. CASE more[i].resource # r
    <3>1. i \in 1..n /\ more[i] = entries[i]
      BY <1>15, <1>19, <1>21, <2>3
    <3>2. \/ entries[i].resource \in touched
          \/ Reconciled(entries[i].resource)
          \/ \E j \in 1..n : entries[j].resource = entries[i].resource /\ ~entries[j].matches
      BY <1>10, <1>19, <3>1 DEF IInv, ComparedOK
    <3> QED BY <1>6, <1>19, <1>21, <2>3, <3>1, <3>2
  <2> QED BY <2>2, <2>3
<1>29. NothingMissed'
  BY <1>6, <1>8, <1>25 DEF IInv, NothingMissed
<1> QED
  BY <1>23, <1>24, <1>25, <1>26, <1>27, <1>28, <1>29 DEF IInv

\* What is left of a sequence after its first elements.
LEMMA LastOnes ==
  ASSUME NEW T, NEW seq \in Seq(T), NEW n \in 0..Len(seq)
  PROVE  /\ SubSeq(seq, n + 1, Len(seq)) \in Seq(T)
         /\ \A i \in 1..Len(seq) : i > n => seq[i] \in Range(SubSeq(seq, n + 1, Len(seq)))
<1>1. PICK a \in Nat, b \in Nat : a = n + 1 /\ b = Len(seq) /\ a <= b + 1
  <2>1. n + 1 \in Nat /\ Len(seq) \in Nat /\ n + 1 <= Len(seq) + 1
    <3>1. Len(seq) \in Nat
      BY LenProperties
    <3> QED BY <3>1
  <2> QED BY <2>1, Zenon
<1>2. \A i \in a..b : seq[i] \in T
  <2>1. \A i \in a..b : i \in 1..Len(seq)
    BY <1>1
  <2> QED BY <2>1, ElementOfSeq
<1>3. /\ SubSeq(seq, a, b) \in Seq(T)
      /\ Len(SubSeq(seq, a, b)) = (IF a <= b THEN b - a + 1 ELSE 0)
      /\ \A i \in 1..(b - a + 1) : SubSeq(seq, a, b)[i] = seq[a + i - 1]
  BY <1>1, <1>2, SubSeqProperties
<1>4. PICK slice : slice = SubSeq(seq, a, b)
  OBVIOUS
<1>5. DOMAIN slice = 1..(b - a + 1)
  <2>1. Len(slice) = b - a + 1
    BY <1>1, <1>3, <1>4
  <2>2. slice \in Seq(T)
    BY <1>3, <1>4
  <2> QED BY <2>1, <2>2, LenProperties
<1>6. ASSUME NEW i \in 1..Len(seq), i > n
      PROVE  seq[i] \in Range(slice)
  <2>1. PICK j \in 1..(b - a + 1) : a + j - 1 = i
    <3>1. i - n \in 1..(b - a + 1) /\ a + (i - n) - 1 = i
      BY <1>1, <1>6
    <3> QED BY <3>1
  <2>2. slice[j] = seq[i]
    BY <1>3, <1>4, <2>1
  <2> QED BY <1>5, <2>2 DEF Range
<1>7. slice = SubSeq(seq, n + 1, Len(seq)) /\ slice \in Seq(T)
  BY <1>1, <1>3, <1>4
<1> QED BY <1>6, <1>7

\* The answer keeps what does not match among what is left to do.
LEMMA ReportStep ==
  ASSUME IInv, Report
  PROVE  IInv'
<1> DEFINE bad == {i \in DOMAIN call.entries : ~call.entries[i].matches}
<1>1. PICK rest : rest = SubSeq(todo, Len(call.resources) + 1, Len(todo))
  OBVIOUS
<1>2. PICK open : open = At(call.entries, bad)
  OBVIOUS
<1>3. PICK names : names = [i \in DOMAIN open |-> open[i].resource]
  OBVIOUS
<1>4. PICK returned : returned = call.limit - call.remaining
  OBVIOUS
<1>5. /\ report' = [resources |-> call.entries, difference_count |-> call.count,
                    returned_items |-> returned, matches |-> call.count = 0,
                    truncated |-> returned < call.count, limit |-> call.limit]
      /\ todo' = rest \o names /\ pending' = open
      /\ phase' = (IF todo' = <<>> THEN "done" ELSE phase)
  BY <1>1, <1>2, <1>3, <1>4 DEF Report
<1>6. /\ call' = NoCall /\ call # NoCall /\ ~Reading
      /\ UNCHANGED <<service, desired, cursor, disturbances, touched>>
  BY DEF Report
<1>7. /\ call \in [resources : Seq(Resource), entries : Seq(Entry), count : Nat,
                   limit : 0..MaxItems, remaining : Nat]
      /\ call.remaining <= call.limit /\ EntriesOK(call.entries)
      /\ Len(call.entries) <= Len(call.resources) /\ Len(call.resources) <= Len(todo)
      /\ \A i \in 1..Len(call.resources) : call.resources[i] = todo[i]
      /\ \A i \in 1..Len(call.entries) : call.entries[i].resource = call.resources[i]
  BY DEF IInv, CallOK
<1>8. PICK entries \in Seq(Entry), k \in Nat :
        /\ entries = call.entries /\ DOMAIN entries = 1..k
        /\ Len(entries) = k /\ Len(call.resources) = k /\ k \in 0..Len(todo)
        /\ \A i \in 1..k : entries[i].resource = todo[i]
  <2>1. /\ call.entries \in Seq(Entry) /\ call.resources \in Seq(Resource)
        /\ todo \in Seq(Resource)
    BY <1>7 DEF IInv, TodoOK
  <2>2. /\ Len(call.entries) \in Nat /\ DOMAIN call.entries = 1..Len(call.entries)
        /\ Len(call.resources) \in Nat /\ Len(todo) \in Nat
    BY <2>1, LenProperties
  <2>3. Len(call.entries) = Len(call.resources)
    BY <1>6, <1>7, <2>2 DEF Reading
  <2> QED BY <1>7, <2>1, <2>2, <2>3
<1>9. /\ rest \in Seq(Resource)
      /\ \A x \in Range(todo) : x \in Range(rest) \/ \E i \in 1..k : entries[i].resource = x
  <2>1. /\ todo \in Seq(Resource) /\ Len(todo) \in Nat /\ DOMAIN todo = 1..Len(todo)
    BY LenProperties DEF IInv, TodoOK
  <2>2. /\ rest \in Seq(Resource)
        /\ \A i \in 1..Len(todo) : i > k => todo[i] \in Range(rest)
    BY <1>1, <1>8, <2>1, LastOnes
  <2>3. \A i \in 1..Len(todo) : i > k \/ i \in 1..k
    BY <2>1
  <2>4. ASSUME NEW x \in Range(todo)
        PROVE  x \in Range(rest) \/ \E i \in 1..k : entries[i].resource = x
    <3>1. PICK i \in 1..Len(todo) : todo[i] = x
      BY <2>1 DEF Range
    <3> QED BY <1>8, <2>2, <2>3, <3>1
  <2> QED BY <2>2, <2>4
<1>10. /\ open \in Seq(Entry)
       /\ open # <<>> => \E i \in 1..k : ~entries[i].matches
       /\ \A i \in 1..Len(open) : \E p \in 1..k : open[i] = entries[p]
       /\ \A p \in 1..k : ~entries[p].matches => \E i \in 1..Len(open) : open[i] = entries[p]
  <2>1. bad \in SUBSET (DOMAIN entries) /\ open = At(entries, bad)
    BY <1>2, <1>8
  <2>2. \A p : p \in bad <=> p \in 1..k /\ ~entries[p].matches
    BY <1>8
  <2> HIDE DEF bad
  <2>3. PICK places \in SUBSET (DOMAIN entries) : places = bad
    BY <2>1
  <2>4. /\ At(entries, places) \in Seq(Entry)
        /\ At(entries, places) = <<>> => places = {}
        /\ places = {} => At(entries, places) = <<>>
        /\ \A i \in 1..Len(At(entries, places)) :
               \E p \in places : At(entries, places)[i] = entries[p]
        /\ \A p \in places :
               \E i \in 1..Len(At(entries, places)) : At(entries, places)[i] = entries[p]
    BY AtPicks
  <2>5. open = At(entries, places) /\ \A p : p \in places <=> p \in 1..k /\ ~entries[p].matches
    BY <2>1, <2>2, <2>3
  <2>6. /\ open \in Seq(Entry) /\ (places = {} => open = <<>>)
        /\ \A i \in 1..Len(open) : \E p \in places : open[i] = entries[p]
        /\ \A p \in places : \E i \in 1..Len(open) : open[i] = entries[p]
    BY <2>4, <2>5, Zenon
  <2>7. open # <<>> => \E i \in 1..k : ~entries[i].matches
    BY <2>5, <2>6
  <2>8. ASSUME NEW i \in 1..Len(open)
        PROVE  \E p \in 1..k : open[i] = entries[p]
    <3>1. PICK p \in places : open[i] = entries[p]
      BY <2>6
    <3>2. p \in 1..k
      BY <2>5
    <3> QED BY <3>1, <3>2
  <2>9. \A p \in 1..k : ~entries[p].matches => \E i \in 1..Len(open) : open[i] = entries[p]
    BY <2>5, <2>6, Zenon
  <2> QED BY <2>6, <2>7, <2>8, <2>9
<1> HIDE DEF bad
<1>11. PICK n \in Nat : n = Len(open) /\ DOMAIN open = 1..n
  BY <1>10, LenProperties
<1>12. /\ names \in Seq(Resource) /\ DOMAIN names = 1..n
       /\ \A i \in 1..n : names[i] = open[i].resource
  <2>1. \A i \in 1..n : open[i] \in Entry
    BY <1>10, <1>11, ElementOfSeq
  <2>2. \A i \in 1..n : open[i].resource \in Resource
    BY <2>1 DEF Entry
  <2>3. names = [i \in 1..n |-> open[i].resource]
    BY <1>3, <1>11
  <2>4. names \in [1..n -> Resource]
    BY <2>2, <2>3
  <2> QED BY <2>3, <2>4
<1>13. TodoOK' /\ Range(todo') = Range(rest) \cup Range(names)
  BY <1>5, <1>9, <1>12, ConcatRange DEF TodoOK
<1>14. ASSUME NEW p \in 1..k, ~entries[p].matches
       PROVE  entries[p].resource \in Range(names)
  <2>1. PICK i \in 1..Len(open) : open[i] = entries[p]
    BY <1>10, <1>14
  <2>2. i \in DOMAIN names /\ names[i] = entries[p].resource
    BY <1>11, <1>12, <2>1
  <2> QED BY <2>2 DEF Range
<1>15. \A i \in 1..n : open[i].resource \in Range(todo')
  BY <1>12, <1>13 DEF Range
<1>16. ConfigsOK' /\ ExistsOK' /\ (\A r : Reconciled(r)' <=> Reconciled(r)) /\ exists' = exists
  BY <1>6, ServiceStands
<1>17. cursor = 0 /\ phase = "comparing"
  BY <1>6 DEF IInv, PhaseOK
<1>18. PhaseOK'
  <2>1. open # <<>> => todo' # <<>>
    <3>1. ASSUME open # <<>> PROVE Range(todo') # {}
      BY <1>10, <1>13, <1>14, <3>1
    <3>2. Range(<<>>) = {}
      BY DEF Range
    <3> QED BY <3>1, <3>2
  <2> QED BY <1>5, <1>6, <1>17, <2>1, ResourcesAssumption DEF PhaseOK, IInv, Final
<1>19. PendingOK'
  <2>1. EntriesOK(open)
    <3>1. \A p \in 1..k : Range(entries[p].differences) \subseteq Paths(entries[p].resource)
      BY <1>7, <1>8 DEF EntriesOK
    <3> QED BY <1>10, <1>11, <3>1 DEF EntriesOK
  <2>2. EntriesOK(pending')
    BY <1>5, <2>1
  <2>3. EntriesOK(pending') <=> EntriesOK(pending)'
    BY DEF EntriesOK, Entry, Paths, Fields, Resource, Names, Basin
  <2> QED BY <1>5, <1>11, <1>15, <2>2, <2>3 DEF PendingOK
<1>20. NothingMissed'
  <2>1. SUFFICES ASSUME NEW r \in exists \ touched
                 PROVE  Reconciled(r) \/ r \in Range(todo')
    BY <1>6, <1>16 DEF NothingMissed
  <2>2. Reconciled(r) \/ r \in Range(todo)
    BY <1>17 DEF IInv, NothingMissed
  <2>3. ASSUME NEW i \in 1..k, entries[i].resource = r, ~Reconciled(r)
        PROVE  r \in Range(names)
    BY <1>8, <1>14, <2>1, <2>3 DEF IInv, ComparedOK
  <2> QED BY <1>9, <1>13, <2>2, <2>3
<1>21. ReportIsHonest'
  <2>1. PICK count \in Nat : count = call.count
    BY <1>7
  <2>2. /\ returned \in Nat /\ returned <= call.limit
        /\ call.remaining = 0 => returned = call.limit
    BY <1>4, <1>7, ResourcesAssumption
  <2>3. Books(entries, returned, count, call.remaining = 0)
    BY <1>4, <1>8, <2>1 DEF IInv, BooksOK
  <2>4. /\ report'.resources = entries /\ report'.returned_items = returned
        /\ report'.matches <=> count = 0
        /\ report'.truncated <=> returned < count
        /\ report'.limit = call.limit
    BY <1>5, <1>8, <2>1, <2>2
  <2>5. /\ Cardinality(Shown(report'.resources)) = report'.returned_items
        /\ report'.returned_items <= report'.limit
    BY <2>2, <2>3, <2>4 DEF Books
  <2>6. /\ report'.matches <=> \A i \in DOMAIN entries : entries[i].matches
        /\ report'.truncated <=> \E i \in DOMAIN entries : entries[i].truncated
    BY <2>3, <2>4 DEF Books
  <2>7. \A i \in DOMAIN entries :
               /\ entries[i].matches =>
                      entries[i].differences = <<>> /\ ~entries[i].truncated
               /\ entries[i].truncated =>
                      \A j \in DOMAIN entries : j > i => entries[j].differences = <<>>
    BY <2>3 DEF Books
  <2>8. Shown(report'.resources) = Shown(report.resources)'
    BY DEF Shown
  <2>9. report'.truncated => report'.returned_items = report'.limit
    <3>1. \A i \in DOMAIN entries : entries[i].truncated => call.remaining = 0
      BY <2>3 DEF Books
    <3> QED BY <2>2, <2>4, <2>6, <3>1
  <2>10. \A i \in DOMAIN entries : entries[i].truncated <=>
              Len(entries[i].differences) < entries[i].difference_count
    BY <2>3 DEF Books, SaysWhatIsLeft
  <2> QED BY <2>4, <2>5, <2>6, <2>7, <2>8, <2>9, <2>10 DEF ReportIsHonest
<1>22. CountersOK'
  BY <1>6 DEF IInv, CountersOK
<1> QED
  BY <1>6, <1>13, <1>16, <1>18, <1>19, <1>20, <1>21, <1>22, CallEnds DEF IInv

\* The first entry the client has to act on, and the others.
LEMMA PendingOnes ==
  ASSUME IInv, pending # <<>>
  PROVE  /\ Head(pending).resource \in Resource
         /\ Head(pending).resource \in Range(todo)
         /\ Range(Head(pending).differences) \subseteq Paths(Head(pending).resource)
         /\ call = NoCall /\ phase = "comparing"
         /\ EntriesOK(Tail(pending))
         /\ \A i \in DOMAIN Tail(pending) : Tail(pending)[i].resource \in Range(todo)
<1>1. /\ pending \in Seq(Entry) /\ EntriesOK(pending)
      /\ \A i \in DOMAIN pending : pending[i].resource \in Range(todo)
  BY DEF IInv, PendingOK, EntriesOK
<1>2. PICK n \in Nat : n = Len(pending) /\ DOMAIN pending = 1..n /\ n # 0
  BY <1>1, LenProperties, EmptySeq
<1>3. PICK tail : tail = Tail(pending)
  OBVIOUS
<1>4. /\ tail \in Seq(Entry) /\ DOMAIN tail = 1..(n - 1)
      /\ \A i \in 1..(n - 1) : tail[i] = pending[i + 1]
      /\ Head(pending) = pending[1]
  <2>1. /\ Tail(pending) \in Seq(Entry) /\ Len(Tail(pending)) = Len(pending) - 1
        /\ \A i \in 1..(Len(pending) - 1) : Tail(pending)[i] = pending[i + 1]
    BY <1>1, HeadTailProperties
  <2>2. /\ tail \in Seq(Entry) /\ Len(tail) = n - 1
        /\ \A i \in 1..(n - 1) : tail[i] = pending[i + 1]
    BY <1>2, <1>3, <2>1, Zenon
  <2>3. Head(pending) = pending[1]
    BY <1>1 DEF Head
  <2> QED BY <2>2, <2>3, LenProperties
<1>5. 1 \in 1..n /\ \A i \in 1..(n - 1) : i + 1 \in 1..n
  BY <1>2
<1>6. \A i \in 1..n : /\ pending[i] \in Entry /\ pending[i].resource \in Range(todo)
                      /\ Range(pending[i].differences) \subseteq Paths(pending[i].resource)
  BY <1>1, <1>2, ElementOfSeq DEF EntriesOK
<1>7. EntriesOK(tail) /\ \A i \in DOMAIN tail : tail[i].resource \in Range(todo)
  BY <1>4, <1>5, <1>6 DEF EntriesOK
<1>8. /\ pending[1].resource \in Resource /\ pending[1].resource \in Range(todo)
      /\ Range(pending[1].differences) \subseteq Paths(pending[1].resource)
  BY <1>5, <1>6 DEF Entry
<1>9. call = NoCall /\ phase = "comparing"
  BY DEF IInv, PhaseOK
<1> QED BY <1>3, <1>4, <1>7, <1>8, <1>9

\* A change is of one resource, in the fields its entry shows.
LEMMA ChangeIs ==
  ASSUME IInv, Change, NEW r, r = Head(pending).resource
  PROVE  /\ DOMAIN actual' = Resource /\ Stored(actual'[r], r)
         /\ \A q \in Resource \ {r} : actual'[q] = actual[q]
         /\ \A p \in Paths(r) : actual'[r][p] # actual[r][p] =>
                                    p \in Range(Head(pending).differences)
<1>1. PICK fields : fields = Range(Head(pending).differences)
  OBVIOUS
<1>2. r \in Resource /\ fields \in SUBSET Paths(r) /\ pending # <<>>
  BY <1>1, PendingOnes DEF Change
<1>3. PICK request : request = Request(r, fields)
  OBVIOUS
<1>4. actual' = IF Refuses(request) \/ r \notin exists THEN actual
                ELSE [actual EXCEPT ![r] = Reconfigured(@, request)]
  BY <1>1, <1>3 DEF Change
<1>5. /\ DOMAIN actual = Resource /\ Stored(actual[r], r)
      /\ DOMAIN desired[r] = Paths(r)
      /\ \A p \in Paths(r) : desired[r][p] \in Values(p)
  BY <1>2 DEF IInv, ConfigsOK
<1>6. CASE Refuses(request) \/ r \notin exists
  BY <1>4, <1>5, <1>6
<1>7. CASE ~(Refuses(request) \/ r \notin exists)
  <2>1. /\ Named(request) /\ DOMAIN request = fields
        /\ \A p \in Paths(r) \cap fields : request[p] # Null => request[p] \in Values(p)
    BY <1>2, <1>3, <1>5, RequestOK
  <2>2. Stored(Reconfigured(actual[r], request), r)
    BY <1>2, <1>5, <1>7, <2>1, ReconfiguredOK DEF Stored
  <2>3. \A p \in Paths(r) : Reconfigured(actual[r], request)[p] # actual[r][p] => p \in fields
    <3>1. SUFFICES ASSUME NEW p \in Paths(r), Reconfigured(actual[r], request)[p] # actual[r][p]
                   PROVE  p \in fields
      OBVIOUS
    <3>2. DOMAIN actual[r] = Paths(r)
      BY <1>5 DEF Stored
    <3> QED BY <1>2, <2>1, <3>1, <3>2, OnlySentChange
  <2>4. /\ DOMAIN actual' = Resource /\ actual'[r] = Reconfigured(actual[r], request)
        /\ \A q \in Resource \ {r} : actual'[q] = actual[q]
    BY <1>2, <1>4, <1>5, <1>7
  <2> QED BY <1>1, <2>2, <2>3, <2>4
<1> QED BY <1>6, <1>7

\* The resource that is changed stays left to do.
LEMMA ChangeStep ==
  ASSUME IInv, Change
  PROVE  IInv'
<1>1. /\ pending # <<>> /\ pending' = Tail(pending)
      /\ UNCHANGED <<exists, desired, phase, cursor, todo, call, report, disturbances, touched>>
  BY DEF Change
<1>2. PICK r \in Resource : r = Head(pending).resource /\ r \in Range(todo)
  BY <1>1, PendingOnes
<1>3. /\ call = NoCall /\ phase = "comparing" /\ EntriesOK(Tail(pending))
      /\ \A i \in DOMAIN Tail(pending) : Tail(pending)[i].resource \in Range(todo)
  BY <1>1, PendingOnes
<1>4. /\ DOMAIN actual' = Resource /\ Stored(actual'[r], r)
      /\ \A q \in Resource \ {r} : actual'[q] = actual[q]
  BY <1>2, ChangeIs
<1>5. ConfigsOK' /\ ExistsOK'
  BY <1>1, <1>4 DEF IInv, ConfigsOK, ExistsOK
<1>6. PhaseOK' /\ TodoOK' /\ CountersOK' /\ ReportIsHonest'
  BY <1>1, <1>3 DEF IInv, PhaseOK, TodoOK, CountersOK, ReportIsHonest
<1>7. PendingOK'
  <2>1. EntriesOK(pending')
    BY <1>1, <1>3
  <2>2. EntriesOK(pending') <=> EntriesOK(pending)'
    BY DEF EntriesOK, Entry, Paths, Fields, Resource, Names, Basin
  <2> QED BY <1>1, <1>3, <2>1, <2>2 DEF PendingOK
<1>8. NothingMissed'
  <2>1. SUFFICES ASSUME NEW q \in exists \ touched
                 PROVE  Reconciled(q)' \/ q \in Range(todo)
    BY <1>1, <1>3 DEF NothingMissed
  <2>2. Reconciled(q) \/ q \in Range(todo)
    BY <1>3 DEF IInv, NothingMissed
  <2>3. CASE q # r
    <3>1. actual'[q] = actual[q]
      BY <1>4, <2>3 DEF IInv, ExistsOK
    <3> QED BY <1>1, <2>2, <3>1 DEF Reconciled
  <2> QED BY <1>2, <2>3
<1>9. call' = NoCall
  BY <1>1, <1>3
<1> QED BY <1>5, <1>6, <1>7, <1>8, <1>9, CallEnds DEF IInv

\* A change that fails changes nothing, and its resource stays left to do.
LEMMA ChangeFailsStep ==
  ASSUME IInv, ChangeFails
  PROVE  IInv'
<1>1. /\ pending # <<>> /\ pending' = Tail(pending) /\ Disturb
      /\ UNCHANGED <<service, desired, phase, cursor, todo, call, report, touched>>
  BY DEF ChangeFails
<1>2. /\ call = NoCall /\ phase = "comparing" /\ EntriesOK(Tail(pending))
      /\ \A i \in DOMAIN Tail(pending) : Tail(pending)[i].resource \in Range(todo)
  BY <1>1, PendingOnes
<1>3. ConfigsOK' /\ ExistsOK' /\ (\A r : Reconciled(r)' <=> Reconciled(r)) /\ exists' = exists
  BY <1>1, ServiceStands
<1>4. PhaseOK' /\ TodoOK' /\ ReportIsHonest' /\ NothingMissed'
  BY <1>1, <1>2, <1>3 DEF IInv, PhaseOK, TodoOK, ReportIsHonest, NothingMissed
<1>5. CountersOK'
  BY <1>1, ResourcesAssumption DEF IInv, CountersOK, Disturb
<1>6. PendingOK'
  <2>1. EntriesOK(pending')
    BY <1>1, <1>2
  <2>2. EntriesOK(pending') <=> EntriesOK(pending)'
    BY DEF EntriesOK, Entry, Paths, Fields, Resource, Names, Basin
  <2> QED BY <1>1, <1>2, <2>1, <2>2 DEF PendingOK
<1>7. call' = NoCall
  BY <1>1, <1>2
<1> QED BY <1>3, <1>4, <1>5, <1>6, <1>7, CallEnds DEF IInv

\* When nothing changes, nothing has to be shown.
LEMMA Stutter ==
  ASSUME IInv, UNCHANGED vars
  PROVE  IInv'
<1>1. UNCHANGED <<service, desired, phase, cursor, todo, call, report, pending, disturbances,
                  touched>>
  BY DEF vars, client
<1>2. ConfigsOK' /\ ExistsOK' /\ (\A r : Reconciled(r)' <=> Reconciled(r)) /\ exists' = exists
  BY <1>1, ServiceStands
<1>3. /\ PhaseOK' /\ TodoOK' /\ CallOK' /\ BooksOK' /\ PendingOK' /\ NothingMissed'
      /\ CountersOK' /\ ReportIsHonest' /\ ComparedOK'
  BY <1>1, <1>2 DEF IInv, PhaseOK, TodoOK, CallOK, BooksOK, PendingOK, NothingMissed,
                    CountersOK, ReportIsHonest, ComparedOK
<1> QED BY <1>2, <1>3 DEF IInv

\* Every step keeps the invariant.
LEMMA NextHolds == IInv /\ [Next]_vars => IInv'
<1> SUFFICES ASSUME IInv, [Next]_vars PROVE IInv'
  OBVIOUS
<1>1. CASE ListStreams
  BY <1>1, ListStreamsStep
<1>2. CASE NoBasin \/ RefuseDesired \/ CallFails
  BY <1>2, CallFailsStep
<1>3. CASE StartDiff
  BY <1>3, StartDiffStep
<1>4. CASE Compare
  BY <1>4, CompareStep
<1>5. CASE NotFound
  BY <1>5, NotFoundStep
<1>6. CASE Report
  BY <1>6, ReportStep
<1>7. CASE Change
  BY <1>7, ChangeStep
<1>8. CASE ChangeFails
  BY <1>8, ChangeFailsStep
<1>9. CASE \E r \in Resource : Reconfigure(r)
  BY <1>9, ReconfigureStep
<1>10. CASE EnsureBasin \/ \E s \in Names : EnsureStream(s)
  BY <1>10, EnsureStep
<1>11. CASE DeleteBasin \/ \E s \in Names : DeleteStream(s)
  BY <1>11, DeleteStep
<1>12. CASE UNCHANGED vars
  BY <1>12, Stutter
<1> QED
  BY <1>1, <1>2, <1>3, <1>4, <1>5, <1>6, <1>7, <1>8, <1>9, <1>10, <1>11, <1>12
  DEF Next, Client
-----------------------------------------------------------------------------
(* The theorems. *)

\* What the client still has to do, what its call has found and what its
\* report says always account for every resource that is not as wanted.
THEOREM Invariance == Spec => []IInv
BY InitHolds, NextHolds, PTL DEF Spec

\* None of reconfigure_basin, reconfigure_stream, ensure_basin and ensure_stream
\* brings a retention age of no seconds to the service, though clients send it to
\* each of them, and no stream is there without its basin.
THEOREM TypeCorrect == Spec => []TypeOK
<1>1. IInv => TypeOK
  <2> SUFFICES ASSUME IInv PROVE TypeOK
    OBVIOUS
  <2>1. exists \subseteq Resource /\ (exists # {} => Basin \in exists)
    BY DEF IInv, ExistsOK
  <2>2. \A r \in Resource : /\ DOMAIN actual[r] = Paths(r)
                            /\ \A p \in Paths(r) : actual[r][p] \in Values(p) \ {"zero"}
    BY DEF IInv, ConfigsOK, Stored
  <2>3. phase \in {"listing", "comparing"} \cup Final /\ cursor \in 0..Streams
    BY DEF IInv, PhaseOK
  <2>4. Range(todo) \subseteq Resource
    BY LenProperties, ElementOfSeq DEF IInv, TodoOK, Range
  <2>5. call.remaining \in 0..call.limit
    BY ResourcesAssumption DEF IInv, CallOK
  <2>6. disturbances \in 0..MaxDisturbances /\ touched \subseteq Resource
    BY DEF IInv, CountersOK
  <2> QED BY <2>1, <2>2, <2>3, <2>4, <2>5, <2>6 DEF TypeOK
<1> QED BY <1>1, Invariance, PTL

\* diff_resources shows no more differences than the limit of the call, over all
\* of its resources, and no fewer when it leaves any out, and says of which of
\* them it left something out.
THEOREM HonestReports == Spec => []ReportIsHonest
<1>1. IInv => ReportIsHonest
  BY DEF IInv
<1> QED BY <1>1, Invariance, PTL

\* The loop of list_streams, diff_resources and the reconfigurations ends with
\* every resource as wanted that nobody else has changed.
THEOREM LoopReconciles == Spec => []DoneIsReconciled
<1>1. IInv => DoneIsReconciled
  <2> SUFFICES ASSUME IInv, phase = "done", NEW r \in exists \ touched
               PROVE  Effective(actual[r]) = Effective(desired[r])
    BY DEF DoneIsReconciled
  <2>1. todo = <<>>
    BY DEF IInv, PhaseOK
  <2>2. Range(todo) = {}
    BY <2>1 DEF Range
  <2> QED BY <2>2 DEF IInv, NothingMissed, Reconciled
<1> QED BY <1>1, Invariance, PTL

\* A reconfiguration made of a report's entry leaves the other fields and the
\* other resources alone, whatever is nested where.
THEOREM ChangesOnlyReported == Spec => OnlyReportedChange
<1>1. IInv /\ [Next]_vars =>
        [Change =>
            \A r \in Resource : \A p \in Paths(r) :
                actual'[r][p] # actual[r][p] =>
                    /\ r = Head(pending).resource
                    /\ p \in Range(Head(pending).differences)]_vars
  <2> SUFFICES ASSUME IInv, Change, NEW r \in Resource, NEW p \in Paths(r),
                      actual'[r][p] # actual[r][p]
               PROVE  /\ r = Head(pending).resource
                      /\ p \in Range(Head(pending).differences)
    OBVIOUS
  <2>1. r = Head(pending).resource
    BY ChangeIs
  <2> QED BY <2>1, ChangeIs
<1> QED BY <1>1, Invariance, PTL DEF Spec, OnlyReportedChange
=============================================================================
