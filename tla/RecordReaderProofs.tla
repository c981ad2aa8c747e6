------------------------- MODULE RecordReaderProofs -------------------------
(***************************************************************************)
(* Whatever the batches, the limits, the timeouts and the lost answers, a  *)
(* client that follows next_seq_num passes over no data record, is given   *)
(* none twice, and is not told that it caught up too early: for a stream   *)
(* and batches of any length, and records of any size.                     *)
(*                                                                         *)
(* None of the three is inductive.  A batch is made before it is answered, *)
(* and the stream grows and is trimmed between the two, so IInv says of a  *)
(* batch in flight what it was when the service made it, as far as that    *)
(* lasts: that it is a run of the stream, starts no later than the cursor  *)
(* or what is retained, and behind what was delivered.                     *)
(***************************************************************************)
EXTENDS RecordReader, FiniteSetTheorems, SequenceTheorems, TLAPS

\* A trim keeps the command record that asked for it.
RetainedOK == first = 0 \/ first < Len(log)
PositionOK ==
    /\ cursor = FromTail <=> origin = FromTail
    /\ cursor <= Len(log) \/ cursor = origin
    /\ caughtUp <= Len(log)
    /\ delivered # <<>> => cursor <= Len(log)
    /\ \A i \in DOMAIN delivered : delivered[i] < cursor
SentOK ==
    call.phase = "sent" =>
        /\ caughtUp <= call.tail
        /\ delivered # <<>> => cursor <= call.tail
IsBatch(from, n) ==
    /\ call.records = Numbers(from, from + n)
    /\ from + n <= Len(log)
    /\ caughtUp <= from
    /\ \A i \in DOMAIN delivered : delivered[i] < from
    /\ cursor # FromTail => from <= cursor \/ from <= first
    /\ n = 0 /\ cursor # FromTail => call.tail <= cursor
ServedOK ==
    call.phase = "served" =>
        /\ call.tail # NoTail => caughtUp <= call.tail /\ call.tail <= Len(log)
        /\ \E from \in 0..Len(log), n \in 0..Len(log) : IsBatch(from, n)
IInv ==
    /\ TypeOK /\ RetainedOK /\ PositionOK /\ SentOK /\ ServedOK
    /\ NoRecordSkipped /\ DeliveredInOrder /\ CaughtUpIsHonest
-----------------------------------------------------------------------------
(* Numbers. *)

\* A set of natural numbers has a least one, and if bounded a greatest.
LEMMA NatMin ==
  ASSUME NEW S \in SUBSET Nat, S # {}
  PROVE  \E n \in S : \A m \in S : n <= m
<1> DEFINE R == {ss \in Nat \X Nat : ss[1] < ss[2]}
<1>1. IsWellFoundedOn(R, Nat)
  BY NatLessThanWellFounded DEF OpToRel
<1> HIDE DEF R
<1>2. PICK n \in S : \A m \in S : ~(<<m, n>> \in R)
  BY <1>1, WFMin
<1>3. \A m \in S : ~(m < n)
  BY <1>2 DEF R
<1> QED BY <1>3

LEMMA MaxOfType ==
  ASSUME NEW b \in Nat, NEW S \in SUBSET (0..b), S # {}
  PROVE  MaxOf(S) \in S
<1> DEFINE T == {b - n : n \in S}
<1>1. T \in SUBSET Nat /\ T # {}
  <2>1. \A n \in S : b - n \in Nat
    OBVIOUS
  <2> QED BY <2>1
<1>2. PICK t \in T : \A m \in T : t <= m
  BY <1>1, NatMin
<1>3. PICK n \in S : t = b - n
  OBVIOUS
<1>4. \A m \in S : m <= n
  <2>1. TAKE m \in S
  <2>2. b - n <= b - m
    BY <1>2, <1>3
  <2> QED BY <2>2
<1> QED BY <1>4 DEF MaxOf

\* The members of a finite set of numbers, each once and in their order.
LEMMA AscendingOrders ==
  ASSUME NEW S \in SUBSET Nat, IsFiniteSet(S)
  PROVE  /\ Ascending(S) \in Seq(S)
         /\ Len(Ascending(S)) = Cardinality(S)
         /\ \A i, j \in 1..Cardinality(S) :
                i < j => Ascending(S)[i] < Ascending(S)[j]
         /\ \A n \in S : \E i \in 1..Cardinality(S) : Ascending(S)[i] = n
<1> DEFINE below(n) == {m \in S : m < n}
           place == [n \in S |-> Cardinality(below(n)) + 1]
           size  == Cardinality(S)
           asc   == [i \in 1..size |-> CHOOSE n \in S : place[n] = i]
<1>0. /\ \A n \in S : n \in Nat
      /\ \A m, n \in S : m < n \/ m = n \/ n < m
  OBVIOUS
<1>1. size \in Nat
  BY FS_CardinalityType
<1>2. ASSUME NEW n \in S
      PROVE  IsFiniteSet(below(n)) /\ place[n] \in 1..size
  <2>1. below(n) \in SUBSET S /\ below(n) # S
    OBVIOUS
  <2>2. /\ IsFiniteSet(below(n)) /\ Cardinality(below(n)) \in Nat
        /\ Cardinality(below(n)) <= size /\ Cardinality(below(n)) # size
    BY <2>1, FS_Subset, FS_CardinalityType
  <2> QED BY <1>1, <2>2
<1>3. ASSUME NEW m \in S, NEW n \in S, m < n
      PROVE  place[m] < place[n]
  <2>0. ~(m < m) /\ \A k \in S : k < m => k < n
    BY <1>0, <1>3
  <2>1. m \notin below(m) /\ below(m) \cup {m} \in SUBSET below(n)
    BY <2>0, <1>3, Zenon
  <2>2. Cardinality(below(m) \cup {m}) = Cardinality(below(m)) + 1
    BY <2>1, <1>2, FS_AddElement
  <2>3. Cardinality(below(m) \cup {m}) <= Cardinality(below(n))
    BY <2>1, <1>2, FS_Subset
  <2> HIDE DEF below
  <2>4. Cardinality(below(m)) \in Nat /\ Cardinality(below(n)) \in Nat
    BY <1>2, FS_CardinalityType
  <2> QED BY <2>2, <2>3, <2>4
<1> HIDE DEF below
<1>4. place \in Injection(S, 1..size)
  <2>1. place \in [S -> 1..size]
    BY <1>2
  <2>2. \A m, n \in S : m < n \/ n < m \/ m = n
    OBVIOUS
  <2>3. \A m, n \in S : place[m] \in Nat /\ (place[m] = place[n] => m = n)
    <3> HIDE DEF place
    <3> QED BY <1>1, <1>2, <1>3, <2>2
  <2> HIDE DEF place
  <2> QED BY <2>1, <2>3 DEF Injection, IsInjective
<1>5. \A i \in 1..size : \E n \in S : place[n] = i
  <2>1. IsFiniteSet(1..size) /\ Cardinality(1..size) = size
    BY <1>1, FS_Interval
  <2>2. place \in Surjection(S, 1..size)
    BY <1>4, <2>1, FS_Injection
  <2> HIDE DEF place
  <2> QED BY <2>2 DEF Surjection
<1>6. \A i \in 1..size : asc[i] \in S /\ place[asc[i]] = i
  <2> HIDE DEF place
  <2> QED BY <1>5
<1>7. asc \in Seq(S) /\ Len(asc) = size
  <2>1. asc \in [1..size -> S]
    BY <1>6
  <2> HIDE DEF asc, size
  <2> QED BY <2>1, <1>1
<1>8. \A i, j \in 1..size : i < j => asc[i] < asc[j]
  <2> HIDE DEF place, asc
  <2>1. SUFFICES ASSUME NEW i \in 1..size, NEW j \in 1..size, i < j,
                        ~(asc[i] < asc[j])
                 PROVE  FALSE
    OBVIOUS
  <2>2. asc[i] \in S /\ asc[j] \in S /\ place[asc[i]] = i /\ place[asc[j]] = j
    BY <1>6
  <2>3. asc[i] = asc[j] \/ asc[j] < asc[i]
    BY <2>1, <2>2, <1>0, Zenon
  <2>4. j = i \/ j < i
    BY <2>2, <2>3, <1>3
  <2> QED BY <2>1, <2>4, <1>1
<1>9. \A n \in S : \E i \in 1..size : asc[i] = n
  <2>1. TAKE n \in S
  <2>2. place[n] \in 1..size /\ asc[place[n]] \in S
        /\ place[asc[place[n]]] = place[n]
    BY <1>2, <1>6
  <2> HIDE DEF place, asc
  <2>3. asc[place[n]] = n
    BY <2>2, <1>4 DEF Injection, IsInjective
  <2> QED BY <2>2, <2>3
<1>10. asc = Ascending(S)
  BY DEF Ascending, below
<1> HIDE DEF asc
<1> QED BY <1>7, <1>8, <1>9, <1>10

-----------------------------------------------------------------------------
(* PreparedReadOutput. *)

LEMMA SizeOfNothing == SizeOf(<<>>) = 0
<1>1. DOMAIN << >> = {} BY EmptySeq
<1> DEFINE iter == CHOOSE iter : iter = [s \in SUBSET {} |->
        IF s = {} THEN 0 ELSE iter[s \ {Max(s)}] + log[(<<>>)[Max(s)]+1].size]
<1>2. iter[{}] = 0
  <2> DEFINE g == [s \in SUBSET {} |-> 0]
  <2>1. g = [s \in SUBSET {} |->
        IF s = {} THEN 0 ELSE g[s \ {Max(s)}] + log[(<<>>)[Max(s)]+1].size]
    OBVIOUS
  <2> HIDE DEF g
  <2>2. iter = [s \in SUBSET {} |->
        IF s = {} THEN 0 ELSE iter[s \ {Max(s)}] + log[(<<>>)[Max(s)]+1].size]
    BY <2>1, Zenon
  <2> QED BY <2>2
<1>3. FoldLeft(LAMBDA sum, s : sum + log[s + 1].size, 0, << >>) = iter[{}]
 BY <1>1, Zenon DEF FoldLeft, MapThenFoldSet
<1> QED BY <1>2, <1>3 DEF SizeOf

LEMMA FittingCountType ==
  ASSUME NEW kept \in Seq(Nat)
  PROVE  FittingCount(kept) \in 0..Len(kept)
<1> DEFINE S == {n \in 0..Len(kept) : SizeOf(SubSeq(kept, 1, n)) <= MaxOutput}
<1>1. SubSeq(kept, 1, 0) = <<>>
  BY SubSeqEmpty
<1>2. Len(kept) \in Nat
  BY LenProperties
<1>3. 0 \in S
  <2>1. 0 \in 0..Len(kept) /\ 0 <= MaxOutput
    BY <1>2, ReadBoundsAssumption
  <2> QED BY <2>1, <1>1, SizeOfNothing
<1>4. MaxOf(S) \in S
  <2> HIDE DEF S
  <2>1. S \in SUBSET (0..Len(kept))
    BY DEF S
  <2> QED BY <2>1, <1>2, <1>3, MaxOfType
<1> QED BY <1>4 DEF FittingCount

LEMMA NumbersType ==
  ASSUME NEW from \in Nat, NEW n \in Nat
  PROVE  /\ Numbers(from, from + n) \in Seq(Nat)
         /\ Len(Numbers(from, from + n)) = n
         /\ \A i \in 1..n : Numbers(from, from + n)[i] = from + i - 1
<1>1. Numbers(from, from + n) = [i \in 1..n |-> from + i - 1]
  BY DEF Numbers
<1>2. [i \in 1..n |-> from + i - 1] \in [1..n -> Nat]
  OBVIOUS
<1> QED BY <1>1, <1>2

\* What an answer may show of a batch is in its order, and all but commands.
ShowsBatch(kept, from, n) ==
    /\ \A i \in 1..Len(kept) : from <= kept[i] /\ kept[i] < from + n
    /\ \A i, j \in 1..Len(kept) : i < j => kept[i] < kept[j]
    /\ \A s \in from..(from + n - 1) :
           \/ log[s + 1].kind = "command"
           \/ \E i \in 1..Len(kept) : kept[i] = s

LEMMA KeptOrders ==
  ASSUME NEW from \in Nat, NEW n \in Nat, NEW ignore,
         log \in Seq(Record), from + n <= Len(log),
         NEW kept, kept = Kept(Numbers(from, from + n), ignore)
  PROVE  kept \in Seq(Nat) /\ ShowsBatch(kept, from, n)
<1> DEFINE records == Numbers(from, from + n)
           S == {s \in Range(records) : ~ignore \/ log[s + 1].kind = "data"}
<1>1. Range(records) = from..(from + n - 1)
  <2>1. DOMAIN records = 1..n
    BY NumbersType, LenProperties
  <2>2. ASSUME NEW s \in from..(from + n - 1)
        PROVE  \E i \in DOMAIN records : records[i] = s
    <3>1. /\ s - from + 1 \in 1..n
          /\ from + (s - from + 1) - 1 = s
      OBVIOUS
    <3>2. records[s - from + 1] = s
      BY <3>1, NumbersType, Zenon
    <3> QED BY <3>1, <3>2, <2>1, Zenon
  <2>3. ASSUME NEW i \in DOMAIN records
        PROVE  records[i] \in from..(from + n - 1)
    <3>1. i \in 1..n /\ records[i] = from + i - 1
      BY <2>1, NumbersType
    <3> HIDE DEF records
    <3> QED BY <3>1
  <2> HIDE DEF records
  <2> QED BY <2>2, <2>3 DEF Range
<1>2. S \in SUBSET Nat /\ IsFiniteSet(S)
  <2>1. IsFiniteSet(from..(from + n - 1))
    BY FS_Interval
  <2>2. S \in SUBSET (from..(from + n - 1))
    BY <1>1
  <2>3. from..(from + n - 1) \in SUBSET Nat
    OBVIOUS
  <2> HIDE DEF S
  <2> QED BY <2>1, <2>2, <2>3, FS_Subset
<1>3. \A s \in from..(from + n - 1) : s \in S \/ log[s + 1].kind = "command"
  <2>1. ASSUME NEW s \in from..(from + n - 1)
        PROVE  log[s + 1].kind \in {"data", "command"}
    <3>1. s + 1 \in 1..Len(log)
      BY LenProperties
    <3>2. log[s + 1] \in Record
      BY <3>1, ElementOfSeq
    <3> QED BY <3>2 DEF Record
  <2> QED BY <2>1, <1>1
<1>4. \A s \in S : from <= s /\ s < from + n
  BY <1>1
<1>5. kept = Ascending(S)
  BY DEF Kept
<1> HIDE DEF S, records
<1>6. /\ kept \in Seq(S) /\ Len(kept) = Cardinality(S)
      /\ \A i, j \in 1..Len(kept) : i < j => kept[i] < kept[j]
      /\ \A s \in S : \E i \in 1..Len(kept) : kept[i] = s
  BY <1>2, <1>5, AscendingOrders
<1>7. kept \in Seq(Nat)
  BY <1>6, <1>2, SeqMonotonic
<1>8. \A i \in 1..Len(kept) : kept[i] \in S
  BY <1>6, ElementOfSeq
<1> QED
  BY <1>3, <1>4, <1>6, <1>7, <1>8 DEF ShowsBatch

-----------------------------------------------------------------------------
(* The steps. *)

LEMMA CallType ==
  ASSUME TypeOK
  PROVE  /\ call.phase \in {"idle", "sent", "served"}
         /\ call.phase = "idle" <=> call = Idle
         /\ call.phase = "sent" =>
                /\ call \in [phase : {"sent"}, tool : {"read", "wait"},
                             clamp : BOOLEAN, ignore : BOOLEAN, tail : 0..Len(log)]
         /\ call.phase = "served" =>
                call \in [phase : {"served"}, tool : {"read", "wait"},
                          ignore : BOOLEAN, records : Seq(Nat),
                          tail : Nat \cup {NoTail}]
BY DEF TypeOK, Idle

LEMMA InitHolds == Init => IInv
<1> SUFFICES ASSUME Init PROVE IInv
  OBVIOUS
<1> USE DEF FromTail, NoTail
<1>1. log \in Seq(Record) /\ Len(log) \in 0..1
  <2>1. PICK n \in 0..1 : log \in [1..n -> Record]
    BY DEF Init
  <2> QED BY <2>1
<1>2. call = Idle /\ call.phase = "idle"
  BY DEF Init, Idle
<1>3. delivered = <<>> /\ delivered \in Seq(Nat) /\ DOMAIN delivered = {}
  BY EmptySeq DEF Init
<1>4. TypeOK
  <2>1. MaxLog \in Nat /\ 1 <= MaxLog
    BY ReadBoundsAssumption
  <2>2. cursor \in Nat \cup {FromTail}
    BY <2>1 DEF Init
  <2> QED BY <1>1, <1>2, <1>3, <2>1, <2>2 DEF Init, TypeOK
<1> QED
  BY <1>1, <1>2, <1>3, <1>4 DEF Init, IInv, RetainedOK, PositionOK, SentOK,
     ServedOK, NoRecordSkipped, DeliveredInOrder, CaughtUpIsHonest

\* The stream grows, and is trimmed perhaps.
LEMMA StreamStep ==
  ASSUME IInv, NEW record \in Record, Put(record),
         first' = first \/ first' \in (first + 1)..Len(log),
         UNCHANGED <<cursor, call, delivered, origin, caughtUp>>
  PROVE  IInv'
<1> USE DEF FromTail, NoTail
<1>1. /\ log \in Seq(Record) /\ log' = Append(log, record)
      /\ Len(log) \in Nat /\ Len(log) < MaxLog
  BY LenProperties DEF IInv, TypeOK, Put
<1>2. /\ log' \in Seq(Record) /\ Len(log') = Len(log) + 1
      /\ \A s \in 0..(Len(log) - 1) : log'[s + 1] = log[s + 1]
  <2>1. \A s \in 0..(Len(log) - 1) : s + 1 \in 1..Len(log)
    BY <1>1
  <2> QED BY <1>1, <2>1, AppendProperties
<1>3. first \in Nat /\ first' \in Nat /\ first <= first' /\ first' <= Len(log)
  BY <1>1 DEF IInv, TypeOK
<1>4. TypeOK'
  <2>1. call' \in {Idle}
           \cup [phase : {"sent"}, tool : {"read", "wait"}, clamp : BOOLEAN,
                 ignore : BOOLEAN, tail : 0..Len(log')]
           \cup [phase : {"served"}, tool : {"read", "wait"}, ignore : BOOLEAN,
                 records : Seq(Nat), tail : Nat \cup {NoTail}]
    <3>1. 0..Len(log) \in SUBSET (0..Len(log'))
      BY <1>1, <1>2
    <3> QED BY <3>1 DEF IInv, TypeOK
  <2>2. Len(log') <= MaxLog
    BY <1>1, <1>2, ReadBoundsAssumption
  <2> QED BY <1>1, <1>2, <1>3, <2>1, <2>2 DEF IInv, TypeOK
<1>5. (RetainedOK /\ PositionOK /\ SentOK)'
  BY <1>1, <1>2, <1>3 DEF IInv, TypeOK, RetainedOK, PositionOK, SentOK
<1>6. ServedOK'
  <2>1. SUFFICES ASSUME call.phase = "served"
                 PROVE  ServedOK'
    BY DEF ServedOK
  <2>2. PICK from \in 0..Len(log), n \in 0..Len(log) : IsBatch(from, n)
    BY <2>1 DEF IInv, ServedOK
  <2>3. from \in 0..Len(log') /\ n \in 0..Len(log') /\ IsBatch(from, n)'
    BY <1>1, <1>2, <1>3, <2>2 DEF IInv, TypeOK, IsBatch, Numbers
  <2> QED
    BY <1>1, <1>2, <2>1, <2>3, CallType DEF IInv, ServedOK
<1>7. NoRecordSkipped'
  <2>1. SUFFICES ASSUME NEW s \in 0..(Len(log') - 1), origin # FromTail,
                        origin <= s, s < cursor
                 PROVE  \/ s < first'
                        \/ log'[s + 1].kind = "command"
                        \/ s \in Range(delivered)
    BY DEF NoRecordSkipped
  <2>2. s # Len(log)
    BY <1>1, <2>1 DEF IInv, TypeOK, PositionOK
  <2>3. s \in 0..(Len(log) - 1)
    BY <1>1, <1>2, <2>2
  <2> QED
    BY <1>2, <1>3, <2>1, <2>3 DEF IInv, NoRecordSkipped
<1> QED
  BY <1>4, <1>5, <1>6, <1>7 DEF IInv, DeliveredInOrder, CaughtUpIsHonest

LEMMA SendStep ==
  ASSUME IInv, Send
  PROVE  IInv'
<1> USE DEF FromTail, NoTail
<1>1. PICK tool \in {"read", "wait"}, clamp \in BOOLEAN, ignore \in BOOLEAN :
         call' = [phase |-> "sent", tool |-> tool, clamp |-> clamp,
                  ignore |-> ignore, tail |-> Len(log)]
  BY DEF Send, TailNum
<1>2. UNCHANGED <<log, first, cursor, delivered, origin, caughtUp>>
  BY DEF Send, stream
<1>3. Len(log) \in Nat
  BY LenProperties DEF IInv, TypeOK
<1>4. TypeOK'
  BY <1>1, <1>2, <1>3 DEF IInv, TypeOK
<1>5. (SentOK /\ ServedOK)'
  BY <1>1, <1>2 DEF IInv, PositionOK, SentOK, ServedOK
<1> QED
  BY <1>2, <1>4, <1>5 DEF IInv, RetainedOK, PositionOK, NoRecordSkipped,
     DeliveredInOrder, CaughtUpIsHonest

LEMMA ServeStep ==
  ASSUME IInv, Serve
  PROVE  IInv'
<1> USE DEF FromTail, NoTail
<1>1. /\ call.phase = "sent"
      /\ call \in [phase : {"sent"}, tool : {"read", "wait"}, clamp : BOOLEAN,
                   ignore : BOOLEAN, tail : 0..Len(log)]
      /\ Len(log) \in Nat /\ call.tail \in 0..Len(log)
  BY CallType, LenProperties DEF Serve, IInv, TypeOK
<1>2. PICK t \in call.tail..Len(log), n \in 0..MaxRead, tail \in {NoTail, Len(log)} :
         /\ StartAt(t) + n <= Len(log)
         /\ n = 0 => StartAt(t) = Len(log)
         /\ call' = [phase |-> "served", tool |-> call.tool,
                     ignore |-> call.ignore,
                     records |-> Numbers(StartAt(t), StartAt(t) + n),
                     tail |-> tail]
  BY DEF Serve, TailNum
<1>3. UNCHANGED <<log, first, cursor, delivered, origin, caughtUp>>
  BY DEF Serve, stream
<1>4. t \in Nat /\ call.tail <= t /\ n \in Nat /\ first \in Nat /\ caughtUp \in Nat
  BY <1>1, ReadBoundsAssumption DEF IInv, TypeOK
<1>5. StartAt(t) \in Nat
  BY <1>1, <1>4 DEF IInv, TypeOK, StartAt
<1>6. PICK from \in Nat : from = StartAt(t)
  BY <1>5
<1>7. /\ cursor # FromTail => from <= cursor \/ from <= first
      /\ delivered # <<>> => cursor <= from
      /\ caughtUp <= from
      /\ from = Len(log) /\ cursor # FromTail => Len(log) <= cursor
  BY <1>1, <1>2, <1>4, <1>6 DEF IInv, TypeOK, RetainedOK, PositionOK, SentOK,
     CaughtUpIsHonest, StartAt
<1>8. \A i \in DOMAIN delivered : delivered[i] < from
  <2>1. ASSUME NEW i \in DOMAIN delivered
        PROVE  delivered[i] < from
    <3>1. delivered # <<>> /\ delivered[i] < cursor /\ delivered[i] \in Nat
      BY LenProperties, EmptySeq DEF IInv, TypeOK, PositionOK
    <3> QED BY <3>1, <1>7 DEF IInv, TypeOK
  <2> QED BY <2>1
<1>9. Numbers(from, from + n) \in Seq(Nat)
  BY <1>4, NumbersType
<1>10. TypeOK'
  <2>1. call' \in [phase : {"served"}, tool : {"read", "wait"}, ignore : BOOLEAN,
                   records : Seq(Nat), tail : Nat \cup {NoTail}]
    BY <1>1, <1>2, <1>6, <1>9
  <2> QED BY <1>3, <2>1 DEF IInv, TypeOK
<1>11. (SentOK /\ ServedOK)'
  <2>1. from + n <= Len(log) /\ (n = 0 => from = Len(log))
    BY <1>2, <1>6
  <2>2. from \in 0..Len(log) /\ n \in 0..Len(log)
    BY <1>1, <1>4, <2>1
  <2>3. /\ call'.phase = "served" /\ call'.tail = tail
        /\ call'.records = Numbers(from, from + n)
    BY <1>2, <1>6
  <2>4. IsBatch(from, n)'
    BY <1>1, <1>2, <1>3, <1>7, <1>8, <2>1, <2>3 DEF IsBatch, Numbers, IInv, TypeOK
  <2>5. tail # NoTail => caughtUp <= tail /\ tail <= Len(log)
    BY <1>1, <1>2 DEF IInv, PositionOK
  <2> QED BY <1>3, <2>2, <2>3, <2>4, <2>5 DEF SentOK, ServedOK
<1> QED
  BY <1>3, <1>10, <1>11 DEF IInv, RetainedOK, PositionOK, NoRecordSkipped,
     DeliveredInOrder, CaughtUpIsHonest

\* A deadline, an error: the call leaves no trace but the position it had.
LEMMA CallLost ==
  ASSUME IInv, WaitTimesOut \/ Fail
  PROVE  IInv'
<1>1. /\ call' = Idle
      /\ UNCHANGED <<log, first, cursor, delivered, origin, caughtUp>>
  BY DEF WaitTimesOut, Fail, Fallback, stream
<1>2. TypeOK' /\ call'.phase = "idle"
  BY <1>1 DEF IInv, TypeOK, Idle
<1> QED
  BY <1>1, <1>2 DEF IInv, RetainedOK, PositionOK, SentOK, ServedOK,
     NoRecordSkipped, DeliveredInOrder, CaughtUpIsHonest

\* What an answer hands over of a batch, and where it leaves the cursor.
Answered(from, n, kept, count) ==
    /\ IsBatch(from, n)
    /\ ShowsBatch(kept, from, n)
    /\ delivered' = delivered \o SubSeq(kept, 1, count)
    /\ n = 0 => cursor' = IF cursor # FromTail THEN cursor
                          ELSE IF call.tail # NoTail THEN call.tail ELSE FromTail
    /\ n # 0 => cursor' = IF count < Len(kept) THEN kept[count + 1] ELSE from + n
    /\ origin' = IF origin = FromTail /\ cursor' # FromTail
                 THEN IF n # 0 THEN from ELSE cursor'
                 ELSE origin
    /\ caughtUp' # caughtUp => /\ caughtUp' = call.tail /\ call.tail # NoTail
                               /\ n # 0 => cursor' = call.tail

LEMMA RespondAnswers ==
  ASSUME IInv, Respond
  PROVE  \E from, n \in 0..Len(log), kept \in Seq(Nat) :
             \E count \in 0..Len(kept) : Answered(from, n, kept, count)
<1> USE DEF FromTail, NoTail
<1>1. /\ call.phase = "served" /\ call.records \in Seq(Nat) /\ call.ignore \in BOOLEAN
      /\ call.tail \in Nat \cup {NoTail}
      /\ log \in Seq(Record) /\ Len(log) \in Nat
  BY CallType, LenProperties DEF Respond, IInv, TypeOK
<1>2. PICK from \in 0..Len(log), n \in 0..Len(log) : IsBatch(from, n)
  BY <1>1 DEF IInv, ServedOK
<1>3. PICK kept : kept = Kept(call.records, call.ignore)
  OBVIOUS
<1>4. from \in Nat /\ n \in Nat /\ from + n <= Len(log)
      /\ call.records = Numbers(from, from + n)
  BY <1>1, <1>2 DEF IsBatch
<1>5. kept \in Seq(Nat) /\ ShowsBatch(kept, from, n)
  <2>1. PICK ignore : ignore = call.ignore
    OBVIOUS
  <2>2. kept = Kept(Numbers(from, from + n), ignore)
    BY <1>3, <1>4, <2>1
  <2> HIDE DEF FromTail, NoTail
  <2> QED BY <1>1, <1>4, <2>2, KeptOrders
<1>6. PICK count \in 0..Len(kept) : count = FittingCount(kept)
  BY <1>5, FittingCountType
<1>7. PICK next : next = NextSeqNum(call.records, call.tail)
  OBVIOUS
<1>8. /\ delivered' = delivered \o SubSeq(kept, 1, count)
      /\ cursor' = NextAfter(kept, count, next)
      /\ origin' = IF origin = FromTail /\ cursor' # FromTail
                   THEN IF call.records # <<>> THEN Head(call.records) ELSE cursor'
                   ELSE origin
      /\ caughtUp' = IF call.tool = "wait" /\ count = Len(kept)
                        /\ BatchCaughtUp(call.records, call.tail)
                     THEN call.tail ELSE caughtUp
  BY <1>3, <1>6, <1>7 DEF Respond
<1>9. /\ Len(call.records) = n
      /\ call.records # <<>> <=> n # 0
      /\ n # 0 => Head(call.records) = from /\ Last(call.records) = from + n - 1
  <2>1. /\ Len(call.records) = n
        /\ \A i \in 1..n : call.records[i] = from + i - 1
    <3>1. /\ Len(Numbers(from, from + n)) = n
          /\ \A i \in 1..n : Numbers(from, from + n)[i] = from + i - 1
      BY <1>4, NumbersType
    <3> QED BY <1>4, <3>1, Zenon
  <2>2. call.records # <<>> <=> n # 0
    BY <1>1, <2>1, EmptySeq
  <2>3. n # 0 => call.records[1] = from /\ call.records[n] = from + n - 1
    <3>1. n # 0 => 1 \in 1..n /\ n \in 1..n /\ from + 1 - 1 = from
      BY <1>4
    <3> QED BY <2>1, <3>1
  <2> QED BY <1>1, <2>1, <2>2, <2>3 DEF Last
<1>10. n = 0 => count = 0 /\ Len(kept) = 0
  <2>1. Len(kept) \in Nat /\ (n = 0 => 1 \notin 1..Len(kept))
    BY <1>4, <1>5, LenProperties DEF ShowsBatch
  <2> QED BY <2>1
<1>11. /\ n = 0 => cursor' = next
       /\ n # 0 => cursor' = IF count < Len(kept) THEN kept[count + 1] ELSE from + n
  BY <1>4, <1>7, <1>8, <1>9, <1>10 DEF NextAfter, NextSeqNum
<1>12. /\ n = 0 /\ cursor # FromTail => next = cursor
       /\ n = 0 /\ cursor = FromTail =>
              next = IF call.tail # NoTail THEN call.tail ELSE FromTail
  BY <1>7, <1>9 DEF NextSeqNum, Fallback
<1>13. ASSUME caughtUp' # caughtUp
       PROVE  /\ caughtUp' = call.tail /\ call.tail # NoTail
              /\ n # 0 => cursor' = call.tail
  <2>1. /\ caughtUp' = call.tail
        /\ count = Len(kept) /\ BatchCaughtUp(call.records, call.tail)
    BY <1>8, <1>13
  <2>2. call.tail # NoTail /\ (n # 0 => from + n = call.tail)
    BY <1>4, <1>9, <2>1 DEF BatchCaughtUp
  <2>3. n # 0 => cursor' = from + n
    BY <1>11, <2>1
  <2> QED BY <2>1, <2>2, <2>3
<1>14. Answered(from, n, kept, count)
  BY <1>2, <1>5, <1>8, <1>9, <1>11, <1>12, <1>13 DEF Answered
<1> QED
  BY <1>5, <1>14

LEMMA RespondStep ==
  ASSUME IInv, Respond
  PROVE  IInv'
<1> USE DEF FromTail, NoTail
<1>0. PICK from \in 0..Len(log), n \in 0..Len(log), kept \in Seq(Nat) :
         \E count \in 0..Len(kept) : Answered(from, n, kept, count)
  BY RespondAnswers
<1>1. PICK count \in 0..Len(kept) : Answered(from, n, kept, count)
  BY <1>0
<1>2. call' = Idle /\ call'.phase = "idle" /\ log' = log /\ first' = first
  BY DEF Respond, stream, Idle
<1>3. /\ call.phase = "served" /\ call.tail \in Nat \cup {NoTail}
      /\ log \in Seq(Record) /\ Len(log) \in Nat /\ first \in Nat
      /\ delivered \in Seq(Nat) /\ Len(delivered) \in Nat
      /\ DOMAIN delivered = 1..Len(delivered)
      /\ cursor \in Nat \cup {FromTail} /\ origin \in Nat \cup {FromTail}
      /\ caughtUp \in Nat /\ caughtUp <= Len(log) /\ Len(log) <= MaxLog
      /\ cursor = FromTail <=> origin = FromTail
      /\ MaxLog \in Nat
  BY CallType, LenProperties, ReadBoundsAssumption
     DEF Respond, IInv, TypeOK, PositionOK
<1>4. /\ from \in Nat /\ n \in Nat /\ from + n <= Len(log)
      /\ caughtUp <= from
      /\ \A i \in DOMAIN delivered : delivered[i] < from
      /\ cursor # FromTail => from <= cursor \/ from <= first
      /\ n = 0 /\ cursor # FromTail => call.tail <= cursor
  BY <1>1, <1>3 DEF Answered, IsBatch
<1>5. call.tail # NoTail => caughtUp <= call.tail /\ call.tail <= Len(log)
  BY <1>3 DEF IInv, ServedOK
<1>6. PICK m \in Nat :
        /\ m = Len(delivered) /\ DOMAIN delivered = 1..m
        /\ \A i \in 1..m : delivered[i] \in Nat
        /\ Len(kept) \in Nat /\ count \in Nat /\ count <= Len(kept)
        /\ \A i \in 1..Len(kept) : kept[i] \in Nat
  <2>1. \A i \in 1..Len(delivered) : delivered[i] \in Nat
    BY <1>3, ElementOfSeq
  <2>2. /\ Len(kept) \in Nat /\ count \in Nat /\ count <= Len(kept)
        /\ \A i \in 1..Len(kept) : kept[i] \in Nat
    BY <1>1, LenProperties, ElementOfSeq
  <2> QED BY <1>3, <2>1, <2>2
\* The client's records, and those of the answer.
<1>7. /\ delivered' \in Seq(Nat) /\ Len(delivered') = m + count
      /\ \A i \in 1..m : delivered'[i] = delivered[i]
      /\ \A i \in 1..count : delivered'[m + i] = kept[i]
      /\ DOMAIN delivered' = 1..(m + count)
  <2>1. /\ SubSeq(kept, 1, count) \in Seq(Nat)
        /\ Len(SubSeq(kept, 1, count)) = count
        /\ \A i \in 1..count : SubSeq(kept, 1, count)[i] = kept[i]
    BY <1>6, SubSeqProperties
  <2>2. /\ delivered' \in Seq(Nat) /\ Len(delivered') = m + count
        /\ \A i \in 1..(m + count) :
               delivered'[i] = IF i <= m THEN delivered[i]
                               ELSE SubSeq(kept, 1, count)[i - m]
    <3>1. PICK slice \in Seq(Nat) : slice = SubSeq(kept, 1, count)
      BY <2>1
    <3>2. /\ delivered \o slice \in Seq(Nat)
          /\ Len(delivered \o slice) = Len(delivered) + Len(slice)
          /\ \A i \in 1..(Len(delivered) + Len(slice)) :
                 (delivered \o slice)[i] = IF i <= Len(delivered) THEN delivered[i]
                                           ELSE slice[i - Len(delivered)]
      BY <1>3, ConcatProperties
    <3>3. delivered' = delivered \o slice /\ Len(slice) = count /\ Len(delivered) = m
      BY <1>1, <1>6, <2>1, <3>1 DEF Answered
    <3> QED BY <3>1, <3>2, <3>3, Zenon
  <2>3. DOMAIN delivered' = 1..(m + count)
    BY <2>2, LenProperties
  <2>4. \A i \in 1..m : delivered'[i] = delivered[i]
    BY <1>3, <1>6, <2>2
  <2>5. ASSUME NEW i \in 1..count
        PROVE  delivered'[m + i] = kept[i]
    <3>1. PICK k : k = m + i
      OBVIOUS
    <3>2. /\ k \in 1..(m + count)
          /\ ~(k <= m) /\ k - m = i
      BY <1>3, <1>6, <3>1
    <3>3. delivered'[k] = SubSeq(kept, 1, count)[k - m]
      BY <2>2, <3>2
    <3> QED BY <2>1, <3>1, <3>2, <3>3
  <2> QED BY <2>2, <2>3, <2>4, <2>5
\* Where the cursor comes to lie.
<1>8. /\ n # 0 => cursor' \in from..(from + n)
      /\ n = 0 => count = 0
      /\ n = 0 /\ cursor # FromTail => cursor' = cursor
      /\ n = 0 /\ cursor = FromTail =>
             cursor' = IF call.tail # NoTail THEN call.tail ELSE FromTail
      /\ \A i \in 1..count : kept[i] < cursor'
  <2>1. CASE n = 0
    <3>1. 1 \notin 1..Len(kept)
      <4>1. SUFFICES ASSUME 1 \in 1..Len(kept) PROVE FALSE
        OBVIOUS
      <4>2. from <= kept[1] /\ kept[1] < from + n
        BY <1>1, <4>1 DEF Answered, ShowsBatch
      <4>3. kept[1] \in Nat
        BY <1>6, <4>1
      <4> QED BY <1>4, <2>1, <4>2, <4>3
    <3>2. count = 0
      BY <1>6, <3>1
    <3> QED BY <1>1, <2>1, <3>2 DEF Answered
  <2>2. CASE n # 0 /\ count < Len(kept)
    <3>0. count + 1 \in 1..Len(kept)
      BY <1>6, <2>2
    <3>1. count + 1 \in 1..Len(kept) /\ cursor' = kept[count + 1]
      BY <1>1, <2>2, <3>0 DEF Answered
    <3>2. \A i \in 1..count : i \in 1..Len(kept) /\ i < count + 1
      BY <1>6
    <3>3. cursor' \in from..(from + n)
      BY <1>1, <1>4, <1>6, <3>1 DEF Answered, ShowsBatch
    <3> QED BY <1>1, <2>2, <3>1, <3>2, <3>3 DEF Answered, ShowsBatch
  <2>3. CASE n # 0 /\ count = Len(kept)
    <3>1. cursor' = from + n
      BY <1>1, <1>6, <2>3 DEF Answered
    <3> QED BY <1>1, <1>4, <1>6, <2>3, <3>1 DEF Answered, ShowsBatch
  <2> QED BY <1>6, <2>1, <2>2, <2>3
<1>9. /\ cursor' \in Nat \cup {FromTail}
      /\ origin' \in Nat \cup {FromTail}
      /\ cursor' = FromTail <=> origin' = FromTail
      /\ cursor' <= Len(log) \/ cursor' = origin'
      /\ origin # FromTail => origin' = origin
      /\ origin = FromTail /\ n # 0 => origin' = from
      /\ origin = FromTail /\ n = 0 => origin' = cursor'
  <2>1. /\ origin = FromTail /\ cursor' # FromTail =>
               origin' = IF n # 0 THEN from ELSE cursor'
        /\ ~(origin = FromTail /\ cursor' # FromTail) => origin' = origin
    BY <1>1 DEF Answered
  <2>2. CASE n = 0
    <3>1. CASE cursor # FromTail
      <4>1. cursor' = cursor /\ origin' = origin /\ origin # FromTail
        BY <1>3, <1>8, <2>1, <2>2, <3>1
      <4> QED BY <1>3, <2>2, <3>1, <4>1 DEF IInv, PositionOK
    <3>2. CASE cursor = FromTail
      BY <1>3, <1>5, <1>8, <2>1, <2>2, <3>2
    <3> QED BY <3>1, <3>2
  <2>3. CASE n # 0
    <3>1. cursor' \in Nat /\ cursor' # FromTail /\ cursor' <= Len(log)
      BY <1>3, <1>4, <1>8, <2>3
    <3> QED BY <1>3, <1>4, <2>1, <2>3, <3>1
  <2> QED BY <2>2, <2>3
<1>10. /\ caughtUp' \in 0..Len(log)
       /\ caughtUp' > 0 => cursor' >= caughtUp'
  <2>1. CASE caughtUp' = caughtUp
    BY <1>3, <1>4, <1>8, <2>1 DEF IInv, CaughtUpIsHonest
  <2>2. CASE caughtUp' # caughtUp
    <3>1. /\ caughtUp' = call.tail /\ call.tail # NoTail
          /\ n # 0 => cursor' = call.tail
          /\ n = 0 => cursor' = IF cursor # FromTail THEN cursor ELSE call.tail
      BY <1>1, <2>2 DEF Answered
    <3> QED BY <1>3, <1>4, <1>5, <3>1
  <2> QED BY <2>1, <2>2
<1>11. TypeOK'
  <2>1. caughtUp' \in 0..MaxLog
    BY <1>3, <1>10
  <2> QED BY <1>2, <1>7, <1>9, <2>1 DEF IInv, TypeOK
<1>12. /\ \A i \in DOMAIN delivered' : delivered'[i] < cursor'
       /\ delivered' # <<>> => cursor' <= Len(log)
  <2>1. ASSUME NEW i \in DOMAIN delivered'
        PROVE  delivered'[i] < cursor' /\ cursor' <= Len(log)
    <3>1. CASE i <= m
      <4>1. i \in DOMAIN delivered /\ delivered'[i] = delivered[i]
            /\ delivered[i] \in Nat /\ delivered # <<>>
        <5>1. i \in 1..m
          BY <1>6, <1>7, <3>1
        <5> QED BY <1>3, <1>6, <1>7, <5>1, EmptySeq
      <4>2. delivered[i] < cursor /\ delivered[i] < from /\ cursor <= Len(log)
        BY <1>4, <4>1 DEF IInv, PositionOK
      <4>3. cursor # FromTail
        <5>1. origin # FromTail
          BY <4>1 DEF IInv, PositionOK
        <5> QED BY <1>3, <5>1
      <4>4. CASE n = 0
        <5>1. cursor' = cursor
          BY <1>8, <4>3, <4>4
        <5> QED BY <4>1, <4>2, <5>1
      <4>5. CASE n # 0
        <5>1. cursor' \in from..(from + n)
          BY <1>8, <4>5
        <5> QED BY <1>3, <1>4, <4>1, <4>2, <5>1
      <4> QED BY <4>4, <4>5
    <3>2. CASE ~(i <= m)
      <4>1. PICK k \in 1..count : i = m + k
        <5>1. /\ i - m \in 1..count
              /\ i = m + (i - m)
          BY <1>6, <1>7, <3>2
        <5> QED BY <5>1
      <4>2. n # 0 /\ delivered'[i] = kept[k]
        BY <1>6, <1>7, <1>8, <4>1
      <4> QED BY <1>4, <1>8, <4>1, <4>2
    <3> QED BY <3>1, <3>2
  <2>2. delivered' # <<>> => 1 \in DOMAIN delivered'
    BY <1>7, EmptySeq
  <2> QED BY <2>1, <2>2
<1>13. (RetainedOK /\ PositionOK /\ SentOK /\ ServedOK)'
  <2>1. caughtUp' <= Len(log)
    BY <1>3, <1>10
  <2> QED BY <1>2, <1>9, <1>12, <2>1 DEF IInv, RetainedOK, PositionOK, SentOK, ServedOK
<1>14. NoRecordSkipped'
  <2>1. SUFFICES ASSUME NEW s \in 0..(Len(log) - 1), origin' # FromTail,
                        origin' <= s, s < cursor'
                 PROVE  \/ s < first
                        \/ log[s + 1].kind = "command"
                        \/ s \in Range(delivered')
    BY <1>2 DEF NoRecordSkipped
  \* What was passed before was delivered before.
  <2>2. CASE s < cursor
    <3>1. origin # FromTail /\ origin <= s
      BY <1>3, <1>9, <2>1, <2>2
    <3>2. \/ s < first
          \/ log[s + 1].kind = "command"
          \/ s \in Range(delivered)
      BY <2>1, <2>2, <3>1 DEF IInv, NoRecordSkipped
    <3>3. s \in Range(delivered) => s \in Range(delivered')
      BY <1>3, <1>6, <1>7 DEF Range
    <3> QED BY <3>2, <3>3
  <2>3. CASE ~(s < cursor)
    <3>1. n # 0
      BY <1>3, <1>8, <1>9, <2>1, <2>3
    <3>2. s < first \/ from <= s
      BY <1>3, <1>4, <1>9, <2>1, <2>3, <3>1
    <3>3. CASE from <= s
      <4>1. s \in from..(from + n - 1)
        BY <1>4, <1>8, <2>1, <3>1, <3>3
      <4>2. CASE \E i \in 1..Len(kept) : kept[i] = s
        <5>1. PICK i \in 1..Len(kept) : kept[i] = s
          BY <4>2
        <5>2. i <= count
          <6>1. SUFFICES ASSUME count < i PROVE FALSE
            BY <1>6
          <6>2. count + 1 \in 1..Len(kept) /\ count < Len(kept)
            BY <1>6, <6>1
          <6>3. cursor' = kept[count + 1]
            BY <1>1, <3>1, <6>2 DEF Answered
          <6>4. kept[count + 1] <= kept[i]
            <7>1. count + 1 = i \/ count + 1 < i
              BY <1>6, <6>1
            <7>2. count + 1 < i => kept[count + 1] < kept[i]
              BY <1>1, <6>2 DEF Answered, ShowsBatch
            <7> QED BY <1>6, <6>2, <7>1, <7>2
          <6> QED BY <1>6, <2>1, <5>1, <6>2, <6>3, <6>4
        <5>3. i \in 1..count /\ m + i \in 1..(m + count)
          BY <1>3, <1>6, <5>2
        <5>4. /\ m + i \in DOMAIN delivered'
              /\ delivered'[m + i] = s
          BY <1>7, <5>1, <5>3
        <5> QED BY <5>4 DEF Range
      <4> QED BY <1>1, <4>1, <4>2 DEF Answered, ShowsBatch
    <3> QED BY <3>2, <3>3
  <2> QED BY <2>2, <2>3
<1>15. DeliveredInOrder'
  <2>1. SUFFICES ASSUME NEW i \in DOMAIN delivered', NEW j \in DOMAIN delivered', i < j
                 PROVE  delivered'[i] < delivered'[j]
    BY DEF DeliveredInOrder
  <2>0. i \in 1..(m + count) /\ j \in 1..(m + count)
    BY <1>7
  <2>2. CASE j <= m
    <3>1. i \in 1..m /\ j \in 1..m
      BY <1>6, <2>0, <2>1, <2>2
    <3>2. delivered[i] < delivered[j]
      BY <1>6, <2>1, <3>1 DEF IInv, DeliveredInOrder
    <3> QED BY <1>7, <3>1, <3>2
  <2>3. CASE ~(j <= m)
    <3>1. PICK k \in 1..count : j = m + k
      <4>1. /\ j - m \in 1..count
            /\ j = m + (j - m)
        BY <1>6, <2>0, <2>3
      <4> QED BY <4>1
    <3>2. /\ delivered'[j] = kept[k] /\ k \in 1..Len(kept)
          /\ from <= kept[k] /\ kept[k] \in Nat
      <4>1. delivered'[j] = kept[k]
        BY <1>7, <3>1
      <4>2. k \in 1..Len(kept)
        BY <1>6
      <4> QED BY <1>1, <1>6, <4>1, <4>2 DEF Answered, ShowsBatch
    <3>3. CASE i <= m
      <4>1. i \in DOMAIN delivered /\ delivered'[i] = delivered[i]
            /\ delivered[i] \in Nat
        <5>1. i \in 1..m
          BY <1>6, <2>0, <3>3
        <5> QED BY <1>6, <1>7, <5>1
      <4> QED BY <1>4, <3>2, <4>1
    <3>4. CASE ~(i <= m)
      <4>1. PICK h \in 1..count : i = m + h
        <5>1. /\ i - m \in 1..count
              /\ i = m + (i - m)
          BY <1>3, <1>6, <2>0, <3>4
        <5> QED BY <5>1
      <4>2. h \in 1..Len(kept) /\ h < k
        BY <1>3, <1>6, <2>1, <3>1, <4>1
      <4>3. delivered'[i] = kept[h]
        BY <1>7, <4>1
      <4> QED BY <1>1, <3>2, <4>2, <4>3 DEF Answered, ShowsBatch
    <3> QED BY <3>3, <3>4
  <2> QED BY <2>2, <2>3
<1> QED
  BY <1>10, <1>11, <1>13, <1>14, <1>15 DEF IInv, CaughtUpIsHonest
-----------------------------------------------------------------------------
(* The theorems. *)

\* The inductive invariant holds: of each batch in flight, too.
THEOREM Invariance == Spec => []IInv
<1>1. IInv /\ [Next]_vars => IInv'
  <2> SUFFICES ASSUME IInv, [Next]_vars
               PROVE  IInv'
    OBVIOUS
  <2>1. CASE AppendRecord
    <3>1. PICK record \in Record : Put(record)
      BY <2>1 DEF AppendRecord
    <3> QED BY <2>1, <3>1, StreamStep DEF AppendRecord
  <2>2. CASE TrimStream
    <3>1. PICK size \in Sizes : Put([kind |-> "command", size |-> size])
      BY <2>2 DEF TrimStream
    <3>2. [kind |-> "command", size |-> size] \in Record
      BY DEF Record
    <3> QED BY <2>2, <3>1, <3>2, StreamStep DEF TrimStream
  <2>3. CASE Send
    BY <2>3, SendStep
  <2>4. CASE Serve
    BY <2>4, ServeStep
  <2>5. CASE Respond
    BY <2>5, RespondStep
  <2>6. CASE WaitTimesOut \/ Fail
    BY <2>6, CallLost
  <2>7. CASE UNCHANGED vars
    <3> USE <2>7 DEF vars, stream
    <3>1. (TypeOK /\ RetainedOK /\ PositionOK /\ SentOK)'
      BY DEF IInv, TypeOK, RetainedOK, PositionOK, SentOK
    <3>2. \A from, n : IsBatch(from, n)' <=> IsBatch(from, n)
      BY DEF IsBatch, Numbers
    <3>3. ServedOK'
      BY <3>2 DEF IInv, ServedOK
    <3>4. (NoRecordSkipped /\ DeliveredInOrder /\ CaughtUpIsHonest)'
      BY DEF IInv, NoRecordSkipped, DeliveredInOrder, CaughtUpIsHonest
    <3> QED BY <3>1, <3>3, <3>4 DEF IInv
  <2> QED BY <2>1, <2>2, <2>3, <2>4, <2>5, <2>6, <2>7 DEF Next
<1> QED
  BY InitHolds, <1>1, PTL DEF Spec

\* The variables keep to their types.
THEOREM TypeCorrect == Spec => []TypeOK
<1>1. IInv => TypeOK
  BY DEF IInv
<1> QED BY Invariance, <1>1, PTL

\* Each data record that the client went past was delivered to it or trimmed.
THEOREM NothingSkipped == Spec => []NoRecordSkipped
<1>1. IInv => NoRecordSkipped
  BY DEF IInv
<1> QED BY Invariance, <1>1, PTL

\* No record is delivered twice or out of order.
THEOREM EachOnceInOrder == Spec => []DeliveredInOrder
<1>1. IInv => DeliveredInOrder
  BY DEF IInv
<1> QED BY Invariance, <1>1, PTL

\* caught_up is said only when no record below the reported tail is to come.
THEOREM CaughtUpHonestly == Spec => []CaughtUpIsHonest
<1>1. IInv => CaughtUpIsHonest
  BY DEF IInv
<1> QED BY Invariance, <1>1, PTL
=============================================================================
