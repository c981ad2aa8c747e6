---------------------------- MODULE RecordReader ----------------------------
(***************************************************************************)
(* A client that follows a stream with read_records and wait_for_records   *)
(* (crates/s2-mcp/src/operations/records.rs): each call starts at the      *)
(* next_seq_num of the one before it, while others append, fence and trim. *)
(*                                                                         *)
(* The stream and what the service answers to a read are external: a batch *)
(* is any contiguous run of records within the limits, and says the tail   *)
(* or not.  What the code makes of a batch - the next position, caught_up, *)
(* the command records left out, the prefix that fits the output bound -   *)
(* is translated.  Sequence numbers are far from u64::MAX.                 *)
(***************************************************************************)
EXTENDS Integers, Sequences, FiniteSets, SequencesExt

CONSTANTS
    MaxLog,     \* bound on the stream's length
    MaxRead,    \* ReadBounds.count
    MaxOutput,  \* ReadBounds.output_bytes, less the empty envelope
    Sizes       \* what serialized records contribute to the output

ASSUME ReadBoundsAssumption ==
    /\ {MaxLog, MaxRead} \subseteq Nat \ {0}
    /\ MaxOutput \in Nat
    /\ Sizes \subseteq Nat \ {0}

VARIABLES
    log,        \* the stream's records; number s is log[s + 1]
    first,      \* the earliest retained sequence number
    cursor,     \* where the next call starts: a number, or FromTail
    call,       \* the call in flight
    delivered,  \* the sequence numbers handed to the client, in order
    origin,     \* the first number the client is entitled to, or FromTail
    caughtUp    \* the tail at the last answer that said caught_up, else 0

stream == <<log, first>>
vars   == <<stream, cursor, call, delivered, origin, caughtUp>>

FromTail == -1  \* ReadPosition::TailOffset { value: 0 }
NoTail   == -2  \* a batch without a tail

Idle   == [phase |-> "idle"]
Record  == [kind : {"data", "command"}, size : Sizes]
TailNum == Len(log)
Numbers(from, to) == [i \in 1..(to - from) |-> from + i - 1]
MaxOf(S) == CHOOSE n \in S : \A m \in S : m <= n

Init ==
    /\ log \in UNION {[1..n -> Record] : n \in 0..1}
    /\ first = 0
    /\ cursor \in {FromTail} \cup 0..(MaxLog - 1)
    /\ call = Idle
    /\ delivered = <<>>
    /\ origin = cursor
    /\ caughtUp = 0

-----------------------------------------------------------------------------
(* Other clients of the stream. *)

Put(record) ==
    /\ Len(log) < MaxLog
    /\ log' = Append(log, record)

\* append_records, or fence_stream's command record.
AppendRecord ==
    /\ \E record \in Record : Put(record)
    /\ UNCHANGED <<first, cursor, call, delivered, origin, caughtUp>>

\* trim_stream appends a command record; the service then drops the rest.
TrimStream ==
    /\ \E size \in Sizes : Put([kind |-> "command", size |-> size])
    /\ first' \in (first + 1)..Len(log)
    /\ UNCHANGED <<cursor, call, delivered, origin, caughtUp>>

-----------------------------------------------------------------------------
(* The request and the service's batch. *)

Send ==
    /\ call = Idle
    /\ \E tool \in {"read", "wait"}, clamp, ignore \in BOOLEAN :
           call' = [phase |-> "sent", tool |-> tool, clamp |-> clamp,
                    ignore |-> ignore, tail |-> TailNum]
    /\ UNCHANGED <<stream, cursor, delivered, origin, caughtUp>>

\* Where the service starts when it finds the tail at t: past the tail only to
\* be clamped, and never before what is retained.
StartAt(t) ==
    LET start == IF cursor = FromTail \/ (call.clamp /\ cursor > t) THEN t
                 ELSE cursor
    IN  IF start < first THEN first ELSE start

\* A batch of n records: the wait was over, or the limits were reached.  The
\* start was settled when the request arrived, and a wait goes on from there.
Serve ==
    /\ call.phase = "sent"
    /\ \E t \in call.tail..TailNum, n \in 0..MaxRead, tail \in {NoTail, TailNum} :
           /\ StartAt(t) + n <= TailNum
           /\ n = 0 => StartAt(t) = TailNum
           /\ call' = [phase |-> "served", tool |-> call.tool,
                       ignore |-> call.ignore,
                       records |-> Numbers(StartAt(t), StartAt(t) + n),
                       tail |-> tail]
    /\ UNCHANGED <<stream, cursor, delivered, origin, caughtUp>>

-----------------------------------------------------------------------------
(* PreparedReadOutput. *)

\* fallback_next_seq_num: only a sequence number survives an empty batch.
Fallback == cursor

\* Mutant: the last record's own number.
NextSeqNum_OffByOne(records, tail) ==
    IF records # <<>> THEN Last(records)
    ELSE IF Fallback # FromTail THEN Fallback
    ELSE IF tail # NoTail THEN tail ELSE FromTail

NextSeqNum(records, tail) ==
    IF records # <<>> THEN Last(records) + 1
    ELSE IF Fallback # FromTail THEN Fallback
    ELSE IF tail # NoTail THEN tail ELSE FromTail

\* Mutant: a batch that says the tail is taken to reach it.
BatchCaughtUp_AnyTail(records, tail) == tail # NoTail

BatchCaughtUp(records, tail) ==
    /\ tail # NoTail
    /\ records # <<>> => Last(records) + 1 = tail

\* Mutant: the batch's own next position, however little of it is returned.
NextAfter_FullBatch(kept, count, next) == next

\* After a truncated prefix the next call starts at the first record left out.
NextAfter(kept, count, next) ==
    IF count < Len(kept) THEN kept[count + 1] ELSE next

SizeOf(numbers) ==
    FoldLeft(LAMBDA sum, s : sum + log[s + 1].size, 0, numbers)

\* Mutant: the first prefix that fits, the empty one, is kept.
FittingCount_First(kept) == 0

\* bounded_record_prefix: the longest prefix whose encoding fits.
FittingCount(kept) ==
    MaxOf({n \in 0..Len(kept) : SizeOf(SubSeq(kept, 1, n)) <= MaxOutput})

\* The members of a set of numbers in their order.
Ascending(S) ==
    LET place == [n \in S |-> Cardinality({m \in S : m < n}) + 1]
    IN  [i \in 1..Cardinality(S) |-> CHOOSE n \in S : place[n] = i]

\* The records of the batch the answer may show.
Kept(records, ignore) ==
    Ascending({s \in Range(records) : ~ignore \/ log[s + 1].kind = "data"})

\* The client takes the answer and moves on to its next_seq_num.
Respond ==
    /\ call.phase = "served"
    /\ LET kept  == Kept(call.records, call.ignore)
           count == FittingCount(kept)
           next  == NextAfter(kept, count,
                              NextSeqNum(call.records, call.tail))
       IN  /\ delivered' = delivered \o SubSeq(kept, 1, count)
           /\ cursor' = next
           /\ origin' = IF origin = FromTail /\ next # FromTail
                        THEN IF call.records # <<>> THEN Head(call.records)
                             ELSE next
                        ELSE origin
           /\ caughtUp' = IF call.tool = "wait" /\ count = Len(kept)
                             /\ BatchCaughtUp(call.records, call.tail)
                          THEN call.tail ELSE caughtUp
    /\ call' = Idle
    /\ UNCHANGED stream

\* The client-side deadline of wait_for_records: nothing, at the fallback.
WaitTimesOut ==
    /\ call.phase \in {"sent", "served"}
    /\ call.tool = "wait"
    /\ cursor' = Fallback
    /\ call' = Idle
    /\ UNCHANGED <<stream, delivered, origin, caughtUp>>

\* An error (a start beyond the tail is one), a cancellation, a lost answer.
Fail ==
    /\ call.phase \in {"sent", "served"}
    /\ call' = Idle
    /\ UNCHANGED <<stream, cursor, delivered, origin, caughtUp>>

-----------------------------------------------------------------------------

Next ==
    \/ AppendRecord \/ TrimStream
    \/ Send \/ Serve \/ Respond \/ WaitTimesOut \/ Fail

\* A client that keeps following, and calls that do not fail for ever.
Fairness == WF_vars(Send) /\ SF_vars(Serve) /\ SF_vars(Respond)

Spec     == Init /\ [][Next]_vars
FairSpec == Spec /\ Fairness

-----------------------------------------------------------------------------
(* Properties. *)

TypeOK ==
    /\ log \in Seq(Record) /\ Len(log) <= MaxLog
    /\ first \in 0..Len(log)
    /\ cursor \in Nat \cup {FromTail}
    /\ call \in {Idle}
           \cup [phase : {"sent"}, tool : {"read", "wait"}, clamp : BOOLEAN,
                 ignore : BOOLEAN, tail : 0..Len(log)]
           \cup [phase : {"served"}, tool : {"read", "wait"}, ignore : BOOLEAN,
                 records : Seq(Nat), tail : Nat \cup {NoTail}]
    /\ delivered \in Seq(Nat)
    /\ origin \in Nat \cup {FromTail}
    /\ caughtUp \in 0..MaxLog

\* Following next_seq_num never passes over a data record: whatever the
\* batches, the output bound, the command records left out, the timeouts and
\* the lost answers, each one below the cursor was delivered or is trimmed.
NoRecordSkipped ==
    \A s \in 0..(Len(log) - 1) :
        origin # FromTail /\ origin <= s /\ s < cursor
            => \/ s < first
               \/ log[s + 1].kind = "command"
               \/ s \in Range(delivered)

\* Nor does it deliver a record twice, or out of order.
DeliveredInOrder ==
    \A i, j \in DOMAIN delivered : i < j => delivered[i] < delivered[j]

\* An answer that says caught_up leaves the client at the tail the service
\* reported, never before it: no record below that tail is still to come.
CaughtUpIsHonest == caughtUp > 0 => cursor >= caughtUp

\* The record that does not fit max_output_bytes even alone.
Oversized == \E s \in 0..(Len(log) - 1) :
    s >= cursor /\ log[s + 1].size > MaxOutput

\* Once the stream rests, a client that keeps following reaches its tail,
\* unless it never learnt a position (a tail offset whose waits only time out)
\* or a record ahead of it is larger than the output bound.
FollowerReachesTail ==
    <>[](cursor = FromTail \/ cursor >= Len(log) \/ Oversized)
=============================================================================
