------------------------- MODULE StreamWriterProofs -------------------------
(***************************************************************************)
(* StreamWriter keeps its two promises for every set of clients and any    *)
(* number of attempts.                                                     *)
(*                                                                         *)
(* AppliedAtMostOnce rests on a client never changing its mind: all calls  *)
(* of a kind it ever sent are one call (AskedOnce), so if it matches, they *)
(* carry one match_seq_num, and that was the place of the one that was     *)
(* applied (PlaceOK).  FencedOffWritesNothing rests on the stream's token  *)
(* being the last fence of the log (TokenOK).                              *)
(***************************************************************************)
EXTENDS StreamWriter, TLAPS

\* The calls that were sent and not refused or lost.
Calls == {request.call : request \in net} \cup {log[i] : i \in DOMAIN log}
CallsOf(w) == {call \in Calls : call.by = w}

\* A call presents the token of its client as an owner, and a matching client
\* passes a match_seq_num.
CallOK(call) ==
    /\ call \in Arguments
    /\ call.owner => call.token = call.by
    /\ call.by \in matching => call.match \in Nat

Outstanding(w) == writer[w] \in {"calling", "cancelled"}

ArgumentsOK ==
    /\ \A call \in Calls : CallOK(call)
    /\ \A w \in Writers :
           Outstanding(w) => CallOK(arguments[w]) /\ arguments[w].by = w

\* What a client sends next agrees with all it has sent.
Agrees(w, next) ==
    \A call \in CallsOf(w) :
        /\ call.kind = next.kind => call = next
        /\ call.kind = "batch" => next.kind = "batch"

AskedOnce ==
    \A w \in Writers :
        /\ \A c, d \in CallsOf(w) : c.kind = d.kind => c = d
        /\ writer[w] = "idle" => CallsOf(w) = {}
        /\ writer[w] = "ready" =>
               \A c \in CallsOf(w) : c.kind = "fence" /\ w \in owners
        /\ Outstanding(w) => Agrees(w, arguments[w])

\* A request that carried a match_seq_num is in its place.
PlaceOK == \A i \in DOMAIN log : log[i].match = NoMatch \/ log[i].match = i - 1

\* The stream's token is that of the last fence.
TokenOK ==
    token # NoToken =>
        \E j \in DOMAIN log :
            /\ log[j].kind = "fence" /\ log[j].by = token
            /\ \A k \in DOMAIN log : k > j => log[k].kind # "fence"

IInv ==
    /\ TypeOK /\ ArgumentsOK /\ AskedOnce /\ PlaceOK /\ TokenOK
    /\ FencedOffWritesNothing

-----------------------------------------------------------------------------

LEMMA InitIInv == Init => IInv
<1> SUFFICES ASSUME Init PROVE IInv
  OBVIOUS
<1>1. log = <<>> /\ DOMAIN log = {} /\ net = {} /\ Calls = {}
  BY DEF Init, Calls
<1>2. TypeOK
  BY WritersAssumption DEF Init, TypeOK, Tokens, WriterState
<1>3. \A w \in Writers : writer[w] = "idle"
  BY DEF Init
<1>4. ArgumentsOK
  BY <1>1, <1>3 DEF ArgumentsOK, Outstanding
<1>5. AskedOnce
  BY <1>1, <1>3 DEF AskedOnce, CallsOf, Outstanding
<1>6. PlaceOK /\ TokenOK /\ FencedOffWritesNothing
  BY <1>1 DEF Init, PlaceOK, TokenOK, FencedOffWritesNothing
<1> QED
  BY <1>2, <1>4, <1>5, <1>6 DEF IInv

\* The properties of the log alone hold as long as it does not change.
LEMMA LogUnchanged ==
  ASSUME IInv, UNCHANGED <<log, token>>
  PROVE  PlaceOK' /\ TokenOK' /\ FencedOffWritesNothing'
BY DEF IInv, PlaceOK, TokenOK, FencedOffWritesNothing, Fences

\* A client sends a call that agrees with all it has sent before.
LEMMA SendStep ==
  ASSUME IInv, NEW w \in Writers, NEW call, Send(w, call),
         CallOK(call), call.by = w, Agrees(w, call)
  PROVE  IInv'
<1> USE DEF Outstanding
<1>1. /\ log' = log /\ token' = token /\ matching' = matching /\ owners' = owners
      /\ answers' = answers /\ tail' = tail
      /\ attempts[w] < MaxAttempts
      /\ attempts' = [attempts EXCEPT ![w] = @ + 1]
      /\ net' = net \cup {[call |-> call, attempt |-> attempts'[w]]}
      /\ writer' = [writer EXCEPT ![w] = "calling"]
      /\ arguments' = [arguments EXCEPT ![w] = call]
  BY DEF Send
<1>2. TypeOK
  BY DEF IInv
<1>3. call \in Arguments
  BY DEF CallOK
<1>4. TypeOK'
  <2>1. attempts'[w] \in 1..MaxAttempts /\ attempts' \in [Writers -> 0..MaxAttempts]
    BY <1>1, <1>2, WritersAssumption DEF TypeOK
  <2>2. net' \subseteq [call : Arguments, attempt : 1..MaxAttempts]
    BY <1>1, <1>2, <1>3, <2>1 DEF TypeOK
  <2>3. /\ writer' \in [Writers -> WriterState]
        /\ arguments' \in [Writers -> Arguments \cup {NoCall}]
    BY <1>1, <1>2, <1>3 DEF TypeOK, WriterState
  <2> QED
    BY <1>1, <1>2, <2>1, <2>2, <2>3 DEF TypeOK
<1>5. Calls' = Calls \cup {call}
  <2> DEFINE sent == [call |-> call, attempt |-> attempts'[w]]
  <2>1. sent.call = call
    OBVIOUS
  <2> HIDE DEF sent
  <2>2. {request.call : request \in net'} = {request.call : request \in net} \cup {call}
    BY <1>1, <2>1 DEF sent
  <2> QED
    BY <1>1, <2>2 DEF Calls
<1>6. /\ CallsOf(w)' = CallsOf(w) \cup {call}
      /\ \A x \in Writers : x # w => CallsOf(x)' = CallsOf(x)
  BY <1>5 DEF CallsOf
<1>7. /\ writer'[w] = "calling" /\ arguments'[w] = call
      /\ \A x \in Writers : x # w => /\ writer'[x] = writer[x]
                                     /\ arguments'[x] = arguments[x]
  BY <1>1, <1>2 DEF TypeOK
<1>8. ArgumentsOK'
  BY <1>1, <1>5, <1>7 DEF IInv, ArgumentsOK, CallOK
<1>9. AskedOnce'
  <2>1. Agrees(w, call)'
    BY <1>6 DEF Agrees
  <2> SUFFICES ASSUME NEW x \in Writers
               PROVE  /\ \A c, d \in CallsOf(x)' : c.kind = d.kind => c = d
                      /\ writer'[x] = "idle" => CallsOf(x)' = {}
                      /\ writer'[x] = "ready" =>
                             \A c \in CallsOf(x)' : c.kind = "fence" /\ x \in owners'
                      /\ Outstanding(x)' => Agrees(x, arguments[x])'
    BY DEF AskedOnce
  <2>2. CASE x = w
    BY <1>6, <1>7, <2>1, <2>2 DEF IInv, AskedOnce, Agrees
  <2>3. CASE x # w
    BY <1>1, <1>6, <1>7, <2>3 DEF IInv, AskedOnce, Agrees
  <2> QED
    BY <2>2, <2>3
<1> QED
  BY <1>1, <1>4, <1>8, <1>9, LogUnchanged DEF IInv

\* The first call of a kind agrees with what was sent, and a retry does.
LEMMA CallStep ==
  ASSUME IInv, NEW w \in Writers, FenceStream(w) \/ AppendRecords(w) \/ Retry(w)
  PROVE  IInv'
<1>1. /\ tail[w] \in Nat /\ MatchSeqNum(w) \in Int
      /\ w \in matching => MatchSeqNum(w) \in Nat
      /\ FencingToken(w) \in Tokens /\ NoToken \in Tokens
  BY DEF IInv, TypeOK, MatchSeqNum, NoMatch, FencingToken, Tokens
<1>2. CASE FenceStream(w)
  <2> DEFINE call == [kind |-> "fence", by |-> w, owner |-> FALSE,
                      match |-> MatchSeqNum(w), token |-> NoToken]
  <2>1. CallOK(call) /\ call.by = w
    BY <1>1 DEF CallOK, Arguments
  <2>2. Agrees(w, call)
    BY <1>2 DEF IInv, AskedOnce, Agrees, FenceStream
  <2>3. Send(w, call)
    BY <1>2 DEF FenceStream
  <2> HIDE DEF call
  <2> QED
    BY <2>1, <2>2, <2>3, SendStep
<1>3. CASE AppendRecords(w)
  <2> DEFINE call == [kind |-> "batch", by |-> w, owner |-> w \in owners,
                      match |-> MatchSeqNum(w), token |-> FencingToken(w)]
  <2>1. CallOK(call) /\ call.by = w
    <3>1. (w \in owners) \in BOOLEAN
      OBVIOUS
    <3>2. w \in owners => FencingToken(w) = w
      BY DEF FencingToken
    <3> QED
      BY <1>1, <3>1, <3>2 DEF CallOK, Arguments
  <2>2. Agrees(w, call)
    BY <1>3 DEF IInv, AskedOnce, Agrees, AppendRecords
  <2>3. Send(w, call)
    BY <1>3 DEF AppendRecords
  <2> HIDE DEF call
  <2> QED
    BY <2>1, <2>2, <2>3, SendStep
<1>4. CASE Retry(w)
  <2>1. Outstanding(w) /\ Send(w, arguments[w])
    BY <1>4 DEF Retry, Outstanding
  <2>2. CallOK(arguments[w]) /\ arguments[w].by = w /\ Agrees(w, arguments[w])
    BY <2>1 DEF IInv, ArgumentsOK, AskedOnce
  <2> QED
    BY <2>1, <2>2, SendStep
<1> QED
  BY <1>2, <1>3, <1>4

\* A client learns the tail, is cancelled, or gets its answer.
LEMMA ClientStep ==
  ASSUME IInv, NEW w \in Writers, CheckTail(w) \/ Cancel(w) \/ Answer(w)
  PROVE  IInv'
<1> USE DEF Outstanding
<1>1. TypeOK
  BY DEF IInv
<1>2. /\ UNCHANGED <<log, token, net, answers, matching, arguments, attempts>>
      /\ Calls' = Calls
  BY DEF CheckTail, Cancel, Answer, service, Calls
<1>3. /\ owners \subseteq owners' /\ owners' \subseteq owners \cup {w}
      /\ tail' \in [Writers -> Nat]
      /\ \E state \in WriterState :
             /\ writer' = [writer EXCEPT ![w] = state]
             /\ state # "idle"
             /\ state \in {"calling", "cancelled"} => Outstanding(w)
             /\ state = "ready" =>
                    \/ writer[w] = "idle"
                    \/ Outstanding(w) /\ arguments[w].kind = "fence" /\ w \in owners'
  <2>1. CASE CheckTail(w)
    <3>1. Len(log) \in Nat
      BY <1>1 DEF TypeOK
    <3> QED
      BY <1>1, <2>1, <3>1 DEF CheckTail, TypeOK, WriterState
  <2>2. CASE Cancel(w)
    BY <1>1, <2>2 DEF Cancel, TypeOK, WriterState
  <2>3. CASE Answer(w)
    <3>1. PICK answer \in answers :
              IF ~answer.applied
              THEN /\ writer' = [writer EXCEPT ![w] = "refused"]
                   /\ UNCHANGED <<owners, tail>>
              ELSE IF arguments[w].kind = "fence"
              THEN /\ writer' = [writer EXCEPT ![w] = "ready"]
                   /\ owners' = owners \cup {w}
                   /\ tail' = [tail EXCEPT ![w] = answer.tail]
              ELSE /\ writer' = [writer EXCEPT ![w] = "done"]
                   /\ UNCHANGED <<owners, tail>>
      BY <2>3 DEF Answer
    <3>2. answer.tail \in Nat /\ writer[w] = "calling"
      BY <1>1, <2>3 DEF TypeOK, Answer
    <3> QED
      BY <1>1, <3>1, <3>2 DEF TypeOK, WriterState
  <2> QED
    BY <2>1, <2>2, <2>3
<1>4. PICK state \in WriterState :
          /\ writer' = [writer EXCEPT ![w] = state]
          /\ state # "idle"
          /\ state \in {"calling", "cancelled"} => Outstanding(w)
          /\ state = "ready" =>
                 \/ writer[w] = "idle"
                 \/ Outstanding(w) /\ arguments[w].kind = "fence" /\ w \in owners'
  BY <1>3
<1>5. /\ writer'[w] = state
      /\ \A x \in Writers : x # w => writer'[x] = writer[x]
  BY <1>1, <1>4 DEF TypeOK
<1>6. TypeOK'
  BY <1>1, <1>2, <1>3, <1>4 DEF TypeOK
<1>7. ArgumentsOK'
  BY <1>2, <1>4, <1>5 DEF IInv, ArgumentsOK, CallOK
<1>8. AskedOnce'
  <2>1. \A x \in Writers : CallsOf(x)' = CallsOf(x)
    BY <1>2 DEF CallsOf
  <2> SUFFICES ASSUME NEW x \in Writers
               PROVE  /\ \A c, d \in CallsOf(x)' : c.kind = d.kind => c = d
                      /\ writer'[x] = "idle" => CallsOf(x)' = {}
                      /\ writer'[x] = "ready" =>
                             \A c \in CallsOf(x)' : c.kind = "fence" /\ x \in owners'
                      /\ Outstanding(x)' => Agrees(x, arguments[x])'
    BY DEF AskedOnce
  <2>2. CASE x # w
    BY <1>2, <1>3, <1>5, <2>1, <2>2 DEF IInv, AskedOnce, Agrees
  <2>3. CASE x = w
    <3>1. writer'[w] = "ready" =>
              \A c \in CallsOf(w) : c.kind = "fence" /\ w \in owners'
      <4>1. CASE writer[w] = "idle"
        BY <4>1 DEF IInv, AskedOnce
      <4>2. CASE Outstanding(w) /\ arguments[w].kind = "fence" /\ w \in owners'
        <5>1. \A c \in CallsOf(w) : c \in Arguments /\ c.kind # "batch"
          BY <4>2 DEF IInv, AskedOnce, Agrees, ArgumentsOK, CallOK, CallsOf
        <5> QED
          BY <4>2, <5>1 DEF Arguments
      <4> QED
        BY <1>4, <1>5, <4>1, <4>2
    <3>2. Outstanding(w)' => Agrees(w, arguments[w])'
      BY <1>2, <1>4, <1>5, <2>1 DEF IInv, AskedOnce, Agrees
    <3> QED
      BY <1>4, <1>5, <2>1, <2>3, <3>1, <3>2 DEF IInv, AskedOnce
  <2> QED
    BY <2>2, <2>3
<1> QED
  BY <1>2, <1>6, <1>7, <1>8, LogUnchanged DEF IInv

\* The service applies a call at the place it names, under the token it
\* presents, or refuses it.
LEMMA ApplyStep ==
  ASSUME IInv, NEW request \in net, Apply(request)
  PROVE  IInv'
<1> DEFINE call == request.call
           applied == Applicable(call)
           reply == [by |-> call.by, attempt |-> request.attempt,
                     applied |-> applied, tail |-> IF applied THEN Len(log') ELSE 0]
<1>1. TypeOK
  BY DEF IInv
<1>2. /\ call \in Arguments /\ request.attempt \in 1..MaxAttempts
      /\ log \in Seq(Arguments) /\ call \in Calls /\ CallOK(call)
  BY <1>1 DEF TypeOK, Calls, IInv, ArgumentsOK
<1>3. UNCHANGED <<matching, writer, arguments, owners, tail, attempts>>
  BY DEF Apply, clients
<1>4. /\ IF applied
         THEN /\ log' = Append(log, call)
              /\ token' = IF call.kind = "fence" THEN call.by ELSE token
         ELSE log' = log /\ token' = token
      /\ answers' = answers \cup {reply}
      /\ net' \subseteq net
  BY DEF Apply
<1>5. /\ log' \in Seq(Arguments) /\ token' \in Tokens
      /\ Len(log') \in Nat
  <2>1. call.by \in Writers /\ token \in Tokens
    BY <1>1, <1>2 DEF TypeOK, Arguments
  <2> HIDE DEF call, applied
  <2>2. log' \in Seq(Arguments)
    BY <1>2, <1>4
  <2> QED
    BY <1>4, <2>1, <2>2 DEF Tokens
<1>6. TypeOK'
  <2>1. reply \in [by : Writers, attempt : 1..MaxAttempts,
                   applied : BOOLEAN, tail : Nat]
    <3>1. applied \in BOOLEAN /\ call.by \in Writers
      BY <1>2 DEF Applicable, Arguments
    <3> HIDE DEF applied, call
    <3> QED
      BY <1>2, <1>5, <3>1
  <2> HIDE DEF reply
  <2>2. answers' \subseteq [by : Writers, attempt : 1..MaxAttempts,
                            applied : BOOLEAN, tail : Nat]
    BY <1>1, <1>4, <2>1 DEF TypeOK
  <2> QED
    BY <1>1, <1>3, <1>4, <1>5, <2>2 DEF TypeOK
<1> HIDE DEF call, applied, reply
<1>7. /\ Calls' \subseteq Calls
      /\ \A w \in Writers : CallsOf(w)' \subseteq CallsOf(w)
  <2>1. \A i \in DOMAIN log' : log'[i] \in Calls
    BY <1>2, <1>4 DEF Calls
  <2>2. Calls' \subseteq Calls
    BY <1>4, <2>1 DEF Calls
  <2> QED
    BY <2>2 DEF CallsOf
<1>8. ArgumentsOK'
  BY <1>3, <1>7 DEF IInv, ArgumentsOK, CallOK, Outstanding
<1>9. AskedOnce'
  BY <1>3, <1>7 DEF IInv, AskedOnce, Agrees, Outstanding
<1>10. CASE ~applied
  BY <1>4, <1>6, <1>8, <1>9, <1>10, LogUnchanged DEF IInv
<1>11. CASE applied
  <2>1. /\ Len(log) \in Nat /\ DOMAIN log = 1..Len(log)
        /\ DOMAIN log' = 1..(Len(log) + 1)
        /\ \A i \in DOMAIN log : log'[i] = log[i]
        /\ log'[Len(log) + 1] = call
    BY <1>2, <1>4, <1>11
  <2>2. call.match \in {NoMatch, Len(log)} /\ call.token \in {NoToken, token}
    BY <1>11 DEF applied, Applicable
  <2>3. PlaceOK'
    BY <2>1, <2>2 DEF IInv, PlaceOK
  <2>4. TokenOK'
    <3>1. CASE call.kind = "fence"
      BY <1>4, <1>11, <2>1, <3>1 DEF TokenOK
    <3>2. CASE call.kind # "fence"
      <4> SUFFICES ASSUME token' # NoToken
                   PROVE  \E j \in DOMAIN log' :
                              /\ log'[j].kind = "fence" /\ log'[j].by = token'
                              /\ \A k \in DOMAIN log' : k > j => log'[k].kind # "fence"
        BY DEF TokenOK
      <4>1. token' = token
        BY <1>4, <1>11, <3>2
      <4>2. PICK j \in DOMAIN log :
                /\ log[j].kind = "fence" /\ log[j].by = token
                /\ \A k \in DOMAIN log : k > j => log[k].kind # "fence"
        BY <4>1 DEF IInv, TokenOK
      <4>3. \A k \in DOMAIN log' : k > j => log'[k].kind # "fence"
        BY <2>1, <3>2, <4>2
      <4> QED
        BY <2>1, <4>1, <4>2, <4>3
    <3> QED
      BY <3>1, <3>2
  <2>5. FencedOffWritesNothing'
    <3> SUFFICES ASSUME NEW i \in DOMAIN log',
                        log'[i].kind = "batch", log'[i].owner
                 PROVE  \E j \in Fences(i)' :
                            /\ log'[j].by = log'[i].by
                            /\ \A k \in Fences(i)' : k > j => log'[k].by = log'[i].by
      BY DEF FencedOffWritesNothing
    <3>1. CASE i \in DOMAIN log
      <4>1. Fences(i)' = Fences(i)
        BY <2>1, <3>1 DEF Fences
      <4>2. Fences(i) \subseteq DOMAIN log
        BY <2>1, <3>1 DEF Fences
      <4> QED
        BY <2>1, <3>1, <4>1, <4>2 DEF IInv, FencedOffWritesNothing
    <3>2. CASE i = Len(log) + 1
      <4>1. call.kind = "batch" /\ call.token = call.by /\ call.by \in Writers
        BY <1>2, <2>1, <3>2 DEF CallOK, Arguments
      <4>2. token = call.by /\ token # NoToken
        BY <2>2, <4>1, WritersAssumption
      <4>3. PICK j \in DOMAIN log :
                /\ log[j].kind = "fence" /\ log[j].by = token
                /\ \A k \in DOMAIN log : k > j => log[k].kind # "fence"
        BY <4>2 DEF IInv, TokenOK
      <4>4. Fences(i)' = {k \in DOMAIN log : log[k].kind = "fence"}
        BY <2>1, <3>2 DEF Fences
      <4> QED
        BY <2>1, <3>2, <4>2, <4>3, <4>4
    <3> QED
      BY <2>1, <3>1, <3>2
  <2> QED
    BY <1>6, <1>8, <1>9, <2>3, <2>4, <2>5 DEF IInv
<1> QED
  BY <1>10, <1>11

LEMMA NextIInv == IInv /\ [Next]_vars => IInv'
<1> SUFFICES ASSUME IInv, [Next]_vars PROVE IInv'
  OBVIOUS
<1>1. ASSUME NEW w \in Writers, CheckTail(w) \/ Cancel(w) \/ Answer(w)
      PROVE  IInv'
  BY <1>1, ClientStep
<1>2. ASSUME NEW w \in Writers, FenceStream(w) \/ AppendRecords(w) \/ Retry(w)
      PROVE  IInv'
  BY <1>2, CallStep
<1>3. ASSUME NEW request \in net, Apply(request)
      PROVE  IInv'
  BY <1>3, ApplyStep
<1>4. CASE UNCHANGED vars
  <2>1. UNCHANGED <<log, token, net, answers, matching, writer, arguments,
                    owners, tail, attempts>>
    BY <1>4 DEF vars, service, clients
  <2>2. Calls' = Calls /\ \A w \in Writers : CallsOf(w)' = CallsOf(w)
    BY <2>1 DEF Calls, CallsOf
  <2>3. TypeOK'
    BY <2>1 DEF IInv, TypeOK
  <2>4. ArgumentsOK' /\ AskedOnce'
    BY <2>1, <2>2
       DEF IInv, ArgumentsOK, CallOK, AskedOnce, Agrees, Outstanding
  <2> QED
    BY <2>1, <2>3, <2>4, LogUnchanged DEF IInv
<1> QED
  BY <1>1, <1>2, <1>3, <1>4 DEF Next

\* IInv is an invariant of the stream's clients.
THEOREM WriterInvariant == Spec => []IInv
BY InitIInv, NextIInv, PTL DEF Spec

\* A call that carries a match_seq_num is not in the log twice.
LEMMA MatchedOnce == IInv => AppliedAtMostOnce
<1> SUFFICES ASSUME IInv, NEW w \in matching, Repeated(w)
             PROVE  FALSE
  BY DEF AppliedAtMostOnce
<1>1. w \in Writers /\ log \in Seq(Arguments)
  BY DEF IInv, TypeOK
<1>2. PICK i, j \in DOMAIN log : i # j /\ log[i].by = w /\ log[j].by = w
                                       /\ log[i].kind = log[j].kind
  BY DEF Repeated
<1>3. log[i] \in CallsOf(w) /\ log[j] \in CallsOf(w)
  BY <1>2 DEF CallsOf, Calls
<1>4. log[i] = log[j]
  BY <1>1, <1>2, <1>3 DEF IInv, AskedOnce
<1>5. log[i].match \in Nat
  BY <1>2, <1>3 DEF IInv, ArgumentsOK, CallOK, CallsOf
<1>6. log[i].match = i - 1 /\ log[j].match = j - 1
  BY <1>4, <1>5 DEF IInv, PlaceOK, NoMatch
<1> QED
  BY <1>1, <1>2, <1>4, <1>6

\* The stream, the requests in flight and the clients keep their types.
THEOREM WriterTypeCorrect == Spec => []TypeOK
<1>1. IInv => TypeOK
  BY DEF IInv
<1> QED
  BY <1>1, WriterInvariant, PTL

\* A cancelled write that carries match_seq_num can be retried as often as one
\* likes, for any number of clients: it is in the stream at most once.
THEOREM MatchingRetryIsSafe == Spec => []AppliedAtMostOnce
BY MatchedOnce, WriterInvariant, PTL

\* An owner that was fenced off writes nothing more, for any number of clients,
\* retries, resends and delays.
THEOREM FencingExcludes == Spec => []FencedOffWritesNothing
<1>1. IInv => FencedOffWritesNothing
  BY DEF IInv
<1> QED
  BY <1>1, WriterInvariant, PTL
=============================================================================
