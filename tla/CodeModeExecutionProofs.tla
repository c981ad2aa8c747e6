---------------------- MODULE CodeModeExecutionProofs ----------------------
(***************************************************************************)
(* CodeModeExecution is correct for every set of calls and every limits.   *)
(*                                                                         *)
(* The properties hold by an inductive invariant in five parts: the queue  *)
(* holds each waiting call once (QueueOK), permits are conserved, the      *)
(* calls let through fit in what was spent (BudgetOK), tickets are taken   *)
(* in the order the budget is spent and honoured when a call ends          *)
(* (TraceOK), and an output exists only after the loop has drained         *)
(* (ControlOK).                                                            *)
(*                                                                         *)
(* What becomes of that output is ExecutionOutput, for every text, limits  *)
(* and result.  What the client sees is a beginning of what was written    *)
(* because no text is captured after the first cut: the budget is then     *)
(* spent, and before it nothing is missing (StreamOK).  The calls that     *)
(* were in format() at the time each add a line break (CountersOK).        *)
(***************************************************************************)
EXTENDS CodeModeExecution, ExecutionOutput, FiniteSetTheorems, SequenceTheorems, TLAPS

QueueOK ==
    /\ \A i \in DOMAIN queue : call[queue[i]] = "queued"
    /\ \A i, j \in DOMAIN queue : queue[i] = queue[j] => i = j

\* Each call let through was counted, and the counter was below the limit.
BudgetOK ==
    /\ Cardinality(Admitted) <= spent
    /\ Cardinality(Admitted) <= MaxCalls

\* No more tickets than calls; a call with a ticket is on the trace once it
\* has ended; a call without one marks the trace; and no call let through is
\* without one if the trace is as long as the budget.
TraceOK ==
    /\ Cardinality(ticketed) <= spent
    /\ ticketed \cap InState({"answered", "refused"}) \subseteq recorded
    /\ Made \subseteq ticketed \/ truncated
    /\ MaxTrace >= MaxCalls => Admitted \subseteq ticketed

\* Nothing is in flight once an output can exist; only a return cuts calls
\* off; a terminated script is on its way to a timeout.
ControlOK ==
    /\ (main = "join" /\ loopError = "none") \/ main = "extract" \/ output
           => InFlight = {}
    /\ main # "done" => InState({"dropped", "abandoned"}) = {} /\ outcome = "none"
    /\ output => main \in {"check", "capture", "done"} /\ InState({"dropped", "abandoned"}) = {}
    /\ outcome = "success" => output /\ main = "done"
    /\ loopError = "terminated" =>
           /\ watchdog = "terminated"
           /\ main \in {"join", "check", "done"}
           /\ outcome \in {"none", "timeout"}
    /\ main \in {"load", "script", "loop"} => loopError = "none"

LimiterOK == QueueOK /\ PermitsConserved /\ BudgetOK /\ TraceOK

IInv == TypeOK /\ LimiterOK /\ ControlOK

\* Every set of calls is finite.
LEMMA CallSetsFinite ==
  ASSUME NEW S \in SUBSET Calls
  PROVE  IsFiniteSet(S) /\ Cardinality(S) \in Nat
BY LimitsAssumption, FS_Subset, FS_CardinalityType

LEMMA StateSets == \A S : InState(S) \in SUBSET Calls
BY DEF InState

\* Every state satisfies the invariant at the start.
LEMMA InitIInv == Init => IInv
<1> SUFFICES ASSUME Init PROVE IInv
  OBVIOUS
<1>1. Holders = {} /\ Admitted = {} /\ Made = {}
  BY DEF Init, Holders, Admitted, Made, InState
<1>2. Cardinality(Holders) = 0 /\ Cardinality(Admitted) = 0 /\ Cardinality({}) = 0
  BY <1>1, FS_EmptySet
<1>3. TypeOK
  <2>1. call \in [Calls -> CallState] /\ queue \in Seq(Calls)
    BY DEF Init, CallState
  <2>2. permits \in 0..MaxConcurrent /\ spent \in Nat
    BY LimitsAssumption DEF Init
  <2> QED
    BY <2>1, <2>2 DEF Init, TypeOK, Mains, Outcomes
<1>4. QueueOK /\ PermitsConserved
  BY <1>2, LimitsAssumption DEF Init, QueueOK, PermitsConserved
<1>5. BudgetOK
  BY <1>2, LimitsAssumption DEF Init, BudgetOK
<1>6. TraceOK
  BY <1>1, <1>2 DEF Init, TraceOK
<1>7. ControlOK
  BY DEF Init, ControlOK, InFlight, InState
<1> QED
  BY <1>3, <1>4, <1>5, <1>6, <1>7 DEF IInv, LimiterOK
-----------------------------------------------------------------------------
(* Steps that touch no call. *)

LEMMA Untouched ==
  ASSUME LimiterOK, UNCHANGED <<call, limiter, trace>>
  PROVE  LimiterOK'
<1>1. /\ Holders' = Holders /\ Admitted' = Admitted /\ Made' = Made
      /\ InState({"answered", "refused"})' = InState({"answered", "refused"})
  BY DEF Holders, Admitted, Made, InState
<1> QED
  BY <1>1
  DEF LimiterOK, QueueOK, PermitsConserved, BudgetOK, TraceOK, limiter, trace
-----------------------------------------------------------------------------
(* The parts a call passes through. *)

\* A new call's ticket, before it is refused or let through.
LEMMA BeginTickets ==
  ASSUME IInv, NEW c \in Calls, call[c] = "idle", Begin(c)
  PROVE  /\ ticketed' \subseteq Calls /\ recorded \subseteq ticketed'
         /\ Cardinality(ticketed') <= spent + 1
         /\ ticketed' = ticketed \/ ticketed' = ticketed \cup {c}
         /\ truncated' \in BOOLEAN
         /\ c \in ticketed' \/ truncated'
         /\ truncated => truncated'
         /\ MaxTrace >= MaxCalls /\ spent < MaxCalls => c \in ticketed'
<1>1. IsFiniteSet(ticketed) /\ Cardinality(ticketed) \in Nat
  BY CallSetsFinite DEF IInv, TypeOK
<1>2. Cardinality(ticketed \cup {c}) <= Cardinality(ticketed) + 1
  BY <1>1, FS_AddElement
<1>3. Cardinality(ticketed) <= spent /\ spent \in Nat
  BY DEF IInv, TypeOK, LimiterOK, TraceOK
<1>4. CASE Cardinality(ticketed) >= MaxTrace
  BY <1>1, <1>3, <1>4, LimitsAssumption DEF Begin, IInv, TypeOK
<1>5. CASE ~(Cardinality(ticketed) >= MaxTrace)
  <2>1. ticketed' = ticketed \cup {c} /\ truncated' = truncated
    BY <1>5 DEF Begin
  <2>2. Cardinality(ticketed') \in Nat
    BY <2>1, <1>1, FS_AddElement, FS_CardinalityType
  <2> QED
    BY <2>1, <2>2, <1>1, <1>2, <1>3 DEF IInv, TypeOK
<1> QED
  BY <1>4, <1>5

\* The trace stays right when a call begins and is refused, queued or passed.
LEMMA IssueTrace ==
  ASSUME IInv, NEW c \in Calls, call[c] = "idle", Begin(c),
         spent' = spent + 1,
         NEW s \in {"refused", "queued", "host", "answered"},
         call' = [call EXCEPT ![c] = s],
         s # "refused" => spent < MaxCalls,
         recorded' = recorded \cup
             (IF s \in {"refused", "answered"} THEN {c} \cap ticketed' ELSE {})
  PROVE  TraceOK' /\ recorded' \subseteq ticketed'
<1>1. /\ ticketed' \subseteq Calls /\ recorded \subseteq ticketed'
      /\ Cardinality(ticketed') <= spent + 1
      /\ ticketed' = ticketed \/ ticketed' = ticketed \cup {c}
      /\ c \in ticketed' \/ truncated'
      /\ truncated => truncated'
      /\ MaxTrace >= MaxCalls /\ spent < MaxCalls => c \in ticketed'
  BY BeginTickets
<1>2. \A d \in Calls : call'[d] = IF d = c THEN s ELSE call[d]
  BY DEF IInv, TypeOK
<1>3. Made' = Made \cup {c}
  BY <1>2 DEF Made, InState, CallState
<1>4. Admitted' \subseteq Admitted \cup {c} /\ (s = "refused" => Admitted' = Admitted)
  BY <1>2 DEF Admitted, InState
<1>5. InState({"answered", "refused"})' \subseteq
          InState({"answered", "refused"})
              \cup (IF s \in {"refused", "answered"} THEN {c} ELSE {})
  BY <1>2 DEF InState
<1>6. c \notin InState({"answered", "refused"})
  BY DEF InState
<1>7. recorded' \subseteq ticketed'
  BY <1>1
<1>8. ticketed' \cap InState({"answered", "refused"})' \subseteq recorded'
  BY <1>1, <1>5, <1>6 DEF IInv, LimiterOK, TraceOK
<1>9. Made' \subseteq ticketed' \/ truncated'
  BY <1>1, <1>3 DEF IInv, LimiterOK, TraceOK
<1>10. MaxTrace >= MaxCalls => Admitted' \subseteq ticketed'
  BY <1>1, <1>4 DEF IInv, LimiterOK, TraceOK
<1> QED
  BY <1>1, <1>7, <1>8, <1>9, <1>10 DEF TraceOK

LEMMA IssueBudget ==
  ASSUME IInv, NEW c \in Calls, call[c] = "idle", spent' = spent + 1,
         NEW s \in {"refused", "queued", "host", "answered"},
         call' = [call EXCEPT ![c] = s],
         s # "refused" => spent < MaxCalls
  PROVE  BudgetOK'
<1>1. \A d \in Calls : call'[d] = IF d = c THEN s ELSE call[d]
  BY DEF IInv, TypeOK
<1>2. IsFiniteSet(Admitted) /\ Cardinality(Admitted) \in Nat
  BY StateSets, CallSetsFinite DEF Admitted
<1>3. CASE s = "refused"
  <2>1. Admitted' = Admitted
    BY <1>1, <1>3 DEF Admitted, InState
  <2> QED
    BY <2>1, <1>2, LimitsAssumption DEF IInv, TypeOK, LimiterOK, BudgetOK
<1>4. CASE s # "refused"
  <2>1. Admitted' = Admitted \cup {c}
    BY <1>1, <1>4 DEF Admitted, InState
  <2>2. c \notin Admitted
    BY DEF Admitted, InState
  <2>3. Cardinality(Admitted') = Cardinality(Admitted) + 1
    BY <2>1, <2>2, <1>2, FS_AddElement
  <2> QED
    BY <2>3, <1>2, <1>4, LimitsAssumption DEF IInv, TypeOK, LimiterOK, BudgetOK
<1> QED
  BY <1>3, <1>4

\* A call is refused, queued or let through; everything else is kept.
LEMMA IssueIInv ==
  ASSUME IInv, NEW c \in Calls, Issue(c)
  PROVE  IInv'
<1>1. /\ main = "script" /\ watchdog # "terminated"
      /\ call[c] = "idle" /\ Begin(c) /\ spent' = spent + 1
      /\ UNCHANGED <<main, evaluation, loopError, output, timer, expired,
                     watchdog, outcome>>
  BY DEF Issue, Running, clock
<1>2. PICK s \in {"refused", "queued", "host", "answered"} :
          /\ call' = [call EXCEPT ![c] = s]
          /\ s # "refused" => spent < MaxCalls
          /\ recorded' = recorded \cup
                 (IF s \in {"refused", "answered"} THEN {c} \cap ticketed' ELSE {})
          /\ ready' \in BOOLEAN
          /\ s = "host" => permits > 0 /\ permits' = permits - 1 /\ queue' = queue
          /\ s = "queued" => ~(permits > 0) /\ permits' = permits
                             /\ queue' = Append(queue, c)
          /\ s \in {"refused", "answered"} => permits' = permits /\ queue' = queue
  <2>1. CASE Refuse(c)
    BY <2>1 DEF Refuse, Finish
  <2>2. CASE spent < MaxCalls /\ Admit(c)
    BY <2>2 DEF Admit, IInv, TypeOK
  <2>3. CASE spent < MaxCalls /\ AnswerAtOnce(c)
    BY <2>3 DEF AnswerAtOnce, Finish
  <2> QED
    BY <2>1, <2>2, <2>3 DEF Issue
<1>3. \A d \in Calls : call'[d] = IF d = c THEN s ELSE call[d]
  BY <1>2 DEF IInv, TypeOK
<1>4. TraceOK' /\ BudgetOK' /\ recorded' \subseteq ticketed'
  BY <1>1, <1>2, IssueTrace, IssueBudget
<1>5. ticketed' \subseteq Calls /\ truncated' \in BOOLEAN
  BY <1>1, BeginTickets
<1>6. IsFiniteSet(Holders) /\ Cardinality(Holders) \in Nat /\ c \notin Holders
  BY <1>1, StateSets, CallSetsFinite DEF Holders, InState
<1>7. PermitsConserved' /\ permits' \in 0..MaxConcurrent
  <2>1. CASE s = "host"
    <3>1. Holders' = Holders \cup {c}
      BY <1>3, <2>1 DEF Holders, InState
    <3>2. Cardinality(Holders') = Cardinality(Holders) + 1
      BY <3>1, <1>6, FS_AddElement
    <3>3. queue = <<>>
      BY <1>2, <2>1 DEF IInv, TypeOK, LimiterOK, PermitsConserved
    <3> QED
      BY <3>2, <3>3, <1>2, <1>6, <2>1, LimitsAssumption
      DEF IInv, TypeOK, LimiterOK, PermitsConserved
  <2>2. CASE s # "host"
    <3>1. Holders' = Holders
      BY <1>1, <1>3, <2>2 DEF Holders, InState
    <3>2. s = "queued" => permits = 0
      BY <1>2, LimitsAssumption DEF IInv, TypeOK
    <3>3. permits' = permits /\ (s \in {"refused", "answered"} => queue' = queue)
      BY <1>2, <2>2
    <3> QED
      BY <3>1, <3>2, <3>3, <2>2 DEF IInv, TypeOK, LimiterOK, PermitsConserved
  <2> QED
    BY <2>1, <2>2
<1>8. QueueOK' /\ queue' \in Seq(Calls)
  <2>1. CASE s = "queued"
    <3> DEFINE n == Len(queue)
    <3>1. /\ queue \in Seq(Calls) /\ n \in Nat /\ DOMAIN queue = 1..n
          /\ \A i \in 1..n : queue[i] \in Calls /\ call[queue[i]] = "queued"
      BY DEF IInv, TypeOK, LimiterOK, QueueOK
    <3>2. /\ queue' \in Seq(Calls) /\ DOMAIN queue' = 1..(n + 1)
          /\ queue'[n + 1] = c
          /\ \A i \in 1..n : queue'[i] = queue[i]
      BY <1>2, <2>1, <3>1
    <3>3. \A i \in 1..n : queue[i] # c
      BY <3>1, <1>1
    <3>4. \A i, j \in 1..n : queue[i] = queue[j] => i = j
      BY <3>1 DEF IInv, LimiterOK, QueueOK
    <3> HIDE DEF n
    <3> QED
      BY <3>1, <3>2, <3>3, <3>4, <1>3, <2>1 DEF QueueOK
  <2>2. CASE s # "queued"
    <3>1. queue' = queue
      BY <1>2, <2>2
    <3>2. \A i \in DOMAIN queue : queue[i] \in Calls /\ queue[i] # c
      BY <1>1 DEF IInv, TypeOK, LimiterOK, QueueOK
    <3> QED
      BY <3>1, <3>2, <1>3 DEF IInv, TypeOK, LimiterOK, QueueOK
  <2> QED
    BY <2>1, <2>2
<1>9. TypeOK'
  <2>1. call' \in [Calls -> CallState] /\ spent' \in Nat
    BY <1>1, <1>2 DEF IInv, TypeOK, CallState
  <2> QED
    BY <2>1, <1>1, <1>2, <1>4, <1>5, <1>7, <1>8 DEF IInv, TypeOK
<1>10. ControlOK'
  <2>1. InState({"dropped", "abandoned"})' = InState({"dropped", "abandoned"})
    BY <1>1, <1>3 DEF InState
  <2> QED
    BY <2>1, <1>1 DEF IInv, ControlOK
<1> QED
  BY <1>4, <1>7, <1>8, <1>9, <1>10 DEF IInv, LimiterOK

\* A call that was handed a permit stays a holder when it is polled.
LEMMA EnterHostIInv ==
  ASSUME IInv, NEW c \in Calls, EnterHost(c)
  PROVE  IInv'
<1>1. /\ main = "loop" /\ call[c] = "granted"
      /\ call' = [call EXCEPT ![c] = "host"]
      /\ UNCHANGED <<control, limiter, trace, clock, outcome>>
  BY DEF EnterHost
<1>2. \A d \in Calls : call'[d] = IF d = c THEN "host" ELSE call[d]
  BY <1>1 DEF IInv, TypeOK
<1>3. Holders' = Holders
  BY <1>1, <1>2 DEF Holders, InState
<1>4. Admitted' = Admitted
  BY <1>1, <1>2 DEF Admitted, InState
<1>5. Made' = Made
  BY <1>1, <1>2 DEF Made, InState, CallState
<1>6. /\ InState({"answered", "refused"})' = InState({"answered", "refused"})
      /\ InState({"dropped", "abandoned"})' = InState({"dropped", "abandoned"})
  BY <1>1, <1>2 DEF InState
<1>7. QueueOK'
  BY <1>1, <1>2 DEF limiter, IInv, TypeOK, LimiterOK, QueueOK
<1>8. PermitsConserved' /\ BudgetOK' /\ TraceOK'
  BY <1>1, <1>3, <1>4, <1>5, <1>6
  DEF limiter, trace, IInv, LimiterOK, PermitsConserved, BudgetOK, TraceOK
<1>9. TypeOK'
  BY <1>1 DEF control, limiter, trace, clock, IInv, TypeOK, CallState
<1>10. ControlOK'
  BY <1>1, <1>6 DEF control, clock, IInv, ControlOK
<1> QED
  BY <1>7, <1>8, <1>9, <1>10 DEF IInv, LimiterOK

\* An answer gives the permit to the first waiter or back, and is traced.
LEMMA AnswerIInv ==
  ASSUME IInv, NEW c \in Calls, Answer(c)
  PROVE  IInv'
<1>1. /\ main = "loop" /\ call[c] = "host" /\ Release(c)
      /\ recorded' = recorded \cup ({c} \cap ticketed)
      /\ ready' = TRUE
      /\ UNCHANGED <<main, evaluation, loopError, output, timer, spent,
                     ticketed, truncated, expired, watchdog, outcome>>
  BY DEF Answer, Finish, clock
<1> DEFINE h == Head(queue)
<1>2. queue # <<>> =>
          /\ queue \in Seq(Calls) /\ h = queue[1] /\ h \in Calls
          /\ call[h] = "queued" /\ h # c
  BY <1>1 DEF IInv, TypeOK, LimiterOK, QueueOK
<1>3. \A d \in Calls :
          call'[d] = IF d = c THEN "answered"
                     ELSE IF queue # <<>> /\ d = h THEN "granted" ELSE call[d]
  BY <1>1, <1>2 DEF Release, IInv, TypeOK
<1>4. call' \in [Calls -> CallState]
  BY <1>1, <1>2 DEF Release, IInv, TypeOK, CallState
<1>5. Admitted' = Admitted
  BY <1>1, <1>2, <1>3 DEF Admitted, InState
<1>6. Made' = Made
  BY <1>1, <1>2, <1>3 DEF Made, InState, CallState
<1>7. InState({"answered", "refused"})' = InState({"answered", "refused"}) \cup {c}
  BY <1>1, <1>2, <1>3 DEF InState
<1>8. InState({"dropped", "abandoned"})' = InState({"dropped", "abandoned"})
  BY <1>1, <1>2, <1>3 DEF InState
<1>9. BudgetOK' /\ TraceOK'
  BY <1>1, <1>5, <1>6, <1>7 DEF IInv, LimiterOK, BudgetOK, TraceOK
<1>10. c \in Holders /\ IsFiniteSet(Holders) /\ Cardinality(Holders) \in Nat
  BY <1>1, StateSets, CallSetsFinite DEF Holders, InState
<1>11. /\ Cardinality(Holders \ {c}) = Cardinality(Holders) - 1
       /\ IsFiniteSet(Holders \ {c}) /\ Cardinality(Holders \ {c}) \in Nat
  BY <1>10, FS_RemoveElement, FS_CardinalityType
<1>12. /\ PermitsConserved' /\ QueueOK'
       /\ queue' \in Seq(Calls) /\ permits' \in 0..MaxConcurrent
  <2>1. CASE queue = <<>>
    <3>1. permits' = permits + 1 /\ queue' = <<>>
      BY <1>1, <2>1 DEF Release
    <3>2. Holders' = Holders \ {c}
      BY <1>3, <2>1 DEF Holders, InState
    <3>3. QueueOK' /\ queue' \in Seq(Calls)
      BY <3>1 DEF QueueOK
    <3> QED
      BY <3>1, <3>2, <3>3, <1>10, <1>11, LimitsAssumption
      DEF IInv, TypeOK, LimiterOK, PermitsConserved
  <2>2. CASE queue # <<>>
    <3> DEFINE n == Len(queue)
    <3>1. permits' = permits /\ queue' = Tail(queue)
      BY <1>1, <2>2 DEF Release
    <3>2. Holders' = (Holders \ {c}) \cup {h} /\ h \notin Holders \ {c}
      BY <1>2, <1>3, <2>2 DEF Holders, InState
    <3>3. Cardinality(Holders') = Cardinality(Holders)
      <4>1. Cardinality((Holders \ {c}) \cup {h}) = Cardinality(Holders \ {c}) + 1
        BY <3>2, <1>11, FS_AddElement
      <4> QED
        BY <4>1, <3>2, <1>10, <1>11
    <3>4. PermitsConserved' /\ permits' \in 0..MaxConcurrent
      BY <3>1, <3>3, <2>2 DEF IInv, TypeOK, LimiterOK, PermitsConserved
    <3>5. /\ queue \in Seq(Calls) /\ n \in Nat \ {0} /\ DOMAIN queue = 1..n
          /\ \A i \in 1..n : queue[i] \in Calls /\ call[queue[i]] = "queued"
          /\ \A i, j \in 1..n : queue[i] = queue[j] => i = j
      BY <2>2 DEF IInv, TypeOK, LimiterOK, QueueOK
    <3>6. /\ queue' \in Seq(Calls) /\ DOMAIN queue' = 1..(n - 1)
          /\ \A i \in 1..(n - 1) : queue'[i] = queue[i + 1]
      BY <3>1, <3>5
    <3>7. \A i \in 1..(n - 1) :
              queue[i + 1] \in Calls /\ queue[i + 1] # h /\ queue[i + 1] # c
      BY <3>5, <1>1, <1>2, <2>2
    <3>8. \A i \in 1..(n - 1) : i + 1 \in 1..n
      BY <3>5
    <3> HIDE DEF n, h
    <3>9. \A i \in DOMAIN queue' : call'[queue'[i]] = "queued"
      BY <3>5, <3>6, <3>7, <3>8, <1>3
    <3>10. \A i, j \in DOMAIN queue' : queue'[i] = queue'[j] => i = j
      <4> SUFFICES ASSUME NEW i \in 1..(n - 1), NEW j \in 1..(n - 1),
                          queue'[i] = queue'[j]
                   PROVE  i = j
        BY <3>6
      <4>1. i + 1 = j + 1
        BY <3>5, <3>6, <3>8
      <4> QED
        BY <4>1
    <3> QED
      BY <3>4, <3>6, <3>9, <3>10 DEF QueueOK
  <2> QED
    BY <2>1, <2>2
<1>13. TypeOK'
  BY <1>1, <1>4, <1>12 DEF IInv, TypeOK
<1>14. ControlOK'
  BY <1>1, <1>8 DEF IInv, ControlOK
<1> QED
  BY <1>9, <1>12, <1>13, <1>14 DEF IInv, LimiterOK

\* Returning empties the semaphore and cuts off what is in flight; it changes
\* neither what was spent nor the trace.
LEMMA ReturnLimiter ==
  ASSUME IInv, NEW verdict, Return(verdict)
  PROVE  /\ LimiterOK'
         /\ call' \in [Calls -> CallState]
         /\ queue' \in Seq(Calls) /\ permits' \in 0..MaxConcurrent
         /\ InFlight = {} =>
               InState({"dropped", "abandoned"})' = InState({"dropped", "abandoned"})
         /\ InFlight' = {}
<1>1. /\ \A d \in Calls :
             call'[d] = CASE call[d] \in {"queued", "granted"} -> "dropped"
                          [] call[d] = "host" -> "abandoned"
                          [] OTHER -> call[d]
      /\ queue' = <<>> /\ permits' = MaxConcurrent
      /\ UNCHANGED <<spent, ticketed, recorded, truncated>>
  BY DEF Return, trace
<1>2. call' \in [Calls -> CallState]
  BY DEF Return, IInv, TypeOK, CallState
<1>3. \A d \in Calls :
          call'[d] = IF call[d] \in {"queued", "granted"} THEN "dropped"
                     ELSE IF call[d] = "host" THEN "abandoned" ELSE call[d]
  BY <1>1
<1>4. Holders' = {} /\ InFlight' = {}
  BY <1>3 DEF Holders, InFlight, InState
<1>5. Admitted' = Admitted
  BY <1>3 DEF Admitted, InState
<1>6. Made' = Made
  BY <1>3 DEF Made, InState, CallState
<1>7. InState({"answered", "refused"})' = InState({"answered", "refused"})
  BY <1>3 DEF InState
<1>8. ASSUME InFlight = {}
      PROVE  InState({"dropped", "abandoned"})' = InState({"dropped", "abandoned"})
  BY <1>3, <1>8 DEF InFlight, InState
<1>9. PermitsConserved' /\ QueueOK'
  <2>1. Cardinality(Holders') = 0
    BY <1>4, FS_EmptySet
  <2> QED
    BY <2>1, <1>1, LimitsAssumption DEF PermitsConserved, QueueOK
<1>10. BudgetOK' /\ TraceOK'
  BY <1>1, <1>5, <1>6, <1>7 DEF IInv, LimiterOK, BudgetOK, TraceOK
<1>11. queue' \in Seq(Calls) /\ permits' \in 0..MaxConcurrent
  BY <1>1, LimitsAssumption
<1> QED
  BY <1>2, <1>4, <1>8, <1>9, <1>10, <1>11 DEF LimiterOK

LEMMA ReturnIInv ==
  ASSUME IInv, NEW verdict \in Outcomes, Return(verdict), UNCHANGED output,
         main # "done",
         verdict = "success" => output,
         loopError = "terminated" => verdict \in {"none", "timeout"}
  PROVE  IInv'
<1>1. /\ main' = "done" /\ outcome' = verdict
      /\ UNCHANGED <<evaluation, loopError, timer, ready, spent, ticketed,
                     recorded, truncated, expired, watchdog>>
  BY DEF Return, trace, clock
<1>2. /\ LimiterOK' /\ InFlight' = {}
      /\ call' \in [Calls -> CallState]
      /\ queue' \in Seq(Calls) /\ permits' \in 0..MaxConcurrent
      /\ InFlight = {} =>
            InState({"dropped", "abandoned"})' = InState({"dropped", "abandoned"})
  BY ReturnLimiter
<1>3. TypeOK'
  BY <1>1, <1>2 DEF IInv, TypeOK, Mains
<1>4. output' => InState({"dropped", "abandoned"})' = {}
  BY <1>2 DEF IInv, ControlOK
<1>5. ControlOK'
  BY <1>1, <1>2, <1>4 DEF IInv, ControlOK
<1> QED
  BY <1>2, <1>3, <1>5 DEF IInv, LimiterOK
-----------------------------------------------------------------------------
(* Every step keeps the invariant. *)

\* A step of the program, the loop or the clock that touches no call.
LEMMA QuietIInv ==
  ASSUME IInv, UNCHANGED <<call, limiter, trace>>, TypeOK',
         \/ UNCHANGED <<control, outcome>> /\ (watchdog = "terminated" => watchdog' = "terminated")
         \/ /\ UNCHANGED <<clock, outcome>> /\ main # "done" /\ main' # "done"
            /\ main' = "join" /\ loopError' = "none" => InFlight = {}
            /\ main' = "extract" \/ output' => InFlight = {}
            /\ output' => main' \in {"check", "capture"}
            /\ loopError' = "terminated" =>
                  watchdog = "terminated" /\ main' \in {"join", "check"}
            /\ main' \in {"load", "script", "loop"} => loopError' = "none"
  PROVE  IInv'
<1>1. LimiterOK'
  BY Untouched DEF IInv
<1>2. /\ InFlight' = InFlight
      /\ InState({"dropped", "abandoned"})' = InState({"dropped", "abandoned"})
  BY DEF InFlight, InState
<1>3. CASE UNCHANGED <<control, outcome>> /\ (watchdog = "terminated" => watchdog' = "terminated")
  BY <1>1, <1>2, <1>3 DEF control, IInv, ControlOK
<1>4. CASE /\ UNCHANGED <<clock, outcome>> /\ main # "done" /\ main' # "done"
           /\ main' = "join" /\ loopError' = "none" => InFlight = {}
           /\ main' = "extract" \/ output' => InFlight = {}
           /\ output' => main' \in {"check", "capture"}
           /\ loopError' = "terminated" =>
                 watchdog = "terminated" /\ main' \in {"join", "check"}
           /\ main' \in {"load", "script", "loop"} => loopError' = "none"
  BY <1>1, <1>2, <1>4 DEF clock, IInv, ControlOK
<1> QED
  BY <1>3, <1>4

LEMMA NextIInv == IInv /\ [Next]_vars => IInv'
<1> SUFFICES ASSUME IInv, [Next]_vars PROVE IInv'
  OBVIOUS
<1> USE DEF Mains, Outcomes, control, clock, limiter, trace
<1>0. CASE SetupFails
  <2>1. loopError = "none"
    BY <1>0 DEF SetupFails, IInv, ControlOK
  <2> QED
    BY <1>0, <2>1, ReturnIInv DEF SetupFails
<1>1. CASE LoadModule
  <2>1. TypeOK'
    BY <1>1 DEF LoadModule, IInv, TypeOK
  <2> QED
    BY <1>1, <2>1, QuietIInv DEF LoadModule, IInv, ControlOK
<1>2. CASE Program
  <2>1. TypeOK'
    <3>1. CASE SettleRun
      BY <3>1 DEF SettleRun, IInv, TypeOK
    <3>2. CASE SetTimer
      BY <3>2 DEF SetTimer, IInv, TypeOK
    <3>3. CASE Yield
      BY <3>3 DEF Yield, IInv, TypeOK
    <3>4. CASE RejectUnhandled
      BY <3>4 DEF RejectUnhandled, IInv, TypeOK
    <3> QED BY <1>2, <3>1, <3>2, <3>3, <3>4 DEF Program
  <2>2. main = "script" /\ loopError = "none" /\ ~output
    BY <1>2 DEF Program, SettleRun, SetTimer, Yield, RejectUnhandled, Running,
                IInv, TypeOK, ControlOK
  <2> QED
    BY <1>2, <2>1, <2>2, QuietIInv
    DEF Program, SettleRun, SetTimer, Yield, RejectUnhandled
<1>3. CASE ScriptTerminated
  <2>1. TypeOK'
    BY <1>3 DEF ScriptTerminated, IInv, TypeOK
  <2> QED
    BY <1>3, <2>1, QuietIInv DEF ScriptTerminated, IInv, TypeOK, ControlOK
<1>4. CASE TimerFires \/ Resume \/ LoopDrains
  <2>1. TypeOK'
    <3>1. CASE TimerFires
      BY <3>1 DEF TimerFires, IInv, TypeOK
    <3>2. CASE Resume
      BY <3>2 DEF Resume, IInv, TypeOK
    <3>3. CASE LoopDrains
      <4>1. /\ main' = "join" /\ loopError' \in {"script", loopError}
            /\ UNCHANGED <<evaluation, output, timer, ready, call, limiter,
                           trace, clock, outcome>>
        BY <3>3 DEF LoopDrains
      <4>2. loopError' \in {"none", "script", "terminated"} /\ main' \in Mains
        BY <4>1 DEF IInv, TypeOK, Mains
      <4>3. TypeOK
        BY DEF IInv
      <4> QED BY <4>1, <4>2, <4>3 DEF TypeOK
    <3> QED BY <1>4, <3>1, <3>2, <3>3
  <2>2. main = "loop" /\ loopError = "none" /\ ~output
    BY <1>4 DEF TimerFires, Resume, LoopDrains, IInv, TypeOK, ControlOK
  <2> QED
    BY <1>4, <2>1, <2>2, QuietIInv DEF TimerFires, Resume, LoopDrains
<1>5. ASSUME NEW c \in Calls, HostCall(c) PROVE IInv'
  BY <1>5, IssueIInv, EnterHostIInv, AnswerIInv DEF HostCall
<1>6. CASE Join
  <2>1. TypeOK'
    BY <1>6 DEF Join, IInv, TypeOK
  <2> QED
    BY <1>6, <2>1, QuietIInv DEF Join, IInv, TypeOK, ControlOK
<1>7. CASE ExtractOutput
  <2>1. CASE Return("depth") /\ UNCHANGED output
    BY <1>7, <2>1, ReturnIInv DEF ExtractOutput, IInv, ControlOK
  <2>2. CASE /\ main' = "check" /\ output' \in BOOLEAN
             /\ UNCHANGED <<evaluation, loopError, timer, ready, call, limiter,
                            trace, clock, outcome>>
    <3>1. TypeOK'
      BY <2>2 DEF IInv, TypeOK
    <3> QED
      BY <1>7, <2>2, <3>1, QuietIInv DEF ExtractOutput, IInv, ControlOK
  <2> QED
    BY <1>7, <2>1, <2>2 DEF ExtractOutput
<1>8. CASE CheckWatchdog
  <2>1. CASE Return("timeout") /\ UNCHANGED output
    BY <1>8, <2>1, ReturnIInv DEF CheckWatchdog
  <2>2. CASE /\ watchdog = "sleeping" /\ main' = "capture"
             /\ UNCHANGED <<evaluation, loopError, output, timer, ready, call,
                            limiter, trace, clock, outcome>>
    <3>1. TypeOK'
      BY <2>2 DEF IInv, TypeOK
    <3> QED
      BY <1>8, <2>2, <3>1, QuietIInv DEF CheckWatchdog, IInv, ControlOK
  <2> QED
    BY <1>8, <2>1, <2>2 DEF CheckWatchdog
<1>9. CASE Capture
  <2>1. main = "capture" /\ loopError # "terminated" /\ UNCHANGED output
    BY <1>9 DEF Capture, IInv, ControlOK
  <2>2. PICK verdict \in {"captureFailed", "success", "failure"} :
            Return(verdict) /\ (verdict = "success" => output)
    BY <1>9 DEF Capture
  <2> QED
    BY <2>1, <2>2, ReturnIInv
<1>10. CASE Deadline \/ Watchdog
  <2>1. TypeOK'
    BY <1>10 DEF Deadline, Watchdog, WatchdogOn, IInv, TypeOK
  <2> QED
    BY <1>10, <2>1, QuietIInv DEF Deadline, Watchdog, WatchdogOn
<1>11. CASE OuterTimeout
  BY <1>11, ReturnIInv DEF OuterTimeout, Parked
<1>12. CASE UNCHANGED vars
  <2>1. TypeOK'
    BY <1>12 DEF vars, IInv, TypeOK
  <2> QED
    BY <1>12, <2>1, QuietIInv DEF vars
<1> QED
  BY <1>0, <1>1, <1>2, <1>3, <1>4, <1>5, <1>6, <1>7, <1>8, <1>9, <1>10, <1>11, <1>12
  DEF Next, Epilogue, Done

\* The inductive invariant holds in every reachable state.
THEOREM Invariance == Spec => []IInv
  BY InitIInv, NextIInv, PTL DEF Spec

\* Every variable keeps its type, the permits never leaving 0..MaxConcurrent.
THEOREM TypeCorrect == Spec => []TypeOK
<1>1. IInv => TypeOK
  BY DEF IInv
<1> QED
  BY <1>1, Invariance, PTL

\* op_codemode_invoke neither loses nor forges a permit on any of its paths,
\* and no permit is free while a call waits.
THEOREM PermitsAreConserved == Spec => []PermitsConserved
<1>1. IInv => PermitsConserved
  BY DEF IInv, LimiterOK
<1> QED
  BY <1>1, Invariance, PTL

\* No interleaving of an execution's calls hands more than max_calls of them
\* to the host.
THEOREM HostCallsBounded == Spec => []HostCallsWithinBudget
<1>1. IInv => HostCallsWithinBudget
  <2> SUFFICES ASSUME IInv PROVE Cardinality(Served) <= MaxCalls
    BY DEF HostCallsWithinBudget
  <2>1. Served \in SUBSET Admitted /\ Admitted \in SUBSET Calls
    BY DEF Served, Admitted, InState
  <2>2. Cardinality(Served) <= Cardinality(Admitted)
    BY <2>1, CallSetsFinite, FS_Subset
  <2>3. /\ Cardinality(Admitted) \in Nat /\ Cardinality(Served) \in Nat
        /\ Cardinality(Admitted) <= MaxCalls
    BY <2>1, CallSetsFinite DEF IInv, LimiterOK, BudgetOK
  <2> QED
    BY <2>2, <2>3, LimitsAssumption
<1> QED
  BY <1>1, Invariance, PTL

\* A success leaves no call unanswered, and none out of an untruncated trace.
THEOREM SuccessesAreComplete == Spec => []SuccessIsComplete
<1>1. IInv => SuccessIsComplete
  <2> SUFFICES ASSUME IInv, outcome = "success"
               PROVE  /\ Made \subseteq InState({"answered", "refused"})
                      /\ Made \subseteq recorded \/ truncated
    BY DEF SuccessIsComplete
  <2>1. InFlight = {} /\ InState({"dropped", "abandoned"}) = {}
    BY DEF IInv, ControlOK
  <2>2. Made \subseteq InState({"answered", "refused"})
    BY <2>1 DEF IInv, TypeOK, CallState, Made, InFlight, InState
  <2>3. Made \subseteq ticketed \/ truncated
    BY DEF IInv, LimiterOK, TraceOK
  <2> QED
    BY <2>2, <2>3 DEF IInv, LimiterOK, TraceOK
<1> QED
  BY <1>1, Invariance, PTL

\* With a trace as long as the budget, no answered call is missing from it.
THEOREM AnswersAreTraced == Spec => []AnsweredCallsTraced
<1>1. IInv => AnsweredCallsTraced
  <2>1. InState({"answered"}) \subseteq Admitted \cap InState({"answered", "refused"})
    BY DEF Admitted, InState
  <2> QED
    BY <2>1 DEF IInv, LimiterOK, TraceOK, AnsweredCallsTraced
<1> QED
  BY <1>1, Invariance, PTL

\* A terminated program is reported as a timeout or not at all.
THEOREM TerminationsAreTimeouts == Spec => []TerminatedNeverReported
<1>1. IInv => TerminatedNeverReported
  BY DEF IInv, ControlOK, TerminatedNeverReported
<1> QED
  BY <1>1, Invariance, PTL

\* On one thread the watchdog runs only between two polls, so it sleeps when
\* the module fails to load and from watchdog.check to the capture.
OneThreadOK ==
    Workers = 1 =>
        /\ main \in {"load", "capture"} => watchdog = "sleeping"
        /\ outcome # "captureFailed"

LEMMA NextOneThread == IInv /\ OneThreadOK /\ [Next]_vars => OneThreadOK'
<1> SUFFICES ASSUME IInv, OneThreadOK, [Next]_vars, Workers = 1
             PROVE  /\ main' \in {"load", "capture"} => watchdog' = "sleeping"
                    /\ outcome' # "captureFailed"
  BY DEF OneThreadOK
<1>1. CASE LoadModule
  BY <1>1 DEF LoadModule, clock, OneThreadOK
<1>2. CASE Program \/ ScriptTerminated \/ TimerFires \/ Resume \/ LoopDrains
  BY <1>2
  DEF Program, SettleRun, SetTimer, Yield, RejectUnhandled, Running,
      ScriptTerminated, TimerFires, Resume, LoopDrains, clock, OneThreadOK
<1>3. ASSUME NEW c \in Calls, HostCall(c)
      PROVE  UNCHANGED <<main, watchdog, outcome>>
  BY <1>3 DEF HostCall, Issue, EnterHost, Answer, control, clock
<1>4. ASSUME NEW verdict, Return(verdict)
      PROVE  main' = "done" /\ outcome' = verdict
  BY <1>4 DEF Return
<1>5. CASE Join
  BY <1>5 DEF Join, clock, OneThreadOK
<1>6. CASE SetupFails \/ ExtractOutput \/ CheckWatchdog
  BY <1>4, <1>6 DEF SetupFails, ExtractOutput, CheckWatchdog, clock, OneThreadOK
<1>7. CASE Capture
  <2>1. watchdog = "sleeping"
    BY <1>7 DEF Capture, OneThreadOK
  <2>2. Return(IF output THEN "success" ELSE "failure")
    BY <1>7, <2>1 DEF Capture
  <2> QED
    BY <1>4, <2>2
<1>8. CASE Deadline
  BY <1>8 DEF Deadline, control, OneThreadOK
<1>9. CASE Watchdog
  <2>1. main \notin {"load", "capture"}
    BY <1>9 DEF Watchdog, WatchdogOn, Parked
  <2> QED
    BY <1>9, <2>1 DEF Watchdog, WatchdogOn, control, OneThreadOK
<1>10. CASE OuterTimeout
  BY <1>4, <1>10 DEF OuterTimeout
<1>11. CASE UNCHANGED vars
  BY <1>11 DEF vars, control, clock, OneThreadOK
<1> QED
  BY <1>1, <1>2, <1>3, <1>5, <1>6, <1>7, <1>8, <1>9, <1>10, <1>11
  DEF Next, Epilogue, Done, OneThreadOK

\* In the shipped child, which has one thread, no timeout is turned into a
\* failure to capture the console.
THEOREM TimeoutsAreNotErrors ==
  ASSUME Workers = 1
  PROVE  Spec => []NoCaptureFailure
<1>1. Init => OneThreadOK
  BY DEF Init, OneThreadOK
<1>2. OneThreadOK => NoCaptureFailure
  BY DEF OneThreadOK, NoCaptureFailure
<1> QED
  BY <1>1, <1>2, NextOneThread, Invariance, PTL DEF Spec
-----------------------------------------------------------------------------
(* The host calls implement the bounded service. *)

\* The instance counts with the same Cardinality.
LEMMA ServiceCardinality == \A S : Service!Cardinality(S) = Cardinality(S)
  BY Zenon DEF Service!Cardinality, Cardinality

\* A call reaches the host with a permit, free or handed over, and within the
\* budget.
LEMMA HostCallEnters ==
  ASSUME IInv, NEW c \in Calls, NEW s \in {"host", "answered"},
         \/ call[c] = "idle" /\ permits > 0 /\ spent < MaxCalls
         \/ call[c] = "granted",
         call' = [call EXCEPT ![c] = s]
  PROVE  IF s = "host" THEN Service!Enter(c) ELSE Service!Pass(c)
<1> DEFINE Host == InState({"host"})
<1>1. \A d \in Calls : call'[d] = IF d = c THEN s ELSE call[d]
  BY DEF IInv, TypeOK
<1>2. /\ s = "host" => Host' = Host \cup {c}
      /\ s = "answered" => Host' = Host
  BY <1>1 DEF InState
<1>3. Served' = Served \cup {c} /\ c \notin Served
  BY <1>1 DEF Served, InState
<1>4. Served \in SUBSET (Admitted \ {c}) /\ Host \in SUBSET (Holders \ {c})
  BY DEF Served, Admitted, Holders, InState
<1>5. /\ IsFiniteSet(Admitted) /\ Cardinality(Admitted) \in Nat
      /\ IsFiniteSet(Holders) /\ Cardinality(Holders) \in Nat
  BY StateSets, CallSetsFinite DEF Admitted, Holders
<1>6. /\ IsFiniteSet(Admitted \ {c}) /\ IsFiniteSet(Holders \ {c})
      /\ Cardinality(Admitted \ {c}) =
             IF c \in Admitted THEN Cardinality(Admitted) - 1 ELSE Cardinality(Admitted)
      /\ Cardinality(Holders \ {c}) =
             IF c \in Holders THEN Cardinality(Holders) - 1 ELSE Cardinality(Holders)
  BY <1>5, FS_RemoveElement
<1>7. /\ Cardinality(Served) <= Cardinality(Admitted \ {c})
      /\ Cardinality(Host) <= Cardinality(Holders \ {c})
      /\ Cardinality(Served) \in Nat /\ Cardinality(Host) \in Nat
  BY <1>4, <1>6, FS_Subset, FS_CardinalityType
<1>8. /\ Cardinality(Admitted) <= spent /\ Cardinality(Admitted) <= MaxCalls
      /\ permits + Cardinality(Holders) = MaxConcurrent
      /\ permits \in Nat /\ spent \in Nat
  BY LimitsAssumption DEF IInv, TypeOK, LimiterOK, BudgetOK, PermitsConserved
<1>9. Cardinality(Served) < MaxCalls /\ Cardinality(Host) < MaxConcurrent
  <2>1. CASE call[c] = "idle" /\ permits > 0 /\ spent < MaxCalls
    <3>1. c \notin Admitted /\ c \notin Holders
      BY <2>1 DEF Admitted, Holders, InState
    <3> QED
      BY <3>1, <2>1, <1>5, <1>6, <1>7, <1>8, LimitsAssumption
  <2>2. CASE call[c] = "granted"
    <3>1. c \in Admitted /\ c \in Holders
      BY <2>2 DEF Admitted, Holders, InState
    <3> QED
      BY <3>1, <1>5, <1>6, <1>7, <1>8, LimitsAssumption
  <2> QED
    BY <2>1, <2>2
<1> QED
  BY <1>2, <1>3, <1>9, ServiceCardinality DEF Service!Enter, Service!Pass

LEMMA StepRefines == IInv /\ [Next]_vars => [Service!Next]_(Service!vars)
<1> SUFFICES ASSUME IInv, [Next]_vars PROVE [Service!Next]_(Service!vars)
  OBVIOUS
<1>1. ASSUME UNCHANGED call PROVE [Service!Next]_(Service!vars)
  BY <1>1 DEF InState, Served, Service!vars
<1>2. ASSUME NEW c \in Calls, NEW s \in {"refused", "queued"},
             call[c] = "idle", call' = [call EXCEPT ![c] = s]
      PROVE  [Service!Next]_(Service!vars)
  <2>1. \A d \in Calls : call'[d] = IF d = c THEN s ELSE call[d]
    BY <1>2 DEF IInv, TypeOK
  <2>2. InState({"host"})' = InState({"host"}) /\ Served' = Served
    BY <1>2, <2>1 DEF InState, Served
  <2> QED
    BY <2>2 DEF Service!vars
<1>3. ASSUME NEW c \in Calls, Issue(c) PROVE [Service!Next]_(Service!vars)
  <2>1. CASE Refuse(c)
    BY <1>3, <2>1, <1>2 DEF Issue, Refuse
  <2>2. CASE spent < MaxCalls /\ Admit(c)
    <3>1. CASE permits > 0
      BY <1>3, <2>2, <3>1, HostCallEnters DEF Issue, Admit, Service!Next
    <3>2. CASE ~(permits > 0)
      BY <1>3, <2>2, <3>2, <1>2 DEF Issue, Admit
    <3> QED
      BY <3>1, <3>2
  <2>3. CASE spent < MaxCalls /\ AnswerAtOnce(c)
    <3>1. Service!Pass(c)
      BY <1>3, <2>3, HostCallEnters DEF Issue, AnswerAtOnce
    <3> QED
      BY <3>1 DEF Service!Next
  <2> QED
    BY <1>3, <2>1, <2>2, <2>3 DEF Issue
<1>4. ASSUME NEW c \in Calls, EnterHost(c) PROVE [Service!Next]_(Service!vars)
  BY <1>4, HostCallEnters DEF EnterHost, Service!Next
<1>5. ASSUME NEW c \in Calls, Answer(c) PROVE [Service!Next]_(Service!vars)
  <2>1. /\ call[c] = "host"
        /\ queue # <<>> => Head(queue) \in Calls /\ call[Head(queue)] = "queued"
    BY <1>5 DEF Answer, IInv, TypeOK, LimiterOK, QueueOK
  <2>2. \A d \in Calls :
            call'[d] = IF d = c THEN "answered"
                       ELSE IF queue # <<>> /\ d = Head(queue) THEN "granted"
                       ELSE call[d]
    BY <1>5, <2>1 DEF Answer, Release, IInv, TypeOK
  <2>3. InState({"host"})' = InState({"host"}) \ {c}
    BY <2>1, <2>2 DEF InState
  <2>4. Served' = Served
    BY <2>1, <2>2 DEF Served, InState
  <2>5. Service!Leave(c)
    BY <2>1, <2>3, <2>4 DEF Service!Leave, InState
  <2> QED
    BY <2>5 DEF Service!Next
<1>6. ASSUME NEW verdict, Return(verdict) PROVE [Service!Next]_(Service!vars)
  <2>1. \A d \in Calls :
            call'[d] = IF call[d] \in {"queued", "granted"} THEN "dropped"
                       ELSE IF call[d] = "host" THEN "abandoned" ELSE call[d]
    BY <1>6 DEF Return
  <2>2. InState({"host"})' = {}
    BY <2>1 DEF InState
  <2>3. Served' = Served
    BY <2>1 DEF Served, InState
  <2> QED
    BY <2>2, <2>3 DEF Service!LeaveAll, Service!Next
<1>7. CASE LoadModule \/ Program \/ ScriptTerminated \/ TimerFires \/ Resume
             \/ LoopDrains \/ Join \/ Deadline \/ Watchdog \/ UNCHANGED vars
  <2>1. UNCHANGED call
    BY <1>7
    DEF LoadModule, Program, SettleRun, SetTimer, Yield, RejectUnhandled,
        ScriptTerminated, TimerFires, Resume, LoopDrains, Join, Deadline,
        Watchdog, WatchdogOn, vars
  <2> QED
    BY <1>1, <2>1
<1>8. CASE SetupFails \/ ExtractOutput \/ CheckWatchdog \/ Capture \/ OuterTimeout
  <2>1. (\E verdict : Return(verdict)) \/ UNCHANGED call
    BY <1>8 DEF SetupFails, ExtractOutput, CheckWatchdog, Capture, OuterTimeout
  <2> QED
    BY <1>1, <1>6, <2>1
<1> QED
  BY <1>3, <1>4, <1>5, <1>7, <1>8 DEF Next, HostCall, Epilogue, Done

\* The calls of an execution keep the promise of BoundedService for every set
\* of calls and every limits.
THEOREM ExecutionImplementsService == Spec => ImplementsService
<1>1. Init => Service!Init
  BY DEF Init, Service!Init, InState, Served
<1>2. IInv /\ [Next]_vars => [Service!Next]_(Service!vars)
  BY StepRefines
<1> QED
  BY <1>1, <1>2, Invariance, PTL DEF Spec, ImplementsService, Service!Spec
-----------------------------------------------------------------------------
(* Counting and recursion. *)

\* A set of natural numbers has a least one.
LEMMA NatMin ==
  ASSUME NEW S \in SUBSET Nat, S # {}
  PROVE  \E n \in S : \A m \in S : n <= m
<1> DEFINE R == {ss \in Nat \X Nat : ss[1] < ss[2]}
<1>1. IsWellFoundedOn(R, Nat)
  BY NatLessThanWellFounded DEF OpToRel
<1> HIDE DEF R
<1>2. PICK n \in S : \A m \in S : ~(<<m, n>> \in R)
  BY <1>1, WFMin
<1>3. \A m \in S : ~(m < n)
  BY <1>2 DEF R
<1> QED BY <1>3

\* Counting up to a bound.
LEMMA Counting ==
  ASSUME NEW N \in Nat, NEW S, 0 \in S,
         \A n \in 1..N : n - 1 \in S => n \in S
  PROVE  0..N \subseteq S
<1> DEFINE T == (0..N) \ S
<1>1. SUFFICES ASSUME T # {} PROVE FALSE
  OBVIOUS
<1>2. PICK n \in T : \A m \in T : n <= m
  <2>1. T \in SUBSET Nat
    OBVIOUS
  <2> HIDE DEF T
  <2> QED BY <1>1, <2>1, NatMin
<1>3. n \in 1..N /\ n - 1 \in 0..N /\ ~(n <= n - 1)
  BY <1>2
<1>4. n - 1 \in S
  BY <1>2, <1>3
<1> QED BY <1>2, <1>3, <1>4

\* A function that is defined at a number by its value at the one before.
Recursive(f, N, V, base, step) ==
    /\ f \in [0..N -> V]
    /\ f[0] = base
    /\ \A n \in 1..N : f[n] = step[n][f[n - 1]]

StepsWithin(N, V, step) == \A n \in 1..N, v \in V : step[n][v] \in V

LEMMA RecursionExists ==
  ASSUME NEW N \in Nat, NEW V, NEW base \in V, NEW step, StepsWithin(N, V, step)
  PROVE  \E f : Recursive(f, N, V, base, step)
<1> DEFINE Is(m, f) == f = [n \in 0..m |-> IF n = 0 THEN base ELSE step[n][f[n - 1]]]
           S == {m \in 0..N : \E f \in [0..m -> V] : Is(m, f)}
<1>0. \A n \in 1..N, v \in V : step[n][v] \in V
  BY DEF StepsWithin
<1>1. 0 \in S
  <2>1. PICK f : f = [n \in 0..0 |-> base]
    OBVIOUS
  <2>2. f \in [0..0 -> V] /\ Is(0, f)
    BY <2>1
  <2> QED BY <2>2
<1>2. ASSUME NEW m \in 1..N, m - 1 \in S
      PROVE  m \in S
  <2>1. PICK f \in [0..(m - 1) -> V] : Is(m - 1, f)
    BY <1>2
  <2>2. PICK g : g = [n \in 0..m |-> IF n = m THEN step[m][f[m - 1]] ELSE f[n]]
    OBVIOUS
  <2>3. f[m - 1] \in V /\ step[m][f[m - 1]] \in V
    BY <1>0, <2>1
  <2>4. g \in [0..m -> V]
    BY <2>2, <2>3
  <2>5. ASSUME NEW n \in 0..m
        PROVE  g[n] = IF n = 0 THEN base ELSE step[n][g[n - 1]]
    <3>1. CASE n = m
      <4>1. n # 0 /\ n - 1 \in 0..m /\ n - 1 # m
        BY <3>1
      <4> QED BY <2>2, <3>1, <4>1
    <3>2. CASE n # m /\ n # 0
      <4>1. n \in 0..(m - 1) /\ n - 1 \in 0..m /\ n - 1 # m
        BY <3>2
      <4>2. f[n] = step[n][f[n - 1]]
        BY <2>1, <3>2, <4>1
      <4> QED BY <2>2, <3>2, <4>1, <4>2
    <3>3. CASE n # m /\ n = 0
      <4>1. 0 \in 0..(m - 1)
        BY <3>3
      <4>2. f[0] = base
        BY <2>1, <4>1
      <4> QED BY <2>2, <3>3, <4>2
    <3> QED BY <3>1, <3>2, <3>3
  <2>6. g = [n \in 0..m |-> g[n]] /\ m \in 0..N
    BY <2>4
  <2>7. Is(m, g)
    BY <2>5, <2>6
  <2> QED BY <2>4, <2>6, <2>7
<1> HIDE DEF S
<1>3. N \in S
  <2>1. 0..N \subseteq S
    BY <1>1, <1>2, Counting
  <2> QED BY <2>1
<1>4. PICK f \in [0..N -> V] : Is(N, f)
  BY <1>3 DEF S
<1>5. f[0] = base /\ \A n \in 1..N : f[n] = step[n][f[n - 1]]
  BY <1>4
<1> QED BY <1>5 DEF Recursive
-----------------------------------------------------------------------------
(* Texts and their widths. *)

Texts == Seq(Char)
Encodings == [Char -> Nat \ {0}]

LEMMA WidthsType ==
  ASSUME NEW text \in Texts, NEW encoding \in Encodings
  PROVE  /\ Len(text) \in Nat
         /\ \A n \in 1..Len(text) : text[n] \in Char
         /\ Widths(text, encoding) \in [0..Len(text) -> Nat]
         /\ Widths(text, encoding)[0] = 0
         /\ \A n \in 1..Len(text) :
                Widths(text, encoding)[n] =
                    Widths(text, encoding)[n - 1] + encoding[text[n]]
<1>1. PICK N \in Nat : N = Len(text)
  BY LenProperties DEF Texts
<1>2. \A n \in 1..N : text[n] \in Char
  BY <1>1, ElementOfSeq DEF Texts
<1> DEFINE Is(f) == f = [n \in 0..N |-> IF n = 0 THEN 0 ELSE f[n - 1] + encoding[text[n]]]
<1>3. \E f \in [0..N -> Nat] : Is(f)
  <2>1. PICK step : step = [n \in 1..N |-> [v \in Nat |-> v + encoding[text[n]]]]
    OBVIOUS
  <2>2. StepsWithin(N, Nat, step)
    <3>1. ASSUME NEW n \in 1..N, NEW v \in Nat
          PROVE  step[n][v] \in Nat
      <4>1. step[n][v] = v + encoding[text[n]]
        BY <2>1
      <4>2. encoding[text[n]] \in Nat
        BY <1>2 DEF Encodings
      <4> QED BY <4>1, <4>2
    <3> QED BY <3>1 DEF StepsWithin
  <2>3. PICK f \in [0..N -> Nat] :
           f[0] = 0 /\ \A n \in 1..N : f[n] = step[n][f[n - 1]]
    <3>1. PICK V, base : V = Nat /\ base = 0
      OBVIOUS
    <3>2. base \in V /\ StepsWithin(N, V, step)
      BY <2>2, <3>1
    <3>3. PICK f : Recursive(f, N, V, base, step)
      BY <3>2, RecursionExists
    <3> QED BY <3>1, <3>3 DEF Recursive
  <2>4. \A n \in 1..N : f[n - 1] \in Nat /\ step[n][f[n - 1]] = f[n - 1] + encoding[text[n]]
    <3>1. ASSUME NEW n \in 1..N
          PROVE  f[n - 1] \in Nat /\ step[n][f[n - 1]] = f[n - 1] + encoding[text[n]]
      <4>1. f[n - 1] \in Nat
        <5>1. n - 1 \in 0..N
          OBVIOUS
        <5> QED BY <5>1
      <4>2. step[n] = [v \in Nat |-> v + encoding[text[n]]]
        BY <2>1
      <4> QED BY <4>1, <4>2
    <3> QED BY <3>1
  <2>5. Is(f)
    <3>1. \A n \in 0..N : f[n] = IF n = 0 THEN 0 ELSE f[n - 1] + encoding[text[n]]
      <4>1. ASSUME NEW n \in 0..N
            PROVE  f[n] = IF n = 0 THEN 0 ELSE f[n - 1] + encoding[text[n]]
        <5>1. n = 0 \/ n \in 1..N
          OBVIOUS
        <5> QED BY <2>3, <2>4, <5>1
      <4> QED BY <4>1
    <3>2. f = [n \in 0..N |-> f[n]]
      BY <2>3
    <3> QED BY <3>1, <3>2
  <2> QED BY <2>5
<1>4. Widths(text, encoding) = CHOOSE f : Is(f)
  BY <1>1 DEF Widths
<1>5. Is(CHOOSE f : Is(f))
  <2>1. \E f : Is(f)
    BY <1>3
  <2> QED BY <2>1
<1>6. PICK f : f = Widths(text, encoding) /\ Is(f)
  BY <1>4, <1>5
<1>7. \A n \in 0..N : f[n] \in Nat
  <2> DEFINE S == {n \in 0..N : f[n] \in Nat}
  <2>1. 0 \in S
    BY <1>6
  <2>2. ASSUME NEW n \in 1..N, n - 1 \in S
        PROVE  n \in S
    <3>1. f[n] = f[n - 1] + encoding[text[n]]
      BY <1>6
    <3>2. encoding[text[n]] \in Nat
      BY <1>2 DEF Encodings
    <3> QED BY <2>2, <3>1, <3>2
  <2> HIDE DEF S
  <2>3. 0..N \subseteq S
    BY <2>1, <2>2, Counting
  <2> QED BY <2>3 DEF S
<1>8. f \in [0..N -> Nat] /\ f[0] = 0
      /\ \A n \in 1..N : f[n] = f[n - 1] + encoding[text[n]]
  <2>1. f \in [0..N -> Nat]
    BY <1>6, <1>7
  <2> QED BY <1>6, <2>1
<1> QED BY <1>1, <1>2, <1>6, <1>8

LEMMA SmallTexts ==
  /\ <<>> \in Texts /\ Len(<<>>) = 0
  /\ <<Newline>> \in Texts /\ Len(<<Newline>>) = 1
<1>1. Newline \in Char
  BY DEF Char
<1> QED BY <1>1 DEF Texts

\* A text behind a text.
IsConcat(c, a, b) ==
    /\ c \in Texts /\ Len(c) = Len(a) + Len(b)
    /\ \A i \in 1..Len(a) : c[i] = a[i]
    /\ \A i \in 1..Len(b) : \A k : k = Len(a) + i => c[k] = b[i]

LEMMA TextConcat ==
  ASSUME NEW a \in Texts, NEW b \in Texts
  PROVE  a \o b \in Texts /\ IsConcat(a \o b, a, b)
<1>1. /\ a \o b \in Seq(Char) /\ Len(a \o b) = Len(a) + Len(b)
      /\ \A i \in 1..(Len(a) + Len(b)) : (a \o b)[i] =
            IF i <= Len(a) THEN a[i] ELSE b[i - Len(a)]
  BY ConcatProperties DEF Texts
<1>2. PICK m \in Nat, n \in Nat : m = Len(a) /\ n = Len(b)
  BY LenProperties DEF Texts
<1>3. PICK c : c = a \o b
  OBVIOUS
<1>4. /\ c \in Texts /\ Len(c) = m + n
      /\ \A i \in 1..(m + n) : c[i] = IF i <= m THEN a[i] ELSE b[i - m]
  BY <1>1, <1>2, <1>3, Zenon DEF Texts
<1>5. \A i \in 1..m : c[i] = a[i]
  <2>1. \A i \in 1..m : i \in 1..(m + n) /\ i <= m
    OBVIOUS
  <2> QED BY <1>4, <2>1
<1>6. ASSUME NEW i \in 1..n, NEW k, k = m + i
      PROVE  c[k] = b[i]
  <2>1. k \in 1..(m + n) /\ ~(k <= m) /\ k - m = i
    BY <1>6
  <2> QED BY <1>4, <2>1, Zenon
<1>7. IsConcat(c, a, b)
  BY <1>2, <1>4, <1>5, <1>6, Zenon DEF IsConcat
<1> QED BY <1>3, <1>4, <1>7

LEMMA JoinsType ==
  ASSUME NEW parts \in Seq(Texts)
  PROVE  /\ Len(parts) \in Nat
         /\ \A n \in 1..Len(parts) : parts[n] \in Texts
         /\ JoinedLines(parts) \in [0..Len(parts) -> Texts]
         /\ JoinedLines(parts)[0] = <<>>
         /\ \A n \in 1..Len(parts) :
                JoinedLines(parts)[n] =
                    JoinedLines(parts)[n - 1]
                        \o (IF n > 1 THEN <<Newline>> ELSE <<>>) \o parts[n]
<1>1. PICK N \in Nat : N = Len(parts)
  BY LenProperties
<1>2. \A n \in 1..N : parts[n] \in Texts
  BY <1>1, ElementOfSeq
<1> DEFINE Link(n) == IF n > 1 THEN <<Newline>> ELSE <<>>
           Is(f) == f = [n \in 0..N |->
                            IF n = 0 THEN <<>> ELSE f[n - 1] \o Link(n) \o parts[n]]
<1>3. ASSUME NEW n \in 1..N, NEW text \in Texts
      PROVE  text \o Link(n) \o parts[n] \in Texts
  <2>1. PICK link : link = Link(n)
    OBVIOUS
  <2>2. link \in Texts
    <3>1. link = <<>> \/ link = <<Newline>>
      BY <2>1
    <3> QED BY <3>1, SmallTexts
  <2>3. \A a, b \in Texts : a \o b \in Texts
    BY ConcatProperties DEF Texts
  <2>4. text \o link \in Texts
    BY <2>2, <2>3
  <2>5. text \o link \o parts[n] \in Texts
    BY <1>2, <2>3, <2>4
  <2> QED BY <2>1, <2>5
<1>4. \E f : Is(f)
  <2>1. PICK step : step = [n \in 1..N |-> [v \in Texts |-> v \o Link(n) \o parts[n]]]
    OBVIOUS
  <2>2. \A n \in 1..N, v \in Texts : step[n][v] = v \o Link(n) \o parts[n]
    BY <2>1
  <2> HIDE DEF Link
  <2>3. PICK f : f \in [0..N -> Texts] /\ f[0] = <<>>
                 /\ \A n \in 1..N : f[n] = step[n][f[n - 1]]
    <3>1. PICK V, base : V = Texts /\ base = <<>>
      OBVIOUS
    <3>2. base \in V /\ StepsWithin(N, V, step)
      <4>1. base \in V
        BY <3>1, SmallTexts
      <4>2. \A n \in 1..N, v \in V : step[n][v] \in V
        BY <1>3, <2>2, <3>1
      <4> QED BY <4>1, <4>2 DEF StepsWithin
    <3>3. PICK f : Recursive(f, N, V, base, step)
      BY <3>2, RecursionExists
    <3> QED BY <3>1, <3>3 DEF Recursive
  <2>4. ASSUME NEW n \in 0..N
        PROVE  f[n] = IF n = 0 THEN <<>> ELSE f[n - 1] \o Link(n) \o parts[n]
    <3>1. CASE n = 0
      BY <2>3, <3>1
    <3>2. CASE n # 0
      <4>1. n \in 1..N /\ n - 1 \in 0..N
        BY <3>2
      <4>2. f[n - 1] \in Texts
        BY <2>3, <4>1
      <4>3. f[n] = f[n - 1] \o Link(n) \o parts[n]
        BY <2>2, <2>3, <4>1, <4>2, Zenon
      <4> QED BY <3>2, <4>3
    <3> QED BY <3>1, <3>2
  <2>5. f = [n \in 0..N |-> f[n]]
    BY <2>3
  <2>6. Is(f)
    BY <2>4, <2>5
  <2> QED BY <2>6
<1>5. JoinedLines(parts) = CHOOSE f : Is(f)
  BY <1>1 DEF JoinedLines
<1>6. PICK f : f = JoinedLines(parts) /\ Is(f)
  BY <1>4, <1>5
<1>7. f[0] = <<>> /\ \A n \in 1..N : f[n] = f[n - 1] \o Link(n) \o parts[n]
  BY <1>6
<1>8. \A n \in 0..N : f[n] \in Texts
  <2> HIDE DEF Link, Is
  <2> DEFINE S == {n \in 0..N : f[n] \in Texts}
  <2>1. 0 \in S
    BY <1>7, SmallTexts
  <2>2. ASSUME NEW n \in 1..N, n - 1 \in S
        PROVE  n \in S
    <3>1. f[n - 1] \in Texts
      BY <2>2
    <3>2. f[n - 1] \o Link(n) \o parts[n] \in Texts
      BY <1>3, <3>1
    <3>3. f[n] \in Texts
      BY <1>7, <3>2, Zenon
    <3> QED BY <3>3
  <2> HIDE DEF S
  <2>3. 0..N \subseteq S
    BY <2>1, <2>2, Counting
  <2> QED BY <2>3 DEF S
<1>9. f \in [0..N -> Texts]
  BY <1>6, <1>8
<1> QED BY <1>1, <1>2, <1>6, <1>7, <1>9

\* A longer beginning is at least as wide.
LEMMA WidthsGrow ==
  ASSUME NEW text \in Texts, NEW encoding \in Encodings,
         NEW n \in 0..Len(text), NEW m \in 0..n
  PROVE  Widths(text, encoding)[m] <= Widths(text, encoding)[n]
<1>1. PICK f : f = Widths(text, encoding)
  OBVIOUS
<1>2. PICK N \in Nat : N = Len(text)
  BY WidthsType
<1>3. /\ f \in [0..N -> Nat]
      /\ \A i \in 1..N : text[i] \in Char /\ f[i] = f[i - 1] + encoding[text[i]]
  BY <1>1, <1>2, WidthsType
<1> DEFINE S == {i \in 0..N : i < m \/ f[m] <= f[i]}
<1>4. 0 \in S
  BY <1>2, <1>3
<1>5. ASSUME NEW i \in 1..N, i - 1 \in S
      PROVE  i \in S
  <2>1. /\ f[i] = f[i - 1] + encoding[text[i]] /\ encoding[text[i]] \in Nat
        /\ f[i - 1] \in Nat /\ m \in 0..N /\ f[m] \in Nat
    <3>1. i - 1 \in 0..N /\ m \in 0..N
      BY <1>2
    <3>2. encoding[text[i]] \in Nat
      BY <1>3 DEF Encodings
    <3> QED BY <1>3, <3>1, <3>2
  <2>2. i < m \/ i = m \/ f[m] <= f[i - 1]
    BY <1>5
  <2> QED BY <2>1, <2>2
<1> HIDE DEF S
<1>6. n \in S
  <2>1. 0..N \subseteq S
    BY <1>4, <1>5, Counting
  <2> QED BY <1>2, <2>1
<1> QED BY <1>1, <1>2, <1>6 DEF S

\* Texts that begin alike have beginnings of the same widths.
LEMMA WidthsAgree ==
  ASSUME NEW a \in Texts, NEW b \in Texts, NEW encoding \in Encodings, NEW n \in Nat,
         n <= Len(a), n <= Len(b), \A i \in 1..n : a[i] = b[i]
  PROVE  \A i \in 0..n : Widths(a, encoding)[i] = Widths(b, encoding)[i]
<1>1. PICK f, g : f = Widths(a, encoding) /\ g = Widths(b, encoding)
  OBVIOUS
<1>2. /\ f[0] = 0 /\ g[0] = 0
      /\ \A i \in 1..n : f[i] = f[i - 1] + encoding[a[i]]
      /\ \A i \in 1..n : g[i] = g[i - 1] + encoding[b[i]]
  <2>1. \A i \in 1..n : i \in 1..Len(a) /\ i \in 1..Len(b)
    BY WidthsType
  <2> QED BY <1>1, <2>1, WidthsType
<1> DEFINE S == {i \in 0..n : f[i] = g[i]}
<1>3. 0 \in S
  BY <1>2
<1>4. ASSUME NEW i \in 1..n, i - 1 \in S
      PROVE  i \in S
  <2>1. f[i - 1] = g[i - 1]
    BY <1>4
  <2>2. f[i] = g[i]
    BY <1>2, <2>1, Zenon
  <2> QED BY <2>2
<1> HIDE DEF S
<1>5. 0..n \subseteq S
  BY <1>3, <1>4, Counting
<1> QED BY <1>1, <1>5 DEF S

\* The width of a beginning, and of a text behind another.
LEMMA WidthOfBeginning ==
  ASSUME NEW text \in Texts, NEW encoding \in Encodings, NEW n \in 0..Len(text)
  PROVE  /\ SubSeq(text, 1, n) \in Texts /\ Len(SubSeq(text, 1, n)) = n
         /\ \A i \in 1..n : SubSeq(text, 1, n)[i] = text[i]
         /\ Width(SubSeq(text, 1, n), encoding) = Widths(text, encoding)[n]
<1>1. PICK a : a = SubSeq(text, 1, n)
  OBVIOUS
<1>2. n \in Nat /\ n <= Len(text)
  BY WidthsType
<1>3. a \in Texts /\ Len(a) = n /\ \A i \in 1..n : a[i] = text[i]
  BY <1>1, <1>2, SubSeqProperties DEF Texts
<1>4. \A i \in 0..n : Widths(a, encoding)[i] = Widths(text, encoding)[i]
  BY <1>2, <1>3, WidthsAgree
<1>5. Width(a, encoding) = Widths(text, encoding)[n]
  BY <1>2, <1>3, <1>4 DEF Width
<1> QED BY <1>1, <1>3, <1>5

LEMMA WidthOfConcat ==
  ASSUME NEW a \in Texts, NEW b \in Texts, NEW encoding \in Encodings
  PROVE  Width(a \o b, encoding) = Width(a, encoding) + Width(b, encoding)
<1>1. PICK m \in Nat, n \in Nat : m = Len(a) /\ n = Len(b)
  BY WidthsType
<1>2. PICK c : c = a \o b
  OBVIOUS
<1>3. /\ c \in Texts /\ Len(c) = m + n
      /\ \A i \in 1..m : c[i] = a[i]
      /\ \A i \in 1..n : \A k : k = m + i => c[k] = b[i]
  <2>1. IsConcat(c, a, b)
    BY <1>2, TextConcat
  <2> QED BY <1>1, <2>1 DEF IsConcat
<1>4. PICK f, g : f = Widths(c, encoding) /\ g = Widths(b, encoding)
  OBVIOUS
<1>5. f[m] = Width(a, encoding)
  <2>1. \A i \in 0..m : Widths(a, encoding)[i] = f[i]
    <3>1. m <= Len(a) /\ m <= Len(c) /\ \A i \in 1..m : a[i] = c[i]
      BY <1>1, <1>3
    <3> QED BY <1>1, <1>3, <1>4, <3>1, WidthsAgree
  <2> QED BY <1>1, <2>1 DEF Width
<1>6. /\ f \in [0..(m + n) -> Nat] /\ g \in [0..n -> Nat] /\ g[0] = 0
      /\ \A i \in 1..(m + n) : f[i] = f[i - 1] + encoding[c[i]]
      /\ \A i \in 1..n : g[i] = g[i - 1] + encoding[b[i]]
  <2>1. PICK k \in Nat : k = m + n
    OBVIOUS
  <2>2. Len(c) = k
    BY <1>3, <2>1
  <2>3. f \in [0..k -> Nat] /\ \A i \in 1..k : f[i] = f[i - 1] + encoding[c[i]]
    BY <1>3, <1>4, <2>2, WidthsType, Zenon
  <2>4. /\ g \in [0..n -> Nat] /\ g[0] = 0
        /\ \A i \in 1..n : g[i] = g[i - 1] + encoding[b[i]]
    BY <1>1, <1>4, WidthsType, Zenon
  <2> QED BY <2>1, <2>3, <2>4
<1> DEFINE S == {i \in 0..n : f[m + i] = f[m] + g[i]}
<1>7. 0 \in S
  <2>1. m \in 0..(m + n) /\ m + 0 = m
    OBVIOUS
  <2>2. f[m] \in Nat
    BY <1>6, <2>1
  <2> QED BY <1>6, <2>1, <2>2
<1>8. ASSUME NEW i \in 1..n, i - 1 \in S
      PROVE  i \in S
  <2>1. PICK k \in Nat : k = m + i
    OBVIOUS
  <2>2. k \in 1..(m + n) /\ k - 1 = m + (i - 1)
    BY <2>1
  <2>3. f[k] = f[k - 1] + encoding[c[k]]
    BY <1>6, <2>2
  <2>4. c[k] = b[i]
    BY <1>3, <2>1
  <2>5. f[k - 1] = f[m] + g[i - 1]
    BY <1>8, <2>2
  <2>6. g[i] = g[i - 1] + encoding[b[i]]
    BY <1>6
  <2>7. f[m] \in Nat /\ g[i - 1] \in Nat /\ encoding[b[i]] \in Nat
    <3>1. m \in 0..(m + n) /\ i - 1 \in 0..n
      OBVIOUS
    <3>2. b[i] \in Char
      BY <1>1, WidthsType
    <3> QED BY <1>6, <3>1, <3>2 DEF Encodings
  <2>8. f[k] = f[m] + g[i]
    BY <2>3, <2>4, <2>5, <2>6, <2>7
  <2> QED BY <2>1, <2>8
<1> HIDE DEF S
<1>9. n \in S
  <2>1. 0..n \subseteq S
    BY <1>7, <1>8, Counting
  <2> QED BY <2>1
<1>10. f[m + n] = f[m] + g[n]
  BY <1>9 DEF S
<1> QED BY <1>1, <1>2, <1>3, <1>4, <1>5, <1>10 DEF Width
-----------------------------------------------------------------------------
(* Beginnings. *)

LEMMA PrefixMeans ==
  ASSUME NEW a \in Texts, NEW b \in Texts
  PROVE  IsPrefix(a, b) <=> Len(a) <= Len(b) /\ \A i \in 1..Len(a) : a[i] = b[i]
<1>1. PICK m \in Nat, n \in Nat : m = Len(a) /\ n = Len(b)
  BY LenProperties DEF Texts
<1>2. CASE m <= n
  <2>1. m \in 0..Len(a) /\ m \in 0..Len(b)
    BY <1>1, <1>2
  <2>2. PICK c, d : c = SubSeq(a, 1, m) /\ d = SubSeq(b, 1, m)
    OBVIOUS
  <2>3. /\ c \in Texts /\ Len(c) = m /\ \A i \in 1..m : c[i] = a[i]
        /\ d \in Texts /\ Len(d) = m /\ \A i \in 1..m : d[i] = b[i]
    BY <2>1, <2>2, SubSeqProperties, <1>1 DEF Texts
  <2>4. c = d <=> \A i \in 1..m : a[i] = b[i]
    <3>1. ASSUME \A i \in 1..m : a[i] = b[i]
          PROVE  c = d
      <4>1. \A i \in 1..m : c[i] = d[i]
        BY <2>3, <3>1
      <4> QED BY <2>3, <4>1 DEF Texts
    <3> QED BY <2>3, <3>1
  <2> QED BY <1>1, <1>2, <2>2, <2>4 DEF IsPrefix
<1>3. CASE ~(m <= n)
  BY <1>1, <1>3 DEF IsPrefix
<1> QED BY <1>2, <1>3

LEMMA PrefixTransitive ==
  ASSUME NEW a \in Texts, NEW b \in Texts, NEW c \in Texts, IsPrefix(a, b), IsPrefix(b, c)
  PROVE  IsPrefix(a, c)
<1>1. Len(a) \in Nat /\ Len(b) \in Nat /\ Len(c) \in Nat
  BY LenProperties DEF Texts
<1>2. /\ Len(a) <= Len(b) /\ \A i \in 1..Len(a) : a[i] = b[i]
      /\ Len(b) <= Len(c) /\ \A i \in 1..Len(b) : b[i] = c[i]
  BY PrefixMeans
<1>3. Len(a) <= Len(c) /\ \A i \in 1..Len(a) : a[i] = c[i]
  BY <1>1, <1>2
<1> QED BY <1>3, PrefixMeans

LEMMA PrefixOfConcat ==
  ASSUME NEW a \in Texts, NEW b \in Texts
  PROVE  IsPrefix(a, a) /\ IsPrefix(a, a \o b)
<1>1. Len(a) \in Nat /\ Len(b) \in Nat
  BY LenProperties DEF Texts
<1>2. PICK c : c = a \o b
  OBVIOUS
<1>3. c \in Texts /\ IsConcat(c, a, b)
  BY <1>2, TextConcat
<1>4. Len(a) <= Len(c) /\ \A i \in 1..Len(a) : a[i] = c[i]
  BY <1>1, <1>3 DEF IsConcat
<1>5. IsPrefix(a, c)
  BY <1>3, <1>4, PrefixMeans
<1>6. IsPrefix(a, a)
  BY <1>1, PrefixMeans
<1> QED BY <1>2, <1>5, <1>6

LEMMA PrefixBehind ==
  ASSUME NEW a \in Texts, NEW b \in Texts, NEW c \in Texts, IsPrefix(b, c)
  PROVE  IsPrefix(a \o b, a \o c)
<1>1. PICK k \in Nat, m \in Nat, n \in Nat : k = Len(a) /\ m = Len(b) /\ n = Len(c)
  BY LenProperties DEF Texts
<1>2. m <= n /\ \A i \in 1..m : b[i] = c[i]
  BY <1>1, PrefixMeans
<1>3. PICK d, e : d = a \o b /\ e = a \o c
  OBVIOUS
<1>4. IsConcat(d, a, b) /\ IsConcat(e, a, c)
  BY <1>3, TextConcat
<1>5. d \in Texts /\ Len(d) = k + m /\ e \in Texts /\ Len(e) = k + n
  BY <1>1, <1>4 DEF IsConcat
<1>6. ASSUME NEW i \in 1..(k + m)
      PROVE  d[i] = e[i]
  <2>1. CASE i <= k
    <3>1. i \in 1..Len(a)
      BY <1>1, <2>1
    <3> QED BY <1>4, <3>1 DEF IsConcat
  <2>2. CASE ~(i <= k)
    <3>1. PICK j \in 1..m : i = k + j
      <4>1. i - k \in 1..m /\ i = k + (i - k)
        BY <2>2
      <4> QED BY <4>1
    <3>2. j \in 1..Len(b) /\ j \in 1..Len(c) /\ i = Len(a) + j
      BY <1>1, <1>2, <3>1
    <3>3. d[i] = b[j] /\ e[i] = c[j]
      BY <1>4, <3>2 DEF IsConcat
    <3> QED BY <1>2, <3>1, <3>3
  <2> QED BY <2>1, <2>2
<1>7. Len(d) <= Len(e) /\ \A i \in 1..Len(d) : d[i] = e[i]
  BY <1>2, <1>5, <1>6
<1> QED BY <1>3, <1>5, <1>7, PrefixMeans

\* The longest beginning within a budget.
LEMMA PrefixChosen ==
  ASSUME NEW text \in Texts, NEW encoding \in Encodings, NEW budget \in Nat
  PROVE  \E n \in 0..Len(text) :
            /\ Prefix(text, encoding, budget) = SubSeq(text, 1, n)
            /\ Widths(text, encoding)[n] <= budget
            /\ n < Len(text) => Widths(text, encoding)[n + 1] > budget
<1>1. PICK width : width = Widths(text, encoding)
  OBVIOUS
<1>2. PICK N \in Nat : N = Len(text)
  BY WidthsType
<1>3. width \in [0..N -> Nat] /\ width[0] = 0
  BY <1>1, <1>2, WidthsType
<1> DEFINE Longest(n) == width[n] <= budget /\ (n < Len(text) => width[n + 1] > budget)
<1>4. \E n \in 0..N : Longest(n)
  <2>1. SUFFICES ASSUME \A n \in 0..N : ~Longest(n) PROVE FALSE
    OBVIOUS
  <2> DEFINE S == {n \in 0..N : width[n] <= budget}
  <2>2. 0 \in S
    BY <1>3
  <2>3. ASSUME NEW n \in 1..N, n - 1 \in S
        PROVE  n \in S
    <3>1. PICK k \in 0..N : k = n - 1
      OBVIOUS
    <3>2. width[k] <= budget /\ k < N /\ k + 1 = n
      BY <2>3, <3>1
    <3>3. ~(width[n] > budget)
      BY <1>2, <2>1, <3>2
    <3>4. width[n] \in Nat
      BY <1>3
    <3> QED BY <3>3, <3>4
  <2> HIDE DEF S
  <2>4. N \in S
    <3>1. 0..N \subseteq S
      BY <2>2, <2>3, Counting
    <3> QED BY <3>1
  <2> QED BY <1>2, <2>1, <2>4 DEF S
<1>5. Prefix(text, encoding, budget) = SubSeq(text, 1, CHOOSE n \in 0..N : Longest(n))
  BY <1>1, <1>2 DEF Prefix
<1>6. PICK n \in 0..N : n = (CHOOSE i \in 0..N : Longest(i)) /\ Longest(n)
  BY <1>4
<1> QED BY <1>1, <1>2, <1>5, <1>6

LEMMA PrefixFits ==
  ASSUME NEW text \in Texts, NEW encoding \in Encodings, NEW budget \in Nat
  PROVE  /\ Prefix(text, encoding, budget) \in Texts
         /\ IsPrefix(Prefix(text, encoding, budget), text)
         /\ Width(Prefix(text, encoding, budget), encoding) \in Nat
         /\ Width(Prefix(text, encoding, budget), encoding) <= budget
         /\ Width(text, encoding) <= budget => Prefix(text, encoding, budget) = text
         /\ \A m \in 0..Len(text) :
                Widths(text, encoding)[m] <= budget
                    => m <= Len(Prefix(text, encoding, budget))
<1>1. PICK width : width = Widths(text, encoding)
  OBVIOUS
<1>2. PICK N \in Nat : N = Len(text)
  BY WidthsType
<1>3. width \in [0..N -> Nat]
  BY <1>1, <1>2, WidthsType
<1>4. PICK n \in 0..N :
         /\ Prefix(text, encoding, budget) = SubSeq(text, 1, n)
         /\ width[n] <= budget
         /\ n < N => width[n + 1] > budget
  BY <1>1, <1>2, PrefixChosen
<1>5. PICK a : a = Prefix(text, encoding, budget)
  OBVIOUS
<1>6. /\ a \in Texts /\ Len(a) = n /\ \A i \in 1..n : a[i] = text[i]
      /\ Width(a, encoding) = width[n]
  BY <1>1, <1>2, <1>4, <1>5, WidthOfBeginning
<1>7. IsPrefix(a, text)
  BY <1>2, <1>6, PrefixMeans
<1>8. ASSUME NEW m \in 0..N, width[m] <= budget
      PROVE  m <= n
  <2>1. SUFFICES ASSUME n < m PROVE FALSE
    OBVIOUS
  <2>2. n + 1 \in 0..m /\ n + 1 \in 0..N /\ n < N
    BY <2>1
  <2>3. width[n + 1] <= width[m]
    BY <1>1, <1>2, <2>2, WidthsGrow
  <2>4. width[n + 1] \in Nat /\ width[m] \in Nat /\ width[n + 1] > budget
    BY <1>3, <1>4, <2>2
  <2> QED BY <1>8, <2>3, <2>4
<1>9. Width(text, encoding) <= budget => a = text
  <2>1. Width(text, encoding) = width[N]
    BY <1>1, <1>2 DEF Width
  <2>2. ASSUME width[N] <= budget
        PROVE  a = text
    <3>1. n = N
      BY <1>8, <2>2
    <3> QED BY <1>2, <1>6, <3>1 DEF Texts
  <2> QED BY <2>1, <2>2
<1>10. width[n] \in Nat
  BY <1>3
<1> QED BY <1>1, <1>2, <1>4, <1>5, <1>6, <1>7, <1>8, <1>9, <1>10
-----------------------------------------------------------------------------
(* Parts. *)

LEMMA EncodingsType == Utf8 \in Encodings /\ Json \in Encodings
BY DEF Utf8, Json, Encodings

LEMMA JoinType ==
  ASSUME NEW parts \in Seq(Texts)
  PROVE  JoinLines(parts) \in Texts
<1>1. Len(parts) \in 0..Len(parts)
  BY JoinsType
<1> QED BY <1>1, JoinsType DEF JoinLines

LEMMA JoinAppend ==
  ASSUME NEW parts \in Seq(Texts), NEW p \in Texts
  PROVE  JoinLines(Append(parts, p)) =
            IF parts = <<>> THEN p ELSE JoinLines(parts) \o <<Newline>> \o p
<1>1. PICK n \in Nat : n = Len(parts)
  BY JoinsType
<1>2. PICK more : more = Append(parts, p)
  OBVIOUS
<1>3. /\ more \in Seq(Texts) /\ Len(more) = n + 1 /\ more[n + 1] = p
      /\ \A i \in 1..n : more[i] = parts[i]
  BY <1>1, <1>2, AppendProperties
<1>4. PICK f, g : f = JoinedLines(parts) /\ g = JoinedLines(more)
  OBVIOUS
<1> DEFINE Link(i) == IF i > 1 THEN <<Newline>> ELSE <<>>
<1>5. /\ f[0] = <<>> /\ g[0] = <<>>
      /\ \A i \in 1..n : f[i] = f[i - 1] \o Link(i) \o parts[i]
      /\ \A i \in 1..(n + 1) : g[i] = g[i - 1] \o Link(i) \o more[i]
      /\ f[n] \in Texts
  <2>1. /\ f[0] = <<>> /\ f \in [0..n -> Texts]
        /\ \A i \in 1..n : f[i] = f[i - 1] \o Link(i) \o parts[i]
    BY <1>1, <1>4, JoinsType, Zenon
  <2>2. PICK m \in Nat : m = n + 1
    OBVIOUS
  <2>3. Len(more) = m
    BY <1>3, <2>2
  <2>4. g[0] = <<>> /\ \A i \in 1..m : g[i] = g[i - 1] \o Link(i) \o more[i]
    BY <1>3, <1>4, <2>3, JoinsType, Zenon
  <2>5. f[n] \in Texts
    BY <2>1
  <2> HIDE DEF Link
  <2> QED BY <2>1, <2>2, <2>4, <2>5
<1>6. f[n] = g[n]
  <2> HIDE DEF Link
  <2> DEFINE S == {i \in 0..n : f[i] = g[i]}
  <2>1. 0 \in S
    BY <1>5
  <2>2. ASSUME NEW i \in 1..n, i - 1 \in S
        PROVE  i \in S
    <3>1. i \in 1..(n + 1) /\ f[i - 1] = g[i - 1] /\ more[i] = parts[i]
      BY <1>3, <2>2
    <3>2. f[i] = g[i]
      BY <1>5, <3>1, Zenon
    <3> QED BY <3>2
  <2> HIDE DEF S
  <2>3. 0..n \subseteq S
    BY <2>1, <2>2, Counting
  <2> QED BY <2>3 DEF S
<1>7. g[n + 1] = f[n] \o Link(n + 1) \o p
  <2>1. PICK k \in 1..(n + 1) : k = n + 1 /\ k - 1 = n
    OBVIOUS
  <2>2. g[k] = g[k - 1] \o Link(k) \o more[k]
    BY <1>5
  <2>3. more[k] = p /\ g[k - 1] = f[n]
    BY <1>3, <1>6, <2>1
  <2> HIDE DEF Link
  <2> QED BY <2>1, <2>2, <2>3
<1>8. JoinLines(more) = g[n + 1] /\ JoinLines(parts) = f[n]
  BY <1>1, <1>3, <1>4 DEF JoinLines
<1>9. CASE n = 0
  <2>1. parts = <<>> /\ Link(n + 1) = <<>> /\ f[n] = <<>>
    <3>1. parts = <<>>
      BY <1>1, <1>9, EmptySeq
    <3>2. ~(n + 1 > 1)
      BY <1>9
    <3> QED BY <1>5, <1>9, <3>1, <3>2
  <2>2. <<>> \o p = p /\ <<>> \o <<>> = <<>>
    BY SmallTexts, ConcatEmptySeq DEF Texts
  <2> QED BY <1>2, <1>7, <1>8, <2>1, <2>2
<1>10. CASE n # 0
  <2>1. parts # <<>> /\ Link(n + 1) = <<Newline>>
    BY <1>1, <1>10, EmptySeq
  <2> QED BY <1>2, <1>7, <1>8, <2>1
<1> QED BY <1>9, <1>10

LEMMA JoinSmall ==
  ASSUME NEW p \in Texts
  PROVE  JoinLines(<<>>) = <<>> /\ JoinLines(<<p>>) = p
<1>1. PICK parts : parts = <<>>
  OBVIOUS
<1>2. parts \in Seq(Texts) /\ Len(parts) = 0
  BY <1>1
<1>3. JoinLines(parts) = <<>>
  BY <1>2, JoinsType DEF JoinLines
<1>4. JoinLines(Append(parts, p)) = p
  BY <1>1, <1>2, JoinAppend
<1>5. Append(parts, p) = <<p>>
  BY <1>1
<1> QED BY <1>1, <1>3, <1>4, <1>5

LEMMA WidthType ==
  ASSUME NEW text \in Texts, NEW encoding \in Encodings
  PROVE  Width(text, encoding) \in Nat /\ Width(<<>>, encoding) = 0
<1>1. Len(text) \in 0..Len(text)
  BY WidthsType
<1>2. Widths(text, encoding)[Len(text)] \in Nat
  BY <1>1, WidthsType
<1>3. Widths(<<>>, encoding)[0] = 0
  BY SmallTexts, WidthsType
<1> QED BY <1>2, <1>3, SmallTexts DEF Width
-----------------------------------------------------------------------------
(* What is answered. *)

Output ==
    [kind : {"output"}, success : BOOLEAN, output : Nat \cup {None},
     diagnostic : Nat \cup {None}, stdout : Texts, stderr : Texts, calls : Nat,
     truncated : BOOLEAN]

Bare(o) == [o EXCEPT !.stdout = <<>>, !.stderr = <<>>]

LEMMA BareType ==
  ASSUME NEW o \in Output
  PROVE  Bare(o) \in Output
BY SmallTexts DEF Output, Bare

\* The size of a result is that of the bare one and of its streams.
LEMMA SizeParts ==
  ASSUME NEW o \in Output
  PROVE  /\ JsonSize(o.stdout) \in Nat /\ JsonSize(o.stderr) \in Nat
         /\ Size(Bare(o)) \in Nat
         /\ Size(o) = Size(Bare(o)) + JsonSize(o.stdout) + JsonSize(o.stderr)
         /\ Size(Bare(o)) =
                Envelope + (IF o.success THEN 0 ELSE 1) + (IF o.truncated THEN 0 ELSE 1)
                   + (IF o.output = None THEN 1 ELSE o.output)
                   + (IF o.diagnostic = None THEN 0 ELSE o.diagnostic) + o.calls
<1>1. PICK x, y : x = JsonSize(o.stdout) /\ y = JsonSize(o.stderr)
  OBVIOUS
<1>2. x \in Nat /\ y \in Nat /\ JsonSize(<<>>) = 0
  BY <1>1, WidthType, SmallTexts, EncodingsType DEF JsonSize, Output
<1>3. PICK b : b = Bare(o)
  OBVIOUS
<1>4. /\ b.success = o.success /\ b.truncated = o.truncated /\ b.output = o.output
      /\ b.diagnostic = o.diagnostic /\ b.calls = o.calls
      /\ b.stdout = <<>> /\ b.stderr = <<>>
  BY <1>3 DEF Bare, Output
<1>5. PICK success, cut : /\ success = (IF o.success THEN 0 ELSE 1)
                          /\ cut = (IF o.truncated THEN 0 ELSE 1)
  OBVIOUS
<1>6. PICK value, error : /\ value = (IF o.output = None THEN 1 ELSE o.output)
                          /\ error = (IF o.diagnostic = None THEN 0 ELSE o.diagnostic)
  OBVIOUS
<1>7. /\ success \in Nat /\ cut \in Nat /\ value \in Nat /\ error \in Nat
      /\ o.calls \in Nat
  BY <1>5, <1>6 DEF Output
<1>8. Size(o) = Envelope + success + cut + value + error + o.calls + x + y
  BY <1>1, <1>5, <1>6 DEF Size
<1>9. Size(b) = Envelope + success + cut + value + error + o.calls + 0 + 0
  BY <1>2, <1>4, <1>5, <1>6 DEF Size
<1>10. Envelope \in Nat
  BY DEF Envelope
<1>11. Size(b) \in Nat /\ Size(o) = Size(b) + x + y
  BY <1>2, <1>7, <1>8, <1>9, <1>10
<1>12. Size(b) = Envelope + success + cut + value + error + o.calls
  BY <1>7, <1>9, <1>10
<1> QED BY <1>1, <1>2, <1>3, <1>5, <1>6, <1>11, <1>12, Zenon

\* What truncate_streams answers of a result: within the maximum unless the
\* bare result is not, and of each stream a beginning.
Shortened(o, r) ==
    /\ r \in Output /\ Bare(r) = Bare(o) /\ Fits(r)
    /\ IsPrefix(r.stdout, o.stdout) /\ IsPrefix(r.stderr, o.stderr)
    /\ (maximum - Size(Bare(o))) \div 2 >= JsonSize(Message) /\ IsPrefix(Message, o.stderr)
           => IsPrefix(Message, r.stderr)

LEMMA MessageType == Message \in Texts /\ Len(Message) \in Nat
<1>1. "plain" \in Char
  BY DEF Char
<1>2. Message \in Texts
  BY <1>1 DEF Message, Texts
<1> QED BY <1>2, LenProperties DEF Texts

LEMMA TruncateStreamsShortens ==
  ASSUME maximum \in Nat, NEW o \in Output
  PROVE  \/ TruncateStreams(o) = Failed /\ ~Fits(Bare(o))
         \/ Shortened(o, TruncateStreams(o))
<1>1. PICK bare : bare = Bare(o)
  OBVIOUS
<1>2. PICK size \in Nat : size = Size(bare)
  BY <1>1, SizeParts
<1>3. PICK out \in Nat, err \in Nat : out = JsonSize(o.stdout) /\ err = JsonSize(o.stderr)
  BY SizeParts
<1>4. PICK available \in Nat : available = Minus(maximum, size)
  BY <1>2 DEF Minus
<1>5. PICK half \in Nat : half = available \div 2 /\ 2 * half <= available
  BY <1>4
<1>6. PICK o1 \in Nat, e1 \in Nat : o1 = Least(out, half) /\ e1 = Least(err, half)
  BY <1>3, <1>5 DEF Least
<1>7. o1 <= out /\ e1 <= err /\ o1 <= half /\ e1 <= half
  BY <1>3, <1>5, <1>6 DEF Least
<1>8. PICK remaining \in Nat : remaining = available - o1 - e1
  BY <1>4, <1>5, <1>7
<1>9. PICK extra \in Nat : extra = Least(out - o1, remaining) /\ extra <= remaining
  <2>1. out - o1 \in Nat
    BY <1>7
  <2> QED BY <2>1 DEF Least
<1>10. PICK errExtra \in Nat :
          errExtra = Least(err - e1, remaining - extra) /\ errExtra <= remaining - extra
  <2>1. err - e1 \in Nat /\ remaining - extra \in Nat
    BY <1>7, <1>9
  <2> QED BY <2>1 DEF Least
<1>11. PICK x, y : /\ x = Prefix(o.stdout, Json, o1 + extra)
                   /\ y = Prefix(o.stderr, Json, e1 + errExtra)
  OBVIOUS
<1>12. PICK full : full = [o EXCEPT !.stdout = x, !.stderr = y]
  OBVIOUS
<1>13. TruncateStreams(o) =
          IF Fits(full) THEN full ELSE IF Fits(bare) THEN bare ELSE Failed
  BY <1>1, <1>2, <1>3, <1>4, <1>5, <1>6, <1>8, <1>9, <1>10, <1>11, <1>12
     DEF TruncateStreams, Bare
<1>14. /\ x \in Texts /\ IsPrefix(x, o.stdout) /\ JsonSize(x) \in Nat
       /\ JsonSize(x) <= o1 + extra
       /\ y \in Texts /\ IsPrefix(y, o.stderr) /\ JsonSize(y) \in Nat
       /\ JsonSize(y) <= e1 + errExtra
  <2>1. PICK a \in Nat, b \in Nat : a = o1 + extra /\ b = e1 + errExtra
    BY <1>6, <1>9, <1>10
  <2>2. o.stdout \in Texts /\ o.stderr \in Texts
    BY DEF Output
  <2> QED BY <1>11, <2>1, <2>2, PrefixFits, EncodingsType DEF JsonSize
<1>15. full \in Output /\ Bare(full) = bare /\ full.stdout = x /\ full.stderr = y
  BY <1>1, <1>12, <1>14 DEF Output, Bare
<1>16. Size(full) = size + JsonSize(x) + JsonSize(y)
  BY <1>2, <1>15, SizeParts
<1>17. Fits(bare) => Fits(full)
  <2>1. ASSUME size <= maximum
        PROVE  size + JsonSize(x) + JsonSize(y) <= maximum
    <3>1. available = maximum - size
      BY <1>2, <1>4, <2>1 DEF Minus
    <3>2. o1 + extra + e1 + errExtra <= available
      BY <1>7, <1>8, <1>9, <1>10
    <3> QED BY <1>2, <1>14, <2>1, <3>1, <3>2
  <2> QED BY <1>2, <1>16, <2>1 DEF Fits
<1>18. CASE Fits(full)
  <2>1. ASSUME (maximum - size) \div 2 >= JsonSize(Message), IsPrefix(Message, o.stderr)
        PROVE  IsPrefix(Message, y)
    <3>1. size <= maximum
      <4>1. size + JsonSize(x) + JsonSize(y) <= maximum
        BY <1>16, <1>18 DEF Fits
      <4> QED BY <1>2, <1>14, <4>1
    <3>2. half >= JsonSize(Message)
      <4>1. available = maximum - size
        BY <1>2, <1>4, <3>1 DEF Minus
      <4> QED BY <1>5, <2>1, <4>1
    <3>3. PICK m \in Nat : /\ m = Len(Message) /\ m <= Len(o.stderr)
                           /\ \A i \in 1..m : Message[i] = o.stderr[i]
      BY <2>1, MessageType, PrefixMeans DEF Output
    <3>4. PICK text \in Texts : text = o.stderr
      BY DEF Output
    <3>5. PICK width : width = Widths(text, Json)
      OBVIOUS
    <3>6. JsonSize(Message) = width[m]
      <4>1. \A i \in 0..m : Widths(Message, Json)[i] = width[i]
        BY <3>3, <3>4, <3>5, MessageType, WidthsAgree, EncodingsType
      <4>2. m \in 0..m
        BY <3>3
      <4>3. JsonSize(Message) = Widths(Message, Json)[m]
        BY <3>3, Zenon DEF JsonSize, Width
      <4> QED BY <4>1, <4>2, <4>3, Zenon
    <3>7. PICK N \in Nat : N = Len(text)
      BY LenProperties DEF Texts
    <3>8. m \in 0..N /\ width[m] \in Nat /\ width[N] \in Nat /\ width[m] <= width[N]
      BY <3>3, <3>4, <3>5, <3>7, WidthsType, WidthsGrow, EncodingsType
    <3>9. err = width[N]
      BY <1>3, <3>4, <3>5, <3>7 DEF JsonSize, Width
    <3>10. width[m] <= e1
      BY <1>3, <1>5, <1>6, <3>2, <3>6, <3>8, <3>9 DEF Least
    <3>11. PICK b \in Nat : b = e1 + errExtra /\ e1 <= b
      BY <1>6, <1>10
    <3>12. width[m] <= b
      BY <1>6, <3>8, <3>10, <3>11
    <3>13. m <= Len(Prefix(text, Json, b))
      BY <3>5, <3>7, <3>8, <3>12, PrefixFits, EncodingsType
    <3>14. m <= Len(y) /\ Len(y) \in Nat
      BY <1>11, <1>14, <3>4, <3>11, <3>13, LenProperties DEF Texts
    <3>15. \A i \in 1..Len(y) : y[i] = text[i]
      BY <1>14, <3>4, PrefixMeans
    <3>16. \A i \in 1..m : Message[i] = y[i]
      BY <3>3, <3>4, <3>14, <3>15
    <3> QED BY <1>14, <3>3, <3>14, <3>16, MessageType, PrefixMeans
  <2> QED BY <1>1, <1>2, <1>13, <1>14, <1>15, <1>18, <2>1 DEF Shortened
<1>19. CASE ~Fits(full)
  BY <1>1, <1>13, <1>17, <1>19
<1> QED BY <1>18, <1>19

\* What bound_output answers of a result.
Bounded(o, r) ==
    /\ r \in Output /\ Fits(r)
    /\ ~r.truncated => r = o
    /\ r.success => r.output # None
    /\ r.output = o.output \/ r.output = None
    /\ IsPrefix(r.stdout, o.stdout)
    /\ IF o.output # None /\ r.output = None
       THEN /\ IsPrefix(r.stderr, Message \o <<Newline>> \o o.stderr)
            /\ (maximum - Size(Bare(r))) \div 2 >= JsonSize(Message)
                   => IsPrefix(Message, r.stderr)
       ELSE IsPrefix(r.stderr, o.stderr)

LEMMA BoundOutputAnswers ==
  ASSUME maximum \in Nat, NEW o \in Output, o.success <=> o.output # None
  PROVE  \/ BoundOutput(o) = Failed /\ maximum < Envelope + 2
         \/ Bounded(o, BoundOutput(o))
<1>1. PICK said : said = BoundDiagnostic(o)
  OBVIOUS
<1>2. /\ said \in Output /\ said.stdout = o.stdout /\ said.stderr = o.stderr
      /\ said.success = o.success /\ said.output = o.output
      /\ ~said.truncated => said = o
  <2>0. MaxDiagnostic \in Nat
    BY OutputAssumption
  <2>1. Least(o.diagnostic, MaxDiagnostic) \in Nat \cup {None}
    BY <2>0 DEF Output, Least, None
  <2>2. o.diagnostic > MaxDiagnostic \/ Least(o.diagnostic, MaxDiagnostic) = o.diagnostic
    BY <2>0 DEF Output, Least, None
  <2>3. said = [o EXCEPT !.diagnostic = Least(o.diagnostic, MaxDiagnostic),
                         !.truncated = o.truncated \/ o.diagnostic > MaxDiagnostic]
    BY <1>1 DEF BoundDiagnostic
  <2>4. /\ said \in Output /\ said.stdout = o.stdout /\ said.stderr = o.stderr
        /\ said.success = o.success /\ said.output = o.output
    BY <2>1, <2>3 DEF Output
  <2>5. ASSUME ~said.truncated PROVE said = o
    <3>1. ~o.truncated /\ ~(o.diagnostic > MaxDiagnostic)
      BY <2>3, <2>5 DEF Output
    <3>2. Least(o.diagnostic, MaxDiagnostic) = o.diagnostic
      BY <2>2, <3>1
    <3> QED BY <2>3, <3>1, <3>2 DEF Output
  <2> QED BY <2>4, <2>5
<1>3. CASE Fits(said)
  <2>1. BoundOutput(o) = said
    BY <1>1, <1>3 DEF BoundOutput
  <2>2. IsPrefix(said.stdout, o.stdout) /\ IsPrefix(said.stderr, o.stderr)
    BY <1>2, PrefixOfConcat DEF Output
  <2> QED BY <1>2, <1>3, <2>1, <2>2 DEF Bounded
<1>4. CASE ~Fits(said)
  <2>1. PICK b : b = [said EXCEPT !.truncated = TRUE, !.stdout = <<>>, !.stderr = <<>>]
    OBVIOUS
  <2>2. PICK v, d, c : v = DropValue(b) /\ d = DropDiagnostic(v) /\ c = DropCalls(d)
    OBVIOUS
  <2>3. /\ b \in Output /\ b.truncated /\ b.stdout = <<>> /\ b.stderr = <<>>
        /\ b.success = o.success /\ b.output = o.output
    BY <1>2, <2>1, SmallTexts DEF Output
  \* The value.
  <2>4. /\ v \in Output /\ v.truncated /\ v.stdout = <<>>
        /\ v.success => v.output # None
        /\ \/ v.output = o.output /\ v.stderr = <<>>
           \/ o.output # None /\ v.output = None /\ v.stderr = Message
        /\ ~Fits(v) => v.output = None /\ ~v.success
    <3>1. CASE ~Fits(b) /\ b.output # None
      <4>1. v = [b EXCEPT !.success = FALSE, !.output = None, !.stderr = Message]
        BY <2>2, <3>1 DEF DropValue
      <4> QED BY <2>3, <3>1, <4>1, MessageType DEF Output
    <3>2. CASE ~(~Fits(b) /\ b.output # None)
      <4>1. v = b
        BY <2>2, <3>2 DEF DropValue
      <4> QED BY <2>3, <3>2, <4>1
    <3> QED BY <3>1, <3>2
  \* The diagnostic, then the calls.
  <2>5. /\ d \in Output /\ d.truncated /\ d.stdout = v.stdout /\ d.stderr = v.stderr
        /\ d.success = v.success /\ d.output = v.output
        /\ ~Fits(d) => ~Fits(v) /\ d.diagnostic = None
    <3>1. Fits(v) => d = v
      BY <2>2 DEF DropDiagnostic
    <3>2. ~Fits(v) => d = [v EXCEPT !.diagnostic = None]
      BY <2>2 DEF DropDiagnostic
    <3>3. CASE Fits(v)
      BY <2>4, <3>1, <3>3
    <3>4. CASE ~Fits(v)
      BY <2>4, <3>2, <3>4 DEF Output
    <3> QED BY <3>3, <3>4
  <2>6. /\ c \in Output /\ c.truncated /\ c.stdout = v.stdout /\ c.stderr = v.stderr
        /\ c.success = v.success /\ c.output = v.output
        /\ ~Fits(c) => /\ ~Fits(v) /\ c.diagnostic = None /\ c.calls = 0
    <3>1. Fits(d) => c = d
      BY <2>2 DEF DropCalls
    <3>2. ~Fits(d) => c = [d EXCEPT !.calls = 0]
      BY <2>2 DEF DropCalls
    <3>3. CASE Fits(d)
      BY <2>5, <3>1, <3>3
    <3>4. CASE ~Fits(d)
      BY <2>5, <3>2, <3>4 DEF Output
    <3> QED BY <3>3, <3>4
  <2>7. PICK text : text = IF c.stderr = <<>> THEN o.stderr
                           ELSE IF o.stderr = <<>> THEN c.stderr
                           ELSE c.stderr \o <<Newline>> \o o.stderr
    OBVIOUS
  <2>8. PICK whole : whole = Message \o <<Newline>> \o o.stderr
    OBVIOUS
  <2>9. /\ whole \in Texts /\ IsPrefix(Message, whole) /\ IsPrefix(Message, Message)
    <3>1. PICK x : x = Message \o <<Newline>>
      OBVIOUS
    <3>2. x \in Texts /\ IsPrefix(Message, x) /\ IsPrefix(Message, Message)
      BY <3>1, MessageType, SmallTexts, TextConcat, PrefixOfConcat
    <3>3. o.stderr \in Texts /\ whole = x \o o.stderr
      BY <2>8, <3>1 DEF Output
    <3>4. whole \in Texts /\ IsPrefix(x, whole)
      BY <3>2, <3>3, TextConcat, PrefixOfConcat
    <3> QED BY <3>2, <3>4, MessageType, PrefixTransitive
  <2>10. /\ text \in Texts
         /\ c.stderr = <<>> => text = o.stderr
         /\ c.stderr = Message => IsPrefix(text, whole) /\ IsPrefix(Message, text)
    <3>1. CASE c.stderr = <<>>
      <4>1. Message # <<>>
        BY DEF Message
      <4> QED BY <2>7, <3>1, <4>1 DEF Output
    <3>2. CASE c.stderr # <<>>
      <4>1. c.stderr = Message
        BY <2>4, <2>6, <3>2
      <4>2. text = Message \/ text = whole
        BY <2>7, <2>8, <3>2, <4>1
      <4>3. IsPrefix(whole, whole)
        BY <2>9, PrefixOfConcat
      <4> QED BY <2>9, <3>2, <4>2, <4>3, MessageType
    <3> QED BY <3>1, <3>2
  <2>11. PICK p : p = [c EXCEPT !.stdout = o.stdout, !.stderr = text]
    OBVIOUS
  <2>12. /\ p \in Output /\ Bare(p) = Bare(c) /\ p.stdout = o.stdout /\ p.stderr = text
    BY <2>6, <2>10, <2>11 DEF Output, Bare
  <2>13. BoundOutput(o) = TruncateStreams(p)
    BY <1>1, <1>2, <1>4, <2>1, <2>2, <2>7, <2>11 DEF BoundOutput, PutBack
  <2>14. CASE TruncateStreams(p) = Failed /\ ~Fits(Bare(p))
    <3>1. ~Fits(c)
      <4>1. /\ JsonSize(c.stdout) \in Nat /\ JsonSize(c.stderr) \in Nat
            /\ Size(Bare(c)) \in Nat
            /\ Size(c) = Size(Bare(c)) + JsonSize(c.stdout) + JsonSize(c.stderr)
        BY <2>6, SizeParts
      <4>2. ~(Size(Bare(c)) <= maximum)
        BY <2>12, <2>14 DEF Fits
      <4>3. ~(Size(c) <= maximum)
        BY <4>1, <4>2
      <4> QED BY <4>3 DEF Fits
    <3>2. /\ c.output = None /\ ~c.success /\ c.diagnostic = None /\ c.calls = 0
          /\ c.truncated
      BY <2>4, <2>6, <3>1
    <3>3. Size(Bare(c)) = Envelope + 2
      BY <2>6, <3>2, SizeParts DEF Envelope
    <3> QED BY <2>12, <2>13, <2>14, <3>3 DEF Fits, Envelope
  <2>15. CASE Shortened(p, TruncateStreams(p))
    <3>1. PICK r : r = TruncateStreams(p)
      OBVIOUS
    <3>2. /\ r \in Output /\ Bare(r) = Bare(c) /\ Fits(r)
          /\ IsPrefix(r.stdout, o.stdout) /\ IsPrefix(r.stderr, text)
          /\ (maximum - Size(Bare(r))) \div 2 >= JsonSize(Message) /\ IsPrefix(Message, text)
                 => IsPrefix(Message, r.stderr)
      BY <2>12, <2>15, <3>1 DEF Shortened
    <3>3. r.truncated = c.truncated /\ r.success = c.success /\ r.output = c.output
      <4>1. /\ Bare(r).truncated = r.truncated /\ Bare(r).success = r.success
            /\ Bare(r).output = r.output
        BY <3>2 DEF Bare, Output
      <4>2. /\ Bare(c).truncated = c.truncated /\ Bare(c).success = c.success
            /\ Bare(c).output = c.output
        BY <2>6 DEF Bare, Output
      <4> QED BY <3>2, <4>1, <4>2
    <3>4. CASE o.output # None /\ r.output = None
      <4>1. c.stderr = Message
        BY <2>4, <2>6, <3>3, <3>4
      <4>2. IsPrefix(r.stderr, whole)
        BY <2>9, <2>10, <3>2, <4>1, PrefixTransitive DEF Output
      <4> QED BY <2>4, <2>6, <2>8, <2>10, <2>13, <3>1, <3>2, <3>3, <3>4, <4>1, <4>2
              DEF Bounded
    <3>5. CASE ~(o.output # None /\ r.output = None)
      <4>1. c.stderr = <<>>
        BY <2>4, <2>6, <3>3, <3>5
      <4>2. IsPrefix(r.stderr, o.stderr)
        BY <2>10, <3>2, <4>1
      <4> QED BY <2>4, <2>6, <2>13, <3>1, <3>2, <3>3, <3>5, <4>2 DEF Bounded
    <3> QED BY <3>4, <3>5
  <2> QED BY <2>12, <2>14, <2>15, TruncateStreamsShortens
<1> QED BY <1>3, <1>4
-----------------------------------------------------------------------------
(* The invariant. *)

OutputTypeOK ==
    /\ maximum \in Nat
    /\ formatting \in Seq(Streams)
    /\ nested \in Nat
    /\ written \in [Streams -> Seq(Texts)]
    /\ captured \in [Streams -> Seq(Texts)]
    /\ retained \in Nat
    /\ captureTruncated \in BOOLEAN
    /\ \/ returned = Unfinished
       \/ returned \in [kind : {"done"}, value : Nat \cup {None}, calls : Nat,
                        diagnostic : Nat \cup {None}]
    /\ result \in {Pending, Failed} \cup Output

\* A beginning of a text, and at most n line breaks behind it.
Follows(shown, whole, n) ==
    \E beginning \in Texts, k \in Nat :
        k <= n /\ IsPrefix(beginning, whole) /\ shown = beginning \o Blanks(k)

\* How many calls that waited for their formatting have ended since.
Left == nested - Len(formatting)

Kept(s) == Bytes(JoinLines(captured[s]))
Total   == Kept("stdout") + Kept("stderr")

\* What is captured is within what is counted.  Once the budget is spent no
\* call enters format(), and the calls that are in it add a line break each.
CountersOK ==
    /\ Len(formatting) <= nested + 1
    /\ captureTruncated => retained >= MaxConsole
    /\ retained < MaxConsole => Total <= retained
    /\ retained >= MaxConsole => /\ Left >= 0
                                 /\ retained <= MaxConsole + Left
                                 /\ Total <= MaxConsole + Left

\* A stream has all that was written to it until something is cut, when the
\* budget is spent.
StreamOK(s) ==
    /\ retained >= MaxConsole => Follows(JoinLines(captured[s]), Text(s), Left)
    /\ ~captureTruncated => /\ JoinLines(captured[s]) = Text(s)
                            /\ captured[s] = <<>> <=> written[s] = <<>>

CaptureOK == CountersOK /\ \A s \in Streams : StreamOK(s)

OutputInv ==
    /\ OutputTypeOK
    /\ CaptureOK
    /\ returned = Unfinished => result = Pending
    /\ returned # Unfinished => formatting = <<>>
    /\ ResultFits
    /\ NothingLostSilently
    /\ StreamsArePrefixes

LEMMA LinesAreTexts == Lines \subseteq Texts
<1>1. {"plain", "quote", "wide"} \subseteq Char
  BY DEF Char
<1>2. ASSUME NEW line \in Seq({"plain", "quote", "wide"})
      PROVE  line \in Texts
  BY <1>1 DEF Texts
<1> QED BY <1>2, OutputAssumption

\* A part behind the others.
LEMMA JoinGrows ==
  ASSUME NEW parts \in Seq(Texts), NEW p \in Texts, NEW q \in Texts
  PROVE  /\ IsPrefix(JoinLines(parts), JoinLines(Append(parts, p)))
         /\ IsPrefix(p, q) =>
                IsPrefix(JoinLines(Append(parts, p)), JoinLines(Append(parts, q)))
         /\ Bytes(JoinLines(Append(parts, p))) =
                Bytes(JoinLines(parts)) + (IF parts = <<>> THEN 0 ELSE 1) + Bytes(p)
<1>1. PICK j : j = JoinLines(parts)
  OBVIOUS
<1>2. j \in Texts
  BY <1>1, JoinType
<1>3. PICK x : x = j \o <<Newline>>
  OBVIOUS
<1>4. x \in Texts /\ IsPrefix(j, x)
  BY <1>2, <1>3, SmallTexts, TextConcat, PrefixOfConcat
<1>5. Bytes(x) = Bytes(j) + 1
  <2>1. Width(<<Newline>>, Utf8) = 1
    <3>1. PICK e : e = Utf8
      OBVIOUS
    <3>2. e \in Encodings /\ e[Newline] = 1
      BY <3>1, EncodingsType DEF Utf8, Char, Newline
    <3>3. PICK t : t = <<Newline>>
      OBVIOUS
    <3>4. t \in Texts /\ Len(t) = 1 /\ t[1] = Newline
      BY <3>3, SmallTexts
    <3>5. PICK w : w = Widths(t, e)
      OBVIOUS
    <3>6. w[0] = 0 /\ \A n \in 1..1 : w[n] = w[n - 1] + e[t[n]]
      BY <3>2, <3>4, <3>5, WidthsType
    <3>7. w[1] = 1
      BY <3>2, <3>4, <3>6
    <3> QED BY <3>1, <3>3, <3>4, <3>5, <3>7 DEF Width
  <2>2. Width(x, Utf8) = Width(j, Utf8) + Width(<<Newline>>, Utf8)
    BY <1>2, <1>3, SmallTexts, WidthOfConcat, EncodingsType
  <2> QED BY <2>1, <2>2 DEF Bytes
<1>6. CASE parts = <<>>
  <2>1. j = <<>> /\ JoinLines(Append(parts, p)) = p /\ JoinLines(Append(parts, q)) = q
    BY <1>1, <1>6, JoinSmall, JoinAppend
  <2>2. IsPrefix(j, p)
    <3>1. Len(j) = 0 /\ Len(p) \in Nat
      BY <2>1, LenProperties DEF Texts
    <3>2. Len(j) <= Len(p) /\ \A i \in 1..Len(j) : j[i] = p[i]
      BY <3>1
    <3> QED BY <1>2, <3>2, PrefixMeans
  <2>3. Bytes(j) = 0 /\ Bytes(p) \in Nat
    BY <2>1, WidthType, EncodingsType DEF Bytes
  <2> QED BY <1>1, <1>6, <2>1, <2>2, <2>3
<1>7. CASE parts # <<>>
  <2>1. JoinLines(Append(parts, p)) = x \o p /\ JoinLines(Append(parts, q)) = x \o q
    BY <1>1, <1>3, <1>7, JoinAppend
  <2>2. IsPrefix(x, x \o p) /\ x \o p \in Texts
    BY <1>4, PrefixOfConcat, TextConcat
  <2>3. IsPrefix(j, x \o p)
    BY <1>2, <1>4, <2>2, PrefixTransitive
  <2>4. IsPrefix(p, q) => IsPrefix(x \o p, x \o q)
    BY <1>4, PrefixBehind
  <2>5. Bytes(x \o p) = Bytes(x) + Bytes(p)
    BY <1>4, WidthOfConcat, EncodingsType DEF Bytes
  <2>6. Bytes(j) \in Nat /\ Bytes(p) \in Nat
    BY <1>2, WidthType, EncodingsType DEF Bytes
  <2> QED BY <1>1, <1>5, <1>7, <2>1, <2>3, <2>4, <2>5, <2>6
<1> QED BY <1>6, <1>7

\* Compacting the parts changes nothing of their text.
LEMMA CompactedJoins ==
  ASSUME NEW parts \in Seq(Texts), parts # <<>>
  PROVE  /\ Compacted(parts) \in Seq(Texts) /\ Compacted(parts) # <<>>
         /\ JoinLines(Compacted(parts)) = JoinLines(parts)
<1>1. PICK j \in Texts : j = JoinLines(parts)
  BY JoinType
<1>2. CASE Compacted(parts) = <<j>>
  <2>1. <<j>> \in Seq(Texts) /\ <<j>> # <<>>
    OBVIOUS
  <2> QED BY <1>1, <1>2, <2>1, JoinSmall
<1>3. CASE Compacted(parts) = parts
  BY <1>3
<1> QED BY <1>1, <1>2, <1>3 DEF Compacted

LEMMA SeqAssociative ==
  ASSUME NEW S, NEW a \in Seq(S), NEW b \in Seq(S), NEW c \in Seq(S)
  PROVE  (a \o b) \o c = a \o (b \o c)
  BY ConcatAssociative

LEMMA TextAssociative ==
  ASSUME NEW a \in Texts, NEW b \in Texts, NEW c \in Texts
  PROVE  (a \o b) \o c = a \o (b \o c)
<1>1. PICK S : Texts = Seq(S)
  BY DEF Texts
<1>2. a \in Seq(S) /\ b \in Seq(S) /\ c \in Seq(S)
  BY <1>1
<1> QED BY <1>2, SeqAssociative

LEMMA Regrouped ==
  ASSUME NEW a \in Texts, NEW b \in Texts, NEW c \in Texts,
         NEW bc, bc = b \o c, NEW ab, ab = a \o b
  PROVE  a \o bc = ab \o c
<1>1. (a \o b) \o c = a \o (b \o c)
  BY TextAssociative
<1> QED BY <1>1

LEMMA AppendedNotEmpty ==
  ASSUME NEW lines \in Seq(Texts), NEW line \in Texts
  PROVE  Append(lines, line) # <<>>
  BY AppendProperties

\* Line breaks behind a beginning.
LEMMA BlanksType ==
  ASSUME NEW n \in Nat
  PROVE  /\ Blanks(n) \in Texts /\ Len(Blanks(n)) = n
         /\ \A i \in 1..n : Blanks(n)[i] = Newline
         /\ Blanks(0) = <<>>
         /\ Blanks(n) \o <<Newline>> = Blanks(n + 1)
<1>1. ASSUME NEW m \in Nat
      PROVE  /\ Blanks(m) \in Texts /\ Len(Blanks(m)) = m
             /\ \A i \in 1..m : Blanks(m)[i] = Newline
  <2>1. Newline \in Char
    BY DEF Char
  <2>2. [i \in 1..m |-> Newline] \in Seq(Char)
    BY <2>1, IsASeq
  <2>3. DOMAIN Blanks(m) = 1..m
    BY DEF Blanks
  <2>4. Len(Blanks(m)) = m
    BY <2>2, <2>3, LenProperties DEF Blanks
  <2> QED BY <2>2, <2>4 DEF Blanks, Texts
<1>2. Blanks(0) = <<>>
  <2>1. Blanks(0) \in Texts /\ Len(Blanks(0)) = 0
    BY <1>1
  <2> QED BY <2>1 DEF Texts
<1>3. PICK a, b : a = Blanks(n) \o <<Newline>> /\ b = Blanks(n + 1)
  OBVIOUS
<1>4. /\ b \in Texts /\ Len(b) = n + 1 /\ \A i \in 1..(n + 1) : b[i] = Newline
  <2>1. n + 1 \in Nat
    OBVIOUS
  <2> QED BY <1>1, <1>3, <2>1
<1>5. IsConcat(a, Blanks(n), <<Newline>>)
  BY <1>1, <1>3, SmallTexts, TextConcat
<1>6. a \in Texts /\ Len(a) = n + 1
  BY <1>1, <1>5, SmallTexts DEF IsConcat
<1>7. ASSUME NEW i \in 1..(n + 1)
      PROVE  a[i] = Newline
  <2>1. CASE i <= n
    <3>1. i \in 1..Len(Blanks(n))
      BY <1>1, <2>1
    <3>2. a[i] = Blanks(n)[i]
      BY <1>5, <3>1 DEF IsConcat
    <3> QED BY <1>1, <3>1, <3>2
  <2>2. CASE i = n + 1
    <3>1. PICK one : one = <<Newline>>
      OBVIOUS
    <3>2. 1 \in 1..Len(one) /\ one[1] = Newline /\ i = Len(Blanks(n)) + 1
      BY <1>1, <2>2, <3>1
    <3>3. a[i] = one[1]
      BY <1>5, <3>1, <3>2 DEF IsConcat
    <3> QED BY <3>2, <3>3
  <2> QED BY <2>1, <2>2
<1>8. a = b
  BY <1>4, <1>6, <1>7 DEF Texts
<1> QED BY <1>1, <1>2, <1>3, <1>8

LEMMA FollowsWhole ==
  ASSUME NEW shown \in Texts, NEW whole \in Texts, IsPrefix(shown, whole),
         NEW n \in Int, n >= 0
  PROVE  Follows(shown, whole, n)
<1>1. shown = shown \o Blanks(0)
  <2>1. Blanks(0) = <<>>
    BY BlanksType
  <2> QED BY <2>1, ConcatEmptySeq DEF Texts
<1>2. PICK k \in Nat : k = 0
  OBVIOUS
<1>3. shown = shown \o Blanks(k) /\ k <= n
  BY <1>1, <1>2
<1> QED BY <1>3 DEF Follows

LEMMA FollowsFurther ==
  ASSUME NEW shown, NEW whole \in Texts, NEW more \in Texts, IsPrefix(whole, more),
         NEW n \in Int, NEW m \in Int, n <= m, Follows(shown, whole, n)
  PROVE  Follows(shown, more, m)
<1>1. PICK beginning \in Texts, k \in Nat :
         k <= n /\ IsPrefix(beginning, whole) /\ shown = beginning \o Blanks(k)
  BY DEF Follows
<1>2. IsPrefix(beginning, more)
  BY <1>1, PrefixTransitive
<1>3. k <= m
  BY <1>1
<1> QED BY <1>1, <1>2, <1>3 DEF Follows

LEMMA FollowsBreak ==
  ASSUME NEW shown, NEW whole \in Texts, NEW n \in Int, Follows(shown, whole, n)
  PROVE  Follows(shown \o <<Newline>>, whole, n + 1)
<1>1. PICK beginning \in Texts, k \in Nat :
         k <= n /\ IsPrefix(beginning, whole) /\ shown = beginning \o Blanks(k)
  BY DEF Follows
<1>2. PICK break : break = <<Newline>>
  OBVIOUS
<1>3. break \in Texts
  BY <1>2, SmallTexts
<1>4. Blanks(k) \in Texts /\ Blanks(k) \o break = Blanks(k + 1)
  BY <1>2, BlanksType
<1>5. shown \o break = beginning \o (Blanks(k) \o break)
  <2>1. (beginning \o Blanks(k)) \o break = beginning \o (Blanks(k) \o break)
    BY <1>3, <1>4, TextAssociative
  <2> QED BY <1>1, <2>1, Zenon
<1>6. PICK m \in Nat : m = k + 1
  OBVIOUS
<1>7. shown \o break = beginning \o Blanks(m)
  BY <1>4, <1>5, <1>6, Zenon
<1>8. m <= n + 1
  BY <1>1, <1>6
<1> QED BY <1>1, <1>2, <1>7, <1>8 DEF Follows

\* What is shown of such a text, alone or behind the limit's message.
LEMMA FollowsShows ==
  ASSUME nested \in Nat, NEW head \in Texts, NEW kept \in Texts, NEW whole \in Texts,
         Follows(kept, whole, nested), NEW shown \in Texts, IsPrefix(shown, head \o kept)
  PROVE  Shows(shown, head \o whole)
<1>1. PICK beginning \in Texts, k \in Nat :
         k <= nested /\ IsPrefix(beginning, whole) /\ kept = beginning \o Blanks(k)
  BY DEF Follows
<1>2. PICK first, all : first = head \o beginning /\ all = head \o whole
  OBVIOUS
<1>3. first \in Texts /\ all \in Texts /\ IsPrefix(first, all)
  BY <1>1, <1>2, TextConcat, PrefixBehind
<1>4. first \in Prefixes(all)
  <2>1. PICK l : l = Len(first)
    OBVIOUS
  <2>2. l \in Nat /\ Len(all) \in Nat /\ l <= Len(all) /\ first = SubSeq(first, 1, l)
    BY <1>3, <2>1, LenProperties, SubSeqFull, PrefixMeans DEF Texts
  <2>3. SubSeq(first, 1, l) = SubSeq(all, 1, l)
    BY <1>3, <2>1 DEF IsPrefix
  <2>4. l \in 0..Len(all)
    BY <2>2
  <2> QED BY <2>2, <2>3, <2>4 DEF Prefixes
<1>5. PICK few, many : few = Blanks(k) /\ many = Blanks(nested)
  OBVIOUS
<1>6. few \in Texts /\ many \in Texts /\ IsPrefix(few, many)
  <2>1. /\ few \in Texts /\ Len(few) = k /\ \A i \in 1..k : few[i] = Newline
        /\ many \in Texts /\ Len(many) = nested /\ \A i \in 1..nested : many[i] = Newline
    BY <1>5, BlanksType
  <2>2. Len(few) <= Len(many) /\ \A i \in 1..Len(few) : few[i] = many[i]
    BY <1>1, <2>1
  <2> QED BY <2>1, <2>2, PrefixMeans
<1>7. /\ first \o few \in Texts /\ first \o many \in Texts
      /\ IsPrefix(first \o few, first \o many)
  BY <1>3, <1>6, TextConcat, PrefixBehind
<1>8. head \o kept = first \o few
  <2>1. head \in Texts /\ beginning \in Texts /\ few \in Texts
    BY <1>1, <1>6
  <2>2. kept = beginning \o few /\ first = head \o beginning
    BY <1>1, <1>2, <1>5, Zenon
  <2> QED BY <2>1, <2>2, Regrouped
<1>9. IsPrefix(shown, first \o many)
  BY <1>7, <1>8, PrefixTransitive
<1> QED BY <1>2, <1>4, <1>5, <1>9 DEF Shows

\* Only the empty text has no width.
LEMMA NoWidth ==
  ASSUME NEW text \in Texts, NEW encoding \in Encodings, Width(text, encoding) <= 0
  PROVE  text = <<>>
<1>1. PICK N \in Nat : N = Len(text)
  BY WidthsType
<1>2. PICK f : f = Widths(text, encoding)
  OBVIOUS
<1>3. SUFFICES ASSUME N > 0 PROVE FALSE
  BY <1>1 DEF Texts
<1>4. PICK one \in Nat : one = 1
  OBVIOUS
<1>5. one \in 1..N /\ one \in 0..N /\ N \in 0..N
  BY <1>3, <1>4
<1>6. f[one] = f[one - 1] + encoding[text[one]] /\ f[0] = 0 /\ text[one] \in Char
      /\ f \in [0..N -> Nat]
  BY <1>1, <1>2, <1>5, WidthsType
<1>7. encoding[text[one]] \in Nat \ {0}
  BY <1>6 DEF Encodings
<1>8. f[one] > 0
  BY <1>4, <1>6, <1>7
<1>9. f[one] <= f[N]
  BY <1>1, <1>2, <1>5, WidthsGrow
<1>10. f[N] <= 0 /\ f[N] \in Nat /\ f[one] \in Nat
  BY <1>1, <1>2, <1>5, <1>6 DEF Width
<1> QED BY <1>8, <1>9, <1>10

LEMMA OutputInitHolds == OutputInit => OutputInv
<1> SUFFICES ASSUME OutputInit PROVE OutputInv
  OBVIOUS
<1>1. /\ \A s \in Streams : captured[s] = <<>> /\ written[s] = <<>>
      /\ formatting = <<>> /\ nested = 0
      /\ retained = 0 /\ ~captureTruncated /\ returned = Unfinished /\ result = Pending
  BY DEF OutputInit
<1>2. OutputTypeOK
  <2>1. maximum \in Nat
    BY OutputAssumption DEF OutputInit
  <2>2. <<>> \in Seq(Texts) /\ <<>> \in Seq(Streams)
    OBVIOUS
  <2> QED BY <2>1, <2>2 DEF OutputInit, OutputTypeOK
<1>3. /\ JoinLines(<<>>) = <<>> /\ IsPrefix(<<>>, <<>>) /\ Bytes(<<>>) = 0
  BY SmallTexts, JoinSmall, PrefixOfConcat, WidthType, EncodingsType DEF Bytes
<1>4. Left = 0
  <2>1. PICK waiting : waiting = Len(formatting)
    OBVIOUS
  <2>2. waiting = 0
    BY <1>1, <2>1
  <2>3. Left = nested - waiting
    BY <2>1, Zenon DEF Left
  <2> QED BY <1>1, <2>2, <2>3
<1>5. CountersOK
  <2>1. Total = 0
    BY <1>1, <1>3 DEF Total, Kept, Streams
  <2>2. MaxConsole \in Nat /\ Len(formatting) = 0
    BY <1>1, OutputAssumption
  <2> QED BY <1>1, <1>4, <2>1, <2>2 DEF CountersOK
<1>6. ASSUME NEW s \in Streams
      PROVE  StreamOK(s)
  <2>1. JoinLines(captured[s]) = <<>> /\ Text(s) = <<>>
    BY <1>1, <1>3 DEF Text
  <2>2. Follows(<<>>, <<>>, 0)
    BY <1>3, SmallTexts, FollowsWhole
  <2> QED BY <1>1, <1>4, <2>1, <2>2 DEF StreamOK
<1>7. ~HasOutput /\ result.kind # "error"
  BY <1>1 DEF HasOutput, Pending
<1> QED BY <1>1, <1>2, <1>5, <1>6, <1>7
        DEF OutputInv, CaptureOK, ResultFits, NothingLostSilently, StreamsArePrefixes

\* What the invariant says of one stream.
LEMMA CaptureOf ==
  ASSUME OutputInv, NEW q \in Streams
  PROVE  /\ written[q] \in Seq(Texts) /\ captured[q] \in Seq(Texts)
         /\ JoinLines(captured[q]) \in Texts /\ Text(q) \in Texts
         /\ Kept(q) \in Nat
         /\ retained >= MaxConsole => Follows(JoinLines(captured[q]), Text(q), Left)
         /\ ~captureTruncated => JoinLines(captured[q]) = Text(q)
         /\ ~captureTruncated => (captured[q] = <<>> <=> written[q] = <<>>)
<1>1. OutputTypeOK /\ StreamOK(q)
  BY DEF OutputInv, CaptureOK
<1>2. written[q] \in Seq(Texts) /\ captured[q] \in Seq(Texts)
  BY <1>1 DEF OutputTypeOK
<1>3. JoinLines(captured[q]) \in Texts /\ Text(q) \in Texts
  BY <1>2, JoinType DEF Text
<1>4. Kept(q) \in Nat
  BY <1>3, WidthType, EncodingsType DEF Kept, Bytes
<1> QED BY <1>1, <1>2, <1>3, <1>4, Zenon DEF StreamOK

LEMMA CountersType ==
  ASSUME OutputInv
  PROVE  /\ maximum \in Nat /\ formatting \in Seq(Streams) /\ Len(formatting) \in Nat
         /\ nested \in Nat /\ retained \in Nat /\ MaxConsole \in Nat /\ Left \in Int
         /\ written \in [Streams -> Seq(Texts)] /\ captured \in [Streams -> Seq(Texts)]
         /\ captureTruncated \in BOOLEAN /\ CountersOK
         /\ Total \in Nat
<1>1. OutputTypeOK /\ CountersOK
  BY DEF OutputInv, CaptureOK
<1>2. Len(formatting) \in Nat
  BY <1>1, LenProperties DEF OutputTypeOK
<1>3. Kept("stdout") \in Nat /\ Kept("stderr") \in Nat
  BY CaptureOf DEF Streams
<1>4. MaxConsole \in Nat
  BY OutputAssumption
<1> QED BY <1>1, <1>2, <1>3, <1>4 DEF OutputTypeOK, Left, Total

\* While the program runs, the console is all there is to look at.
LEMMA ConsoleStep ==
  ASSUME OutputInv, returned = Unfinished, UNCHANGED <<maximum, returned, result>>,
         formatting' \in Seq(Streams), nested' \in Nat, retained' \in Nat,
         captureTruncated' \in BOOLEAN,
         written' \in [Streams -> Seq(Texts)], captured' \in [Streams -> Seq(Texts)],
         CountersOK', \A q \in Streams : StreamOK(q)'
  PROVE  OutputInv'
<1>1. result = Pending /\ result' = result
  BY DEF OutputInv
<1>2. OutputTypeOK'
  BY DEF OutputInv, OutputTypeOK
<1>3. ~HasOutput' /\ result'.kind # "error"
  BY <1>1 DEF HasOutput, Pending
<1> QED BY <1>1, <1>2, <1>3
        DEF OutputInv, CaptureOK, ResultFits, NothingLostSilently, StreamsArePrefixes

\* Streams that are not touched, when no call begins or the budget is not spent.
LEMMA SameStream ==
  ASSUME OutputInv, NEW q \in Streams,
         written'[q] = written[q], captured'[q] = captured[q],
         ~captureTruncated' => ~captureTruncated,
         Left' \in Int,
         retained >= MaxConsole => Left <= Left',
         retained' >= MaxConsole /\ retained < MaxConsole => Left' >= 0
  PROVE  StreamOK(q)'
<1>1. Text(q)' = Text(q) /\ JoinLines(captured'[q]) = JoinLines(captured[q])
  BY Zenon DEF Text
<1>2. /\ JoinLines(captured[q]) \in Texts /\ Text(q) \in Texts
      /\ retained >= MaxConsole => Follows(JoinLines(captured[q]), Text(q), Left)
      /\ ~captureTruncated => JoinLines(captured[q]) = Text(q)
      /\ ~captureTruncated => (captured[q] = <<>> <=> written[q] = <<>>)
  BY CaptureOf
<1>3. IsPrefix(Text(q), Text(q))
  BY <1>2, PrefixOfConcat
<1>4. ASSUME retained' >= MaxConsole
      PROVE  Follows(JoinLines(captured[q]), Text(q), Left')
  <2>1. Left \in Int /\ retained \in Nat /\ MaxConsole \in Nat
    BY CountersType
  <2>2. CASE retained >= MaxConsole
    BY <1>2, <1>3, <2>1, <2>2, FollowsFurther
  <2>3. CASE retained < MaxConsole
    <3>1. ~captureTruncated
      BY <2>1, <2>3, CountersType DEF CountersOK
    <3>2. IsPrefix(JoinLines(captured[q]), Text(q))
      BY <1>2, <1>3, <3>1
    <3>3. Left' >= 0
      BY <1>4, <2>3
    <3> QED BY <1>2, <3>2, <3>3, FollowsWhole
  <2> QED BY <2>1, <2>2, <2>3
<1> QED BY <1>1, <1>2, <1>4 DEF StreamOK

LEMMA CallStep ==
  ASSUME OutputInv, NEW s \in Streams, CallConsole(s)
  PROVE  OutputInv'
<1>1. /\ returned = Unfinished
      /\ UNCHANGED <<maximum, captured, retained, returned, result>>
  BY DEF CallConsole
<1>2. Total' = Total
  BY <1>1 DEF Total, Kept
<1>3. /\ formatting \in Seq(Streams) /\ Len(formatting) \in Nat
      /\ nested \in Nat /\ retained \in Nat /\ MaxConsole \in Nat /\ Left \in Int
      /\ written \in [Streams -> Seq(Texts)] /\ captured \in [Streams -> Seq(Texts)]
      /\ captureTruncated \in BOOLEAN /\ CountersOK
  BY CountersType
<1>4. CASE retained >= MaxConsole
  <2>1. PICK line \in Lines : /\ captureTruncated' = TRUE
                              /\ written' = [written EXCEPT ![s] = Append(@, line)]
                              /\ UNCHANGED <<formatting, nested>>
    BY <1>4 DEF CallConsole
  <2>2. PICK w, more : w = written[s] /\ more = Append(w, line)
    OBVIOUS
  <2>3. line \in Texts /\ w \in Seq(Texts) /\ more \in Seq(Texts)
    BY <1>3, <2>2, LinesAreTexts, AppendProperties
  <2>4. written' = [written EXCEPT ![s] = more]
    BY <2>1, <2>2
  <2>5. written'[s] = more /\ written' \in [Streams -> Seq(Texts)]
        /\ \A q \in Streams : q # s => written'[q] = written[q]
    BY <1>3, <2>3, <2>4
  <2>6. Left' = Left
    BY <2>1 DEF Left
  <2>7. CountersOK'
    BY <1>1, <1>2, <1>3, <1>4, <2>1, <2>6 DEF CountersOK
  <2>8. StreamOK(s)'
    <3>1. Text(s) = JoinLines(w) /\ Text(s)' = JoinLines(more)
      BY <2>2, <2>5, Zenon DEF Text
    <3>2. IsPrefix(JoinLines(w), JoinLines(more))
      BY <2>2, <2>3, JoinGrows
    <3>3. JoinLines(w) \in Texts /\ JoinLines(more) \in Texts
      BY <2>3, JoinType
    <3>4. Follows(JoinLines(captured[s]), JoinLines(w), Left)
      BY <1>4, <3>1, CaptureOf
    <3>5. Follows(JoinLines(captured[s]), JoinLines(more), Left)
      BY <1>3, <3>2, <3>3, <3>4, FollowsFurther
    <3> QED BY <1>1, <2>1, <2>6, <3>1, <3>5 DEF StreamOK
  <2>9. ASSUME NEW q \in Streams
        PROVE  StreamOK(q)'
    <3>1. CASE q # s
      BY <1>1, <1>3, <1>4, <2>1, <2>5, <2>6, <3>1, SameStream
    <3> QED BY <2>8, <3>1
  <2> QED BY <1>1, <1>3, <2>1, <2>5, <2>7, <2>9, ConsoleStep
<1>5. CASE ~(retained >= MaxConsole)
  <2>1. /\ formatting' = Append(formatting, s)
        /\ nested' = Greatest(nested, Len(formatting))
        /\ UNCHANGED <<written, captureTruncated>>
    BY <1>5 DEF CallConsole
  <2>2. formatting' \in Seq(Streams) /\ Len(formatting') = Len(formatting) + 1
    BY <1>3, <2>1, AppendProperties
  <2>3. nested' \in Nat /\ Len(formatting) <= nested'
    BY <1>3, <2>1 DEF Greatest
  <2>4. Left' \in Int
    BY <1>3, <2>2, <2>3 DEF Left
  <2>5. CountersOK'
    BY <1>1, <1>2, <1>3, <1>5, <2>1, <2>2, <2>3 DEF CountersOK
  <2>6. ASSUME NEW q \in Streams
        PROVE  StreamOK(q)'
    BY <1>1, <1>3, <1>5, <2>1, <2>4, SameStream
  <2> QED BY <1>1, <1>3, <2>1, <2>2, <2>3, <2>5, <2>6, ConsoleStep
<1> QED BY <1>4, <1>5

\* A call leaves format().
LEMMA FormattingEnds ==
  ASSUME OutputInv, formatting # <<>>, formatting' = Front(formatting),
         nested' = nested
  PROVE  /\ returned = Unfinished
         /\ Last(formatting) \in Streams
         /\ formatting' \in Seq(Streams) /\ nested' \in Nat
         /\ Len(formatting') = Len(formatting) - 1
         /\ Left' = Left + 1 /\ Left' \in Int /\ Left' >= 0
<1>1. PICK stack \in Seq(Streams), n \in Nat : stack = formatting /\ n = Len(stack)
  BY CountersType
<1>2. n # 0
  BY <1>1
<1>3. Last(formatting) \in Streams
  <2>1. n \in 1..Len(stack)
    BY <1>1, <1>2
  <2>2. stack[n] \in Streams
    BY <2>1, ElementOfSeq
  <2> QED BY <1>1, <2>2 DEF Last
<1>4. formatting' \in Seq(Streams) /\ Len(formatting') = n - 1
  <2>1. \A i \in 1..(n - 1) : stack[i] \in Streams
    <3>1. \A i \in 1..(n - 1) : i \in 1..Len(stack)
      BY <1>1
    <3> QED BY <3>1, ElementOfSeq
  <2>2. PICK m \in Int : m = n - 1
    OBVIOUS
  <2>3. SubSeq(stack, 1, m) \in Seq(Streams)
        /\ Len(SubSeq(stack, 1, m)) = IF 1 <= m THEN m - 1 + 1 ELSE 0
    BY <2>1, <2>2, SubSeqProperties
  <2> QED BY <1>1, <1>2, <2>2, <2>3 DEF Front
<1>5. nested \in Nat /\ Len(formatting) <= nested + 1
  BY CountersType DEF CountersOK
<1>6. returned = Unfinished
  BY DEF OutputInv
<1> QED BY <1>1, <1>3, <1>4, <1>5, <1>6 DEF Left

LEMMA ThrowStep ==
  ASSUME OutputInv, FormatThrows
  PROVE  OutputInv'
<1>1. /\ formatting # <<>> /\ formatting' = Front(formatting)
      /\ UNCHANGED <<maximum, written, captured, retained, captureTruncated,
                     returned, result, nested>>
  BY DEF FormatThrows
<1>2. /\ returned = Unfinished
      /\ formatting' \in Seq(Streams) /\ nested' \in Nat
      /\ Len(formatting') = Len(formatting) - 1
      /\ Left' = Left + 1 /\ Left' \in Int /\ Left' >= 0
  BY <1>1, FormattingEnds
<1>3. /\ Len(formatting) \in Nat /\ nested \in Nat /\ retained \in Nat
      /\ MaxConsole \in Nat /\ Left \in Int
      /\ written \in [Streams -> Seq(Texts)] /\ captured \in [Streams -> Seq(Texts)]
      /\ captureTruncated \in BOOLEAN /\ CountersOK
      /\ Total \in Nat
  BY CountersType
<1>4. Total' = Total
  BY <1>1 DEF Total, Kept
<1>5. CountersOK'
  BY <1>1, <1>2, <1>3, <1>4 DEF CountersOK
<1>6. ASSUME NEW q \in Streams
      PROVE  StreamOK(q)'
  <2>1. Left <= Left'
    BY <1>2, <1>3
  <2> QED BY <1>1, <1>2, <2>1, SameStream
<1> QED BY <1>1, <1>2, <1>3, <1>5, <1>6, ConsoleStep

LEMMA CaptureStep ==
  ASSUME OutputInv, NEW line \in Lines, CaptureLine(line)
  PROVE  OutputInv'
<1>1. PICK s : s = Last(formatting)
  OBVIOUS
<1>2. /\ formatting # <<>> /\ formatting' = Front(formatting)
      /\ UNCHANGED <<maximum, returned, result, nested>>
      /\ written' = [written EXCEPT ![s] = Append(@, line)]
  BY <1>1 DEF CaptureLine
<1>3. /\ returned = Unfinished /\ s \in Streams
      /\ formatting' \in Seq(Streams) /\ nested' \in Nat
      /\ Len(formatting') = Len(formatting) - 1
      /\ Left' = Left + 1 /\ Left' \in Int /\ Left' >= 0
  BY <1>1, <1>2, FormattingEnds
<1>4. /\ Len(formatting) \in Nat /\ nested \in Nat /\ retained \in Nat
      /\ MaxConsole \in Nat /\ Left \in Int
      /\ written \in [Streams -> Seq(Texts)] /\ captured \in [Streams -> Seq(Texts)]
      /\ captureTruncated \in BOOLEAN /\ CountersOK
      /\ line \in Texts
  BY CountersType, LinesAreTexts
<1>5. PICK o \in Streams : o # s /\ Streams = {s, o}
  BY <1>3 DEF Streams
<1>6. PICK w, c : w = written[s] /\ c = captured[s]
  OBVIOUS
<1>7. PICK more : more = Append(w, line)
  OBVIOUS
<1>8. /\ w \in Seq(Texts) /\ c \in Seq(Texts) /\ more \in Seq(Texts)
      /\ Text(s) = JoinLines(w)
      /\ ~captureTruncated => JoinLines(c) = JoinLines(w) /\ (c = <<>> <=> w = <<>>)
      /\ retained >= MaxConsole => Follows(JoinLines(c), JoinLines(w), Left)
  <2>1. Text(s) = JoinLines(w)
    BY <1>6, Zenon DEF Text
  <2>2. w \in Seq(Texts) /\ c \in Seq(Texts)
    BY <1>3, <1>4, <1>6
  <2>3. more \in Seq(Texts)
    BY <1>4, <1>7, <2>2, AppendProperties
  <2> QED BY <1>3, <1>6, <2>1, <2>2, <2>3, CaptureOf, Zenon
<1>9. /\ written' \in [Streams -> Seq(Texts)]
      /\ written'[s] = more /\ written'[o] = written[o] /\ more # <<>>
  <2>1. written' = [written EXCEPT ![s] = more]
    BY <1>2, <1>6, <1>7
  <2>2. more # <<>>
    <3>1. Append(w, line) # <<>>
      BY <1>4, <1>8, AppendedNotEmpty
    <3> QED BY <1>7, <3>1, Zenon
  <2> QED BY <1>3, <1>4, <1>5, <1>8, <2>1, <2>2
<1>10. /\ IsPrefix(JoinLines(w), JoinLines(more))
       /\ JoinLines(w) \in Texts /\ JoinLines(more) \in Texts /\ JoinLines(c) \in Texts
  BY <1>4, <1>7, <1>8, JoinGrows, JoinType
<1>11. PICK mine \in Nat, other \in Nat :
          mine = Bytes(JoinLines(c)) /\ other = Kept(o) /\ Total = mine + other
  <2>1. Kept(s) \in Nat /\ Kept(o) \in Nat /\ Kept(s) = Bytes(JoinLines(c))
    BY <1>3, <1>6, CaptureOf DEF Kept
  <2>2. \/ s = "stdout" /\ o = "stderr"
        \/ s = "stderr" /\ o = "stdout"
    BY <1>3, <1>5 DEF Streams
  <2> QED BY <2>1, <2>2 DEF Total
\* What is kept of the line.
<1>12. PICK sep \in Nat : sep = Separator(s) /\ sep = (IF c = <<>> THEN 0 ELSE 1)
  BY <1>6 DEF Separator
<1>13. PICK budget \in Nat : /\ budget = Minus(MaxConsole, retained + sep)
                             /\ retained >= MaxConsole => budget = 0
                             /\ retained < MaxConsole => budget = MaxConsole - (retained + sep)
  <2>1. CASE MaxConsole < retained + sep
    <3>1. Minus(MaxConsole, retained + sep) = 0
      BY <2>1 DEF Minus
    <3>2. ~(retained < MaxConsole)
      BY <1>4, <1>12, <2>1
    <3> QED BY <3>1, <3>2
  <2>2. CASE ~(MaxConsole < retained + sep)
    <3>1. Minus(MaxConsole, retained + sep) = MaxConsole - (retained + sep)
      BY <2>2 DEF Minus
    <3>2. MaxConsole - (retained + sep) \in Nat
      BY <1>4, <2>2
    <3>3. retained >= MaxConsole => MaxConsole - (retained + sep) = 0
      BY <1>4, <2>2
    <3> QED BY <3>1, <3>2, <3>3
  <2> QED BY <2>1, <2>2
<1>14. PICK kept : kept = Prefix(line, Utf8, budget)
  OBVIOUS
<1>15. PICK bytes \in Nat : /\ kept \in Texts /\ IsPrefix(kept, line)
                            /\ bytes = Bytes(kept) /\ bytes <= budget
  BY <1>4, <1>14, PrefixFits, EncodingsType DEF Bytes
<1>16. PICK parts, now : parts = Append(c, kept) /\ now = Compacted(parts)
  OBVIOUS
<1>17. captured' = [captured EXCEPT ![s] = now]
  BY <1>1, <1>6, <1>12, <1>13, <1>14, <1>16 DEF CaptureLine
<1>18. /\ retained' = IF kept # line THEN MaxConsole ELSE retained + (sep + bytes)
       /\ captureTruncated' = (captureTruncated \/ kept # line)
  BY <1>1, <1>12, <1>13, <1>14, <1>15 DEF CaptureLine, Spend
<1>19. /\ now \in Seq(Texts) /\ now # <<>>
       /\ JoinLines(now) = JoinLines(parts)
       /\ Bytes(JoinLines(now)) = mine + sep + bytes
  <2>1. parts \in Seq(Texts) /\ parts # <<>>
    BY <1>8, <1>15, <1>16, AppendProperties
  <2>2. now \in Seq(Texts) /\ now # <<>> /\ JoinLines(now) = JoinLines(parts)
    BY <1>16, <2>1, CompactedJoins
  <2>3. Bytes(JoinLines(parts)) = mine + sep + bytes
    BY <1>8, <1>11, <1>12, <1>15, <1>16, JoinGrows
  <2> QED BY <2>2, <2>3
<1>20. captured'[s] = now /\ captured'[o] = captured[o]
       /\ captured' \in [Streams -> Seq(Texts)]
  BY <1>3, <1>4, <1>5, <1>17, <1>19
<1>21. Total' = mine + sep + bytes + other
  <2>1. Kept(s)' = mine + sep + bytes /\ Kept(o)' = other
    BY <1>11, <1>19, <1>20 DEF Kept
  <2>2. \/ s = "stdout" /\ o = "stderr"
        \/ s = "stderr" /\ o = "stdout"
    BY <1>3, <1>5 DEF Streams
  <2> QED BY <2>1, <2>2 DEF Total
<1>22. retained' \in Nat /\ captureTruncated' \in BOOLEAN
  BY <1>4, <1>18
<1>23. CountersOK'
  <2>1. Len(formatting') <= nested' + 1
    BY <1>2, <1>3, <1>4 DEF CountersOK
  <2>2. CASE retained < MaxConsole
    <3>1. mine + other <= retained /\ ~captureTruncated
      BY <1>4, <1>11, <2>2 DEF CountersOK
    <3>2. retained + (sep + bytes) <= MaxConsole
      BY <1>4, <1>13, <1>15, <2>2
    <3>3. PICK total \in Nat : total = mine + sep + bytes + other
      OBVIOUS
    <3>4. total <= retained + (sep + bytes) /\ total <= MaxConsole
      BY <1>4, <3>1, <3>2, <3>3
    <3>5. retained' <= MaxConsole /\ (captureTruncated' => retained' >= MaxConsole)
      BY <1>4, <1>18, <3>1, <3>2
    <3>6. retained' < MaxConsole => total <= retained'
      BY <1>4, <1>18, <3>4
    <3> QED BY <1>3, <1>4, <1>21, <1>22, <2>1, <3>3, <3>4, <3>5, <3>6 DEF CountersOK
  <2>3. CASE retained >= MaxConsole
    <3>1. /\ Left >= 0 /\ retained <= MaxConsole + Left /\ mine + other <= MaxConsole + Left
      BY <1>4, <1>11, <2>3 DEF CountersOK
    <3>2. bytes = 0 /\ sep <= 1
      BY <1>12, <1>13, <1>15, <2>3
    <3>3. PICK total \in Nat : total = mine + sep + bytes + other
      OBVIOUS
    <3>4. total <= MaxConsole + Left'
      BY <1>3, <1>4, <3>1, <3>2, <3>3
    <3>5. retained' >= MaxConsole /\ retained' <= MaxConsole + Left'
      BY <1>3, <1>4, <1>18, <2>3, <3>1, <3>2
    <3> QED BY <1>3, <1>4, <1>21, <1>22, <2>1, <3>3, <3>4, <3>5 DEF CountersOK
  <2> QED BY <1>4, <2>2, <2>3
<1>24. StreamOK(s)'
  <2>1. Text(s)' = JoinLines(more) /\ JoinLines(captured'[s]) = JoinLines(parts)
    BY <1>9, <1>19, <1>20, Zenon DEF Text
  <2>2. ~captureTruncated => JoinLines(Append(c, line)) = JoinLines(more)
    <3>1. JoinLines(Append(c, line)) =
              IF c = <<>> THEN line ELSE JoinLines(c) \o <<Newline>> \o line
      BY <1>4, <1>8, JoinAppend, Zenon
    <3>2. JoinLines(more) =
              IF w = <<>> THEN line ELSE JoinLines(w) \o <<Newline>> \o line
      BY <1>4, <1>7, <1>8, JoinAppend, Zenon
    <3> QED BY <1>8, <3>1, <3>2, Zenon
  <2>3. ASSUME ~captureTruncated'
        PROVE  JoinLines(parts) = JoinLines(more)
    BY <1>16, <1>18, <2>2, <2>3
  <2>4. ASSUME retained' >= MaxConsole
        PROVE  Follows(JoinLines(parts), JoinLines(more), Left')
    <3>1. CASE retained < MaxConsole
      <4>1. ~captureTruncated
        BY <1>4, <3>1 DEF CountersOK
      <4>2. IsPrefix(JoinLines(parts), JoinLines(Append(c, line)))
        BY <1>4, <1>8, <1>15, <1>16, JoinGrows
      <4>3. IsPrefix(JoinLines(parts), JoinLines(more))
        BY <2>2, <4>1, <4>2
      <4>4. JoinLines(parts) \in Texts
        BY <1>19, JoinType
      <4> QED BY <1>3, <1>10, <4>3, <4>4, FollowsWhole
    <3>2. CASE retained >= MaxConsole
      <4>1. Follows(JoinLines(c), JoinLines(w), Left)
        BY <1>8, <3>2
      <4>2. kept = <<>>
        <5>1. Width(kept, Utf8) <= 0
          BY <1>13, <1>15, <3>2 DEF Bytes
        <5> QED BY <1>15, <5>1, NoWidth, EncodingsType
      <4>3. CASE c = <<>>
        <5>1. JoinLines(parts) = JoinLines(c)
          <6>1. JoinLines(parts) = kept
            BY <1>8, <1>15, <1>16, <4>3, JoinAppend
          <6>2. JoinLines(c) = <<>>
            BY <1>15, <4>3, JoinSmall
          <6> QED BY <4>2, <6>1, <6>2
        <5>2. Left <= Left'
          BY <1>3, <1>4
        <5>3. Follows(JoinLines(c), JoinLines(more), Left')
          BY <1>3, <1>4, <1>10, <4>1, <5>2, FollowsFurther
        <5> QED BY <5>1, <5>3
      <4>4. CASE c # <<>>
        <5>1. PICK j, x : j = JoinLines(c) /\ x = j \o <<Newline>>
          OBVIOUS
        <5>2. x \in Texts
          BY <1>10, <5>1, SmallTexts, TextConcat
        <5>3. JoinLines(parts) = x \o kept
          BY <1>8, <1>15, <1>16, <4>4, <5>1, JoinAppend
        <5>4. x \o kept = x
          BY <4>2, <5>2, ConcatEmptySeq DEF Texts
        <5>5. Follows(x, JoinLines(w), Left + 1)
          BY <1>4, <1>10, <4>1, <5>1, FollowsBreak
        <5>6. Left + 1 \in Int /\ Left + 1 <= Left'
          BY <1>3, <1>4
        <5>7. Follows(x, JoinLines(more), Left')
          BY <1>3, <1>10, <5>5, <5>6, FollowsFurther
        <5> QED BY <5>3, <5>4, <5>7
      <4> QED BY <4>3, <4>4
    <3> QED BY <1>4, <3>1, <3>2
  <2> QED BY <1>9, <1>19, <1>20, <2>1, <2>3, <2>4 DEF StreamOK
<1>25. StreamOK(o)'
  <2>1. ~captureTruncated' => ~captureTruncated
    BY <1>18
  <2>2. Left <= Left'
    BY <1>3, <1>4
  <2> QED BY <1>3, <1>9, <1>20, <2>1, <2>2, SameStream
<1>26. \A q \in Streams : StreamOK(q)'
  <2>1. \A q \in Streams : q = s \/ q = o
    BY <1>5
  <2> QED BY <1>24, <1>25, <2>1
<1> QED BY <1>2, <1>3, <1>9, <1>20, <1>22, <1>23, <1>26, ConsoleStep

LEMMA FinishStep ==
  ASSUME OutputInv, MapExecution
  PROVE  OutputInv'
<1>1. /\ maximum' = maximum /\ written' = written /\ captured' = captured
      /\ retained' = retained /\ captureTruncated' = captureTruncated
      /\ formatting = <<>> /\ formatting' = formatting /\ nested' = nested
      /\ maximum \in Nat /\ captureTruncated \in BOOLEAN /\ nested \in Nat
  BY DEF MapExecution, OutputInv, OutputTypeOK
<1>2. PICK value \in Values \cup {None}, error \in Diagnostics, calls \in Traces,
           cut \in BOOLEAN :
         /\ returned' = [kind |-> "done", value |-> value, calls |-> calls,
                         diagnostic |-> IF value = None THEN error ELSE None]
         /\ result' = BoundOutput(
                [kind       |-> "output",
                 success    |-> value # None,
                 output     |-> value,
                 diagnostic |-> returned'.diagnostic,
                 stdout     |-> JoinLines(captured["stdout"]),
                 stderr     |-> JoinLines(captured["stderr"]),
                 calls      |-> calls,
                 truncated  |-> captureTruncated \/ cut])
  BY DEF MapExecution
<1>3. PICK out, err : /\ out = JoinLines(captured["stdout"])
                      /\ err = JoinLines(captured["stderr"])
  OBVIOUS
<1>4. /\ out \in Texts /\ Follows(out, Text("stdout"), nested) /\ Text("stdout") \in Texts
      /\ err \in Texts /\ Follows(err, Text("stderr"), nested) /\ Text("stderr") \in Texts
      /\ ~captureTruncated => out = Text("stdout") /\ err = Text("stderr")
  <2>1. "stdout" \in Streams /\ "stderr" \in Streams
    BY DEF Streams
  <2>2. Left = nested
    <3>1. Len(formatting) = 0
      BY <1>1
    <3> QED BY <1>1, <3>1 DEF Left
  <2>3. ASSUME NEW q \in Streams
        PROVE  /\ JoinLines(captured[q]) \in Texts /\ Text(q) \in Texts
               /\ Follows(JoinLines(captured[q]), Text(q), nested)
               /\ ~captureTruncated => JoinLines(captured[q]) = Text(q)
    <3>1. /\ JoinLines(captured[q]) \in Texts /\ Text(q) \in Texts
          /\ ~captureTruncated => JoinLines(captured[q]) = Text(q)
          /\ retained >= MaxConsole => Follows(JoinLines(captured[q]), Text(q), nested)
      BY <2>2, CaptureOf
    <3>2. CASE captureTruncated
      <4>1. retained >= MaxConsole
        BY <3>2, CountersType DEF CountersOK
      <4> QED BY <3>1, <3>2, <4>1
    <3>3. CASE ~captureTruncated
      <4>1. IsPrefix(JoinLines(captured[q]), Text(q)) /\ nested \in Int /\ nested >= 0
        BY <1>1, <3>1, <3>3, PrefixOfConcat
      <4> QED BY <3>1, <4>1, FollowsWhole
    <3> QED BY <3>2, <3>3
  <2> QED BY <1>3, <2>1, <2>3, Zenon
<1>5. PICK diagnostic : diagnostic = IF value = None THEN error ELSE None
  OBVIOUS
<1>6. /\ value \in Nat \cup {None} /\ diagnostic \in Nat \cup {None} /\ calls \in Nat
      /\ returned' = [kind |-> "done", value |-> value, calls |-> calls,
                      diagnostic |-> diagnostic]
  <2>1. Values \subseteq Nat /\ Diagnostics \subseteq Nat /\ Traces \subseteq Nat
    BY OutputAssumption
  <2> QED BY <1>2, <1>5, <2>1
<1>7. PICK o : o = [kind |-> "output", success |-> value # None, output |-> value,
                    diagnostic |-> diagnostic, stdout |-> out, stderr |-> err,
                    calls |-> calls, truncated |-> captureTruncated \/ cut]
  OBVIOUS
<1>8. /\ o \in Output /\ (o.success <=> o.output # None)
      /\ o.output = value /\ o.diagnostic = diagnostic /\ o.calls = calls
      /\ o.stdout = out /\ o.stderr = err
      /\ ~o.truncated => ~captureTruncated
  BY <1>1, <1>4, <1>6, <1>7 DEF Output
<1>9. PICK r : r = result' /\ r = BoundOutput(o)
  BY <1>2, <1>3, <1>6, <1>7
<1>10. \/ r = Failed /\ maximum < Envelope + 2
       \/ Bounded(o, r)
  BY <1>1, <1>8, <1>9, BoundOutputAnswers
<1>11. OutputTypeOK'
  <2>1. r \in {Failed} \cup Output
    BY <1>10 DEF Bounded
  <2> QED BY <1>1, <1>6, <1>9, <2>1 DEF OutputInv, OutputTypeOK
<1>12. CaptureOK'
  BY <1>1 DEF OutputInv, CaptureOK, CountersOK, StreamOK, Total, Kept, Left, Text
<1>13. returned' # Unfinished /\ returned'.value = value
       /\ returned'.diagnostic = diagnostic /\ returned'.calls = calls
  BY <1>6 DEF Unfinished
<1>14. CASE r = Failed /\ maximum < Envelope + 2
  <2>1. result'.kind = "error" /\ ~HasOutput'
    BY <1>9, <1>14 DEF Failed, HasOutput
  <2>2. ResultFits' /\ NothingLostSilently' /\ StreamsArePrefixes'
    BY <1>1, <1>14, <2>1 DEF ResultFits, NothingLostSilently, StreamsArePrefixes
  <2> QED BY <1>1, <1>11, <1>12, <1>13, <2>2 DEF OutputInv
<1>15. CASE Bounded(o, r)
  <2>1. r \in Output /\ r.kind = "output" /\ Fits(r)
    BY <1>15 DEF Bounded, Output
  <2>2. ResultFits'
    BY <1>1, <1>9, <2>1 DEF ResultFits, Fits
  <2>3. Text("stdout")' = Text("stdout") /\ Text("stderr")' = Text("stderr")
    BY <1>1 DEF Text
  <2>4. ValueDropped' <=> value # None /\ r.output = None
    BY <1>9, <1>13, <2>1 DEF ValueDropped, HasOutput
  <2>5. NothingLostSilently'
    <3>1. ASSUME ~r.truncated
          PROVE  /\ \A s \in Streams : r[s] = Text(s)
                 /\ r.output = value /\ r.diagnostic = diagnostic /\ r.calls = calls
      <4>1. r = o
        BY <1>15, <3>1 DEF Bounded
      <4>2. r.stdout = Text("stdout") /\ r.stderr = Text("stderr")
        BY <1>4, <1>8, <3>1, <4>1
      <4> QED BY <1>8, <4>1, <4>2 DEF Streams
    <3>2. r.success => r.output = value /\ r.output # None
      BY <1>8, <1>15 DEF Bounded
    <3>3. value # None /\ r.output = None
            /\ (maximum - Size(Bare(r))) \div 2 >= JsonSize(Message)
          => IsPrefix(Message, r.stderr)
      BY <1>8, <1>15 DEF Bounded
    <3> QED BY <1>1, <1>9, <1>13, <2>3, <2>4, <3>1, <3>2, <3>3
            DEF NothingLostSilently, Bare, Text
  <2>6. StreamsArePrefixes'
    <3>1. r.stdout \in Texts /\ r.stderr \in Texts
      BY <2>1 DEF Output
    <3>2. ASSUME NEW kept \in Texts, NEW whole \in Texts, Follows(kept, whole, nested),
                 NEW shown \in Texts, IsPrefix(shown, kept)
          PROVE  Shows(shown, whole)
      <4>1. <<>> \o kept = kept /\ <<>> \o whole = whole /\ <<>> \in Texts
        BY ConcatEmptySeq, SmallTexts DEF Texts
      <4>2. PICK none \in Texts : none \o kept = kept /\ none \o whole = whole
        BY <4>1
      <4> QED BY <1>1, <3>2, <4>2, FollowsShows
    <3>3. Shows(r.stdout, Text("stdout"))
      BY <1>4, <1>8, <1>15, <3>1, <3>2 DEF Bounded
    <3>4. PICK head : head = Message \o <<Newline>>
      OBVIOUS
    <3>5. head \in Texts
      BY <3>4, MessageType, SmallTexts, TextConcat
    <3>6. IF value # None /\ r.output = None
          THEN Shows(r.stderr, head \o Text("stderr"))
          ELSE Shows(r.stderr, Text("stderr"))
      <4>1. CASE value # None /\ r.output = None
        <5>1. IsPrefix(r.stderr, head \o err)
          BY <1>8, <1>15, <3>4, <4>1 DEF Bounded
        <5> QED BY <1>1, <1>4, <3>1, <3>5, <4>1, <5>1, FollowsShows
      <4>2. CASE ~(value # None /\ r.output = None)
        <5>1. IsPrefix(r.stderr, err)
          BY <1>8, <1>15, <4>2 DEF Bounded
        <5> QED BY <1>4, <3>1, <3>2, <4>2, <5>1
      <4> QED BY <4>1, <4>2
    <3> QED BY <1>1, <1>9, <2>3, <2>4, <3>3, <3>4, <3>6 DEF StreamsArePrefixes, Shows
  <2> QED BY <1>1, <1>11, <1>12, <1>13, <2>2, <2>5, <2>6 DEF OutputInv
<1> QED BY <1>10, <1>14, <1>15

LEMMA OutputNextHolds == OutputInv /\ [OutputNext]_outputVars => OutputInv'
<1> SUFFICES ASSUME OutputInv, [OutputNext]_outputVars PROVE OutputInv'
  OBVIOUS
<1>0. CASE \E s \in Streams : CallConsole(s)
  BY <1>0, CallStep
<1>1. CASE \E line \in Lines : CaptureLine(line)
  BY <1>1, CaptureStep
<1>4. CASE FormatThrows
  BY <1>4, ThrowStep
<1>2. CASE MapExecution
  BY <1>2, FinishStep
<1>3. CASE UNCHANGED outputVars
  <2> USE <1>3 DEF outputVars
  <2>1. OutputTypeOK'
    BY DEF OutputInv, OutputTypeOK
  <2>2. CaptureOK'
    BY DEF OutputInv, CaptureOK, CountersOK, StreamOK, Total, Kept, Left, Text
  <2>3. ResultFits'
    BY DEF OutputInv, ResultFits, HasOutput, Fits
  <2>4. NothingLostSilently'
    BY DEF OutputInv, NothingLostSilently, HasOutput, ValueDropped, Text
  <2>5. StreamsArePrefixes'
    BY DEF OutputInv, StreamsArePrefixes, Shows, HasOutput, ValueDropped, Text
  <2> QED BY <2>1, <2>2, <2>3, <2>4, <2>5 DEF OutputInv
<1> QED BY <1>0, <1>1, <1>2, <1>3, <1>4 DEF OutputNext
-----------------------------------------------------------------------------
(* What the client is told of the output. *)

\* The invariant of the console and the result, in every execution.
THEOREM OutputInvariance == OutputSpec => []OutputInv
<1> QED BY OutputInitHolds, OutputNextHolds, PTL DEF OutputSpec

\* What capture of runtime.js keeps of both streams, with the line breaks
\* between the parts, is within max_console_bytes and a byte for each call that
\* waited in format() while another began, for any lines and any nesting.
THEOREM ConsoleKeepsBudget == OutputSpec => []ConsoleWithinBudget
<1>1. ASSUME OutputInv PROVE ConsoleWithinBudget
  <2>1. /\ Len(formatting) \in Nat /\ nested \in Nat /\ retained \in Nat
        /\ MaxConsole \in Nat /\ Left = nested - Len(formatting)
        /\ CountersOK /\ Total \in Nat
    BY <1>1, CountersType DEF Left
  <2>2. Total <= MaxConsole + nested /\ retained <= MaxConsole + nested
    BY <2>1 DEF CountersOK
  <2> QED BY <2>2 DEF ConsoleWithinBudget, Total, Kept
<1> QED BY <1>1, OutputInvariance, PTL

\* Every variable of the console and the result has its type.
THEOREM OutputTypeCorrect == OutputSpec => []OutputTypeOK
<1>1. OutputInv => OutputTypeOK
  BY DEF OutputInv
<1> QED BY <1>1, OutputInvariance, PTL

\* bound_output answers within max_output_bytes, and fails only when the
\* envelope alone is larger, for any sizes of value, diagnostic and trace.
THEOREM AnswersFit == OutputSpec => []ResultFits
<1>1. OutputInv => ResultFits
  BY DEF OutputInv
<1> QED BY <1>1, OutputInvariance, PTL

\* Whatever capture or bound_output cuts or drops is said, and the message
\* about a dropped value survives the truncation of stderr if half of what is
\* left is enough for it.
THEOREM LossesAreSaid == OutputSpec => []NothingLostSilently
<1>1. OutputInv => NothingLostSilently
  BY DEF OutputInv
<1> QED BY <1>1, OutputInvariance, PTL

\* The client sees of each stream a beginning of what was written to it: two
\* truncations, in bytes of UTF-8 and of JSON, leave no gap, and behind a cut
\* come at most the line breaks of the calls that waited in format().
THEOREM StreamsAreBeginnings == OutputSpec => []StreamsArePrefixes
<1>1. OutputInv => StreamsArePrefixes
  BY DEF OutputInv
<1> QED BY <1>1, OutputInvariance, PTL
=============================================================================
