------------------------ MODULE HTTPTransportProofs ------------------------
(***************************************************************************)
(* Proofs about HTTPTransport, for any number of calls and of retries, any *)
(* way of sharing events between calls and any ids they come with.         *)
(***************************************************************************)
EXTENDS HTTPTransportInv, TLAPS

(* What ensureEventID is for: no id it lets through is one that ingest      *)
(* would replace by one of its own, once per attempt.                       *)
LEMMA EnsureEventIDIdentifies ==
  ASSUME NEW kind \in IdKinds
  PROVE  /\ EnsureEventID(kind) \in {"uuid", "text"}
         /\ EnsureEventID(EnsureEventID(kind)) = EnsureEventID(kind)
BY DEF EnsureEventID

(* No result is both a success and worth another attempt. *)
LEMMA SuccessIsFinal ==
  ASSUME NEW r \in Results, r.duplicate => r.status = 409, IsSuccess(r)
  PROVE  ~ShouldRetry(r)
BY DEF Results, Statuses, Refusals, IsSuccess, ShouldRetry

(* The rule of the README for what is not repeated. *)
LEMMA FinalOrRetried ==
  ASSUME NEW r \in Results, r.status # 0 \/ r.error,
         r.status = 409 => r.duplicate
  PROVE  \/ ShouldRetry(r)
         \/ IsSuccess(r)
         \/ ~r.error /\ r.status \in FinalStatuses
BY DEF Results, Statuses, Refusals, IsSuccess, ShouldRetry, FinalStatuses

-----------------------------------------------------------------------------
LEMMA InitTransportInv == Init => TransportInv
<1> SUFFICES ASSUME Init PROVE TransportInv
  OBVIOUS
<1> USE HTTPTransportAssumption DEF Init
<1>1. TypeOK
  BY DEF TypeOK, Phases, Results, NoResult, Statuses
<1>2. Honest /\ Reasons
  BY DEF Honest, Reasons, NoResult, IsSuccess
<1>3. StoredOnce /\ GivesUpWithReason
  BY DEF StoredOnce, GivesUpWithReason
<1> QED
  BY <1>1, <1>2, <1>3 DEF TransportInv

LEMMA StepTransportInv ==
  ASSUME TransportInv, [Next]_vars
  PROVE  TransportInv'
<1> USE HTTPTransportAssumption DEF TransportInv, TypeOK, Goto
<1>1. ASSUME NEW s \in Senders, Marshals(s)
      PROVE  TransportInv'
  <2>1. CASE Items[s] \intersect Poison # {}
    <3>1. /\ result' = [result EXCEPT ![s] = Failed] /\ Goto(s, "returned")
          /\ UNCHANGED <<attempts, open, wire, answer, stored>>
      BY <1>1, <2>1 DEF Marshals
    <3>2. TypeOK'
      BY <3>1 DEF Phases, Results, Failed, Statuses
    <3>3. Honest'
      BY <3>1 DEF Honest, Stored, Failed, IsSuccess
    <3>4. Reasons' /\ StoredOnce' /\ GivesUpWithReason'
      BY <2>1, <3>1 DEF Reasons, StoredOnce, GivesUpWithReason
    <3> QED
      BY <3>2, <3>3, <3>4
  <2>2. CASE Items[s] \intersect Poison = {}
    <3>1. Goto(s, "attempt") /\ UNCHANGED <<attempts, result, open, wire, answer, stored>>
      BY <1>1, <2>2 DEF Marshals
    <3>2. TypeOK'
      BY <3>1 DEF Phases
    <3>3. Honest' /\ StoredOnce' /\ GivesUpWithReason'
      BY <3>1 DEF Honest, Stored, StoredOnce, GivesUpWithReason
    <3>4. Reasons'
      BY <1>1, <3>1 DEF Marshals, Reasons
    <3> QED
      BY <3>2, <3>3, <3>4
  <2> QED
    BY <2>1, <2>2
<1>2. ASSUME NEW s \in Senders, Executes(s)
      PROVE  TransportInv'
  <2>1. attempts[s] <= MaxRetries
    BY <1>2 DEF Executes, Reasons
  <2>2. TypeOK'
    BY <1>2, <2>1 DEF Executes, Phases, Attempts
  <2>3. Honest' /\ Reasons' /\ StoredOnce' /\ GivesUpWithReason'
    BY <1>2 DEF Executes, Honest, Stored, Reasons, StoredOnce, GivesUpWithReason
  <2> QED
    BY <2>2, <2>3
<1>3. ASSUME NEW s \in Senders, RequestFails(s)
      PROVE  TransportInv'
  <2>1. TypeOK'
    BY <1>3 DEF RequestFails, Phases, Results, Failed, Statuses
  <2>2. Honest'
    BY <1>3 DEF RequestFails, Honest, Stored, Failed, IsSuccess
  <2>3. Reasons' /\ StoredOnce' /\ GivesUpWithReason'
    BY <1>3 DEF RequestFails, Failed, Reasons, StoredOnce, GivesUpWithReason
  <2> QED
    BY <2>1, <2>2, <2>3
<1>4. ASSUME NEW s \in Senders, Receives(s)
      PROVE  TransportInv'
  <2> DEFINE got == [status |-> answer[s], error |-> FALSE,
                     duplicate |-> answer[s] = 409]
  <2>1. got \in Results /\ answer[s] \in Statuses
    BY DEF Results
  <2>2. TypeOK'
    BY <1>4, <2>1 DEF Receives, Phases, Statuses
  <2>3. IsSuccess(got) => answer[s] \in {201, 409}
    <3>1. IsSuccess(got) => (answer[s] >= 200 /\ answer[s] < 300) \/ answer[s] = 409
      BY DEF IsSuccess
    <3> QED
      BY <2>1, <3>1 DEF Statuses, Refusals
  <2>4. /\ result'[s] = got
        /\ \A x \in Senders \ {s} : result'[x] = result[x] /\ answer'[x] = answer[x]
        /\ answer'[s] = 0 /\ stored' = stored
    BY <1>4 DEF Receives
  <2>5. Honest'
    <3>1. got.duplicate => got.status = 409
      OBVIOUS
    <3>2. /\ answer'[s] \in {201, 409} => Stored(s)'
          /\ IsSuccess(got) => Stored(s)'
      BY <2>3, <2>4 DEF Honest, Stored
    <3>3. ASSUME NEW x \in Senders \ {s}
          PROVE  /\ answer'[x] \in {201, 409} => Stored(x)'
                 /\ IsSuccess(result'[x]) => Stored(x)'
                 /\ result'[x].duplicate => result'[x].status = 409
      BY <2>4 DEF Honest, Stored
    <3> QED
      BY <2>4, <3>1, <3>2, <3>3 DEF Honest
  <2>6. Reasons' /\ StoredOnce' /\ GivesUpWithReason'
    BY <1>4 DEF Receives, Reasons, StoredOnce, GivesUpWithReason
  <2> QED
    BY <2>2, <2>5, <2>6
<1>5. ASSUME NEW s \in Senders, Decides(s)
      PROVE  TransportInv'
  <2>1. TypeOK'
    BY <1>5 DEF Decides, Phases
  <2>2. Honest' /\ Reasons' /\ StoredOnce'
    BY <1>5 DEF Decides, Honest, Stored, Reasons, StoredOnce
  <2>3. GivesUpWithReason'
    <3>1. CASE attempts[s] >= MaxRetries + 1
      <4>1. attempts[s] = MaxRetries + 1
        BY <3>1
      <4> QED
        BY <1>5, <4>1 DEF Decides, GivesUpWithReason
    <3>2. CASE ShouldRetry(result[s]) /\ ~(attempts[s] >= MaxRetries + 1)
      BY <1>5, <3>2 DEF Decides, GivesUpWithReason
    <3>3. CASE ~ShouldRetry(result[s])
      <4>1. \/ IsSuccess(result[s])
            \/ ~result[s].error /\ result[s].status \in FinalStatuses
        <5>1. /\ result[s] \in Results /\ ~result[s].error /\ result[s].status # 0
              /\ result[s].status = 409 => result[s].duplicate
          BY <1>5, <3>3 DEF Decides, Reasons, ShouldRetry
        <5> QED
          BY <3>3, <5>1, FinalOrRetried
      <4> QED
        BY <1>5, <4>1 DEF Decides, GivesUpWithReason
    <3> QED
      BY <3>1, <3>2, <3>3
  <2> QED
    BY <2>1, <2>2, <2>3
<1>6. ASSUME NEW s \in Senders, SleepEnds(s)
      PROVE  TransportInv'
  <2>1. TypeOK'
    BY <1>6 DEF SleepEnds, Phases
  <2>2. Honest' /\ Reasons' /\ StoredOnce' /\ GivesUpWithReason'
    BY <1>6 DEF SleepEnds, Honest, Stored, Reasons, StoredOnce, GivesUpWithReason
  <2> QED
    BY <2>1, <2>2
<1>7. ASSUME NEW s \in Senders, SleepIsCancelled(s)
      PROVE  TransportInv'
  <2>1. TypeOK'
    BY <1>7 DEF SleepIsCancelled, Phases, Results
  <2>2. /\ result'[s].error
        /\ result'[s].status = result[s].status
        /\ result'[s].duplicate = result[s].duplicate
        /\ \A x \in Senders \ {s} : result'[x] = result[x]
        /\ UNCHANGED <<answer, stored>>
    BY <1>7 DEF SleepIsCancelled, Results
  <2>3. Honest'
    BY <2>2 DEF Honest, Stored, IsSuccess
  <2>4. Reasons' /\ StoredOnce' /\ GivesUpWithReason'
    BY <1>7 DEF SleepIsCancelled, Reasons, StoredOnce, GivesUpWithReason
  <2> QED
    BY <2>1, <2>3, <2>4
<1>8. ASSUME NEW s \in Senders, ContextEnds(s)
      PROVE  TransportInv'
  <2>1. TypeOK'
    BY <1>8 DEF ContextEnds
  <2>2. Honest' /\ Reasons' /\ StoredOnce' /\ GivesUpWithReason'
    BY <1>8 DEF ContextEnds, Honest, Stored, Reasons, StoredOnce, GivesUpWithReason
  <2> QED
    BY <2>1, <2>2
<1>9. ASSUME NEW r \in wire, NEW codes \in SUBSET (Statuses \ {0}), Answers(r, codes)
      PROVE  /\ answer' \in [Senders -> Statuses]
             /\ \A s \in Senders : answer'[s] # answer[s] => s = r[1] /\ answer'[s] \in codes
  <2>1. r[1] \in Senders
    OBVIOUS
  <2>2. PICK code \in codes :
          answer' = IF phase[r[1]] = "flight" /\ attempts[r[1]] = r[2]
                      THEN [answer EXCEPT ![r[1]] = code] ELSE answer
    BY <1>9 DEF Answers
  <2> QED
    BY <2>1, <2>2
<1>10. ASSUME NEW r \in wire, Ingests(r)
       PROVE  TransportInv'
  <2> DEFINE codes == {201} \union Afterthoughts
                       \union IF \A e \in Items[r[1]] : stored[e] > 0 THEN {409} ELSE {}
  <2>1. /\ codes \in SUBSET (Statuses \ {0}) /\ Answers(r, codes)
        /\ UNCHANGED <<phase, attempts, result, open>>
        /\ wire' = wire \ {r}
    <3>1. codes \in SUBSET (Statuses \ {0})
      BY DEF Statuses, Refusals, Afterthoughts
    <3>2. Answers(r, codes)
      BY <1>10 DEF Ingests
    <3> QED
      BY <1>10, <3>1, <3>2 DEF Ingests
  <2>2. ASSUME NEW e \in Events
        PROVE  /\ stored'[e] \in Nat /\ stored'[e] >= stored[e] /\ stored'[e] <= 1
               /\ e \in Items[r[1]] => stored'[e] > 0
    <3>1. e \in Items[r[1]] => EnsureEventID(IdOf[e]) = "uuid"
      BY <1>10, EnsureEventIDIdentifies DEF Ingests
    <3>2. stored[e] \in Nat /\ stored[e] <= 1
      BY DEF StoredOnce
    <3> QED
      BY <1>10, <3>1, <3>2 DEF Ingests, Row
  <2>3. /\ answer' \in [Senders -> Statuses]
        /\ \A s \in Senders : answer'[s] # answer[s] => s = r[1]
    BY <1>9, <2>1
  <2>4. TypeOK'
    <3>1. stored' \in [Events -> Nat]
      BY <1>10, <2>2 DEF Ingests
    <3> QED
      BY <2>1, <2>3, <3>1
  <2>5. \A s \in Senders : Stored(s) => Stored(s)'
    BY <2>2 DEF Stored
  <2>6. Stored(r[1])'
    BY <2>2 DEF Stored
  <2>7. Honest'
    BY <2>1, <2>3, <2>5, <2>6 DEF Honest
  <2>8. Reasons' /\ StoredOnce' /\ GivesUpWithReason'
    BY <2>1, <2>2 DEF Reasons, StoredOnce, GivesUpWithReason
  <2> QED
    BY <2>4, <2>7, <2>8
<1>11. ASSUME NEW r \in wire, Refuses(r)
       PROVE  TransportInv'
  <2>1. /\ Refusals \in SUBSET (Statuses \ {0}) /\ Answers(r, Refusals)
        /\ UNCHANGED <<phase, attempts, result, open, stored>>
        /\ wire' = wire \ {r}
    BY <1>11 DEF Refuses, Statuses, Refusals
  <2>2. /\ answer' \in [Senders -> Statuses]
        /\ \A s \in Senders : answer'[s] # answer[s] => answer'[s] \in Refusals
    BY <1>9, <2>1
  <2>3. TypeOK'
    BY <2>1, <2>2
  <2>4. Honest'
    BY <2>1, <2>2 DEF Honest, Stored, Refusals
  <2>5. Reasons' /\ StoredOnce' /\ GivesUpWithReason'
    BY <2>1 DEF Reasons, StoredOnce, GivesUpWithReason
  <2> QED
    BY <2>3, <2>4, <2>5
<1>12. CASE UNCHANGED vars
  <2>1. TypeOK' /\ StoredOnce' /\ GivesUpWithReason'
    BY <1>12 DEF vars, StoredOnce, GivesUpWithReason
  <2>2. Honest' /\ Reasons'
    BY <1>12 DEF vars, Honest, Stored, Reasons
  <2> QED
    BY <2>1, <2>2
<1> QED
  BY <1>1, <1>2, <1>3, <1>4, <1>5, <1>6, <1>7, <1>8, <1>10, <1>11, <1>12
     DEF Next, SenderStep

-----------------------------------------------------------------------------
(* The invariant holds in every reachable state. *)
THEOREM Invariance == Spec => []TransportInv
<1> QED
  BY InitTransportInv, StepTransportInv, PTL DEF Spec

(* Types, and the bound on the attempts of http_transport.go, request().    *)
THEOREM TypeCorrect == Spec => []TypeOK
<1>1. TransportInv => TypeOK
  BY DEF TransportInv
<1> QED
  BY <1>1, Invariance, PTL

(* Retries of http_transport.go and the ids of ensureEventID: one row.      *)
THEOREM RetriesAreIdempotent == Spec => []StoredOnce
<1>1. TransportInv => StoredOnce
  BY DEF TransportInv
<1> QED
  BY <1>1, Invariance, PTL

(* IsSuccess of core/types.go, the 409 included, tells the truth.           *)
THEOREM SuccessIsHonest == Spec => []NoFalseSuccess
<1>1. TransportInv => NoFalseSuccess
  BY DEF TransportInv, NoFalseSuccess, Honest, Stored
<1> QED
  BY <1>1, Invariance, PTL

(* request() of http_transport.go gives up for a documented reason only.    *)
THEOREM GivingUpIsJustified == Spec => []GivesUpWithReason
<1>1. TransportInv => GivesUpWithReason
  BY DEF TransportInv
<1> QED
  BY <1>1, Invariance, PTL

(* request() of http_transport.go repeats nothing that has been decided.    *)
THEOREM NoRetryAfterAnAnswer == Spec => RetriesAreDue
<1>1. ASSUME TransportInv, [Next]_vars, NEW s \in Senders, attempts'[s] > attempts[s]
      PROVE  /\ ~IsSuccess(result[s])
             /\ result[s].error \/ result[s].status \notin FinalStatuses
  <2>1. phase[s] = "attempt"
    <3>1. attempts \in [Senders -> Nat]
      BY <1>1, HTTPTransportAssumption DEF TransportInv, TypeOK
    <3>2. ASSUME NEW x \in Senders, Executes(x)
          PROVE  phase[s] = "attempt"
      BY <1>1, <3>1, <3>2 DEF Executes
    <3>3. (\E x \in Senders : Executes(x)) \/ UNCHANGED attempts
      BY <1>1 DEF Next, SenderStep, Marshals, RequestFails, Receives, Decides, SleepEnds,
                  SleepIsCancelled, ContextEnds, Ingests, Refuses, vars
    <3> QED
      BY <1>1, <3>1, <3>2, <3>3
  <2>2. result[s] = NoResult \/ ShouldRetry(result[s])
    BY <1>1, <2>1 DEF TransportInv, Reasons
  <2>3. result[s] \in Results /\ (result[s].duplicate => result[s].status = 409)
    BY <1>1 DEF TransportInv, TypeOK, Honest
  <2>4. CASE result[s] = NoResult
    BY <2>4 DEF NoResult, IsSuccess, FinalStatuses
  <2>5. CASE ShouldRetry(result[s])
    BY <2>3, <2>5, SuccessIsFinal DEF ShouldRetry, FinalStatuses
  <2> QED
    BY <2>2, <2>4, <2>5
<1>2. TransportInv /\ [Next]_vars =>
        [\A s \in Senders : attempts'[s] > attempts[s] =>
           /\ ~IsSuccess(result[s])
           /\ result[s].error \/ result[s].status \notin FinalStatuses]_vars
  BY <1>1
<1> QED
  BY <1>2, Invariance, PTL DEF Spec, RetriesAreDue

-----------------------------------------------------------------------------
(* The loop winds down. *)

(* A step of one call changes nothing that another call counts by.          *)
LEMMA SenderStepIsLocal ==
  ASSUME TransportInv, NEW s \in Senders, SenderStep(s)
  PROVE  \A x \in Senders \ {s} : phase'[x] = phase[x] /\ attempts'[x] = attempts[x]
BY DEF SenderStep, Marshals, Executes, RequestFails, Decides, Receives, SleepEnds,
       SleepIsCancelled, Goto, TransportInv, TypeOK

(* Every step of a call lowers what it has still to do at most. *)
LEMMA SenderStepWindsDown ==
  ASSUME TransportInv, NEW s \in Senders, SenderStep(s)
  PROVE  Remaining(s)' \in 0..(Remaining(s) - 1)
<1> USE HTTPTransportAssumption DEF TransportInv, TypeOK, Goto, Remaining
<1>1. attempts[s] \in Nat /\ attempts[s] <= MaxRetries + 1
  OBVIOUS
<1>2. CASE Marshals(s)
  <2>1. phase[s] = "marshal" /\ phase'[s] \in {"returned", "attempt"} /\ attempts' = attempts
    BY <1>2 DEF Marshals
  <2> QED
    BY <1>1, <2>1
<1>3. CASE Executes(s)
  <2>1. phase[s] = "attempt" /\ phase'[s] = "flight" /\ attempts'[s] = attempts[s] + 1
    BY <1>3 DEF Executes
  <2>2. attempts[s] <= MaxRetries
    BY <2>1 DEF Reasons
  <2> QED
    BY <1>1, <2>1, <2>2
<1>4. CASE RequestFails(s) \/ Receives(s)
  <2>1. phase[s] = "flight" /\ phase'[s] = "decide" /\ attempts' = attempts
    BY <1>4 DEF RequestFails, Receives
  <2> QED
    BY <1>1, <2>1
<1>5. CASE Decides(s)
  <2>1. phase[s] = "decide" /\ phase'[s] \in {"returned", "sleep"} /\ attempts' = attempts
    BY <1>5 DEF Decides
  <2> QED
    BY <1>1, <2>1
<1>6. CASE SleepEnds(s) \/ SleepIsCancelled(s)
  <2>1. phase[s] = "sleep" /\ phase'[s] \in {"returned", "attempt"} /\ attempts' = attempts
    BY <1>6 DEF SleepEnds, SleepIsCancelled
  <2> QED
    BY <1>1, <2>1
<1> QED
  BY <1>2, <1>3, <1>4, <1>5, <1>6 DEF SenderStep

(* Every call of Send has a bound on the steps it has left, which each of   *)
(* its steps lowers and nobody raises: with fairness, SendReturns.          *)
THEOREM CallsComeToAnEnd == Spec => CallsWindDown
<1>1. ASSUME TransportInv, [Next]_vars, NEW s \in Senders
      PROVE  /\ Remaining(s)' <= Remaining(s)
             /\ SenderStep(s) => Remaining(s)' \in 0..(Remaining(s) - 1)
  <2>1. Remaining(s) \in Nat
    BY <1>1, HTTPTransportAssumption DEF TransportInv, TypeOK, Remaining
  <2>2. CASE SenderStep(s)
    BY <1>1, <2>1, <2>2, SenderStepWindsDown
  <2>3. CASE ~SenderStep(s)
    <3>1. phase'[s] = phase[s] /\ attempts'[s] = attempts[s]
      <4>1. ASSUME NEW x \in Senders, SenderStep(x)
            PROVE  phase'[s] = phase[s] /\ attempts'[s] = attempts[s]
        BY <1>1, <2>3, <4>1, SenderStepIsLocal
      <4>2. ASSUME NEW x \in Senders, ContextEnds(x)
            PROVE  phase'[s] = phase[s] /\ attempts'[s] = attempts[s]
        BY <4>2 DEF ContextEnds
      <4>3. ASSUME NEW r \in wire, Ingests(r) \/ Refuses(r)
            PROVE  phase'[s] = phase[s] /\ attempts'[s] = attempts[s]
        BY <4>3 DEF Ingests, Refuses
      <4> QED
        BY <1>1, <4>1, <4>2, <4>3 DEF Next, vars
    <3>2. Remaining(s)' = Remaining(s)
      BY <3>1 DEF Remaining
    <3> QED
      BY <2>1, <2>3, <3>2
  <2> QED
    BY <2>2, <2>3
<1>2. TransportInv /\ [Next]_vars =>
        [\A s \in Senders : /\ Remaining(s)' <= Remaining(s)
                            /\ SenderStep(s) => Remaining(s)' \in 0..(Remaining(s) - 1)]_vars
  BY <1>1
<1> QED
  BY <1>2, Invariance, PTL DEF Spec, CallsWindDown

-----------------------------------------------------------------------------
(* The transport implements Delivery. *)

LEMMA StepEncoded ==
  ASSUME TransportInv, Encoded, [Next]_vars
  PROVE  Encoded'
<1> USE DEF TransportInv, TypeOK, Goto, Encoded
<1>1. ASSUME NEW s \in Senders, Marshals(s) PROVE Encoded'
  BY <1>1 DEF Marshals
<1>2. ASSUME NEW s \in Senders, Executes(s) PROVE Encoded'
  <2>1. Items[s] \intersect Poison = {} /\ phase[s] = "attempt"
    BY <1>2 DEF Executes
  <2>2. wire' \subseteq wire \union {<<s, attempts[s] + 1>>}
    BY <1>2 DEF Executes
  <2>3. \A r \in wire' : Items[r[1]] \intersect Poison = {}
    BY <2>1, <2>2
  <2>4. \A x \in Senders :
          phase'[x] \notin {"marshal", "returned"} => Items[x] \intersect Poison = {}
    BY <1>2, <2>1 DEF Executes
  <2> QED
    BY <2>3, <2>4
<1>3. ASSUME NEW s \in Senders, RequestFails(s) \/ Receives(s) \/ Decides(s) \/ SleepEnds(s)
                                 \/ SleepIsCancelled(s) \/ ContextEnds(s)
      PROVE  Encoded'
  <2>1. wire' = wire /\ \A x \in Senders : phase'[x] = phase[x]
                           \/ phase[x] \notin {"marshal", "returned"}
    BY <1>3 DEF RequestFails, Receives, Decides, SleepEnds, SleepIsCancelled, ContextEnds
  <2> QED
    BY <2>1
<1>4. ASSUME NEW r \in wire, Ingests(r) \/ Refuses(r) PROVE Encoded'
  BY <1>4 DEF Ingests, Refuses
<1>5. CASE UNCHANGED vars
  BY <1>5 DEF vars
<1> QED
  BY <1>1, <1>2, <1>3, <1>4, <1>5 DEF Next, SenderStep

(* No verdict changes as long as every call that has returned keeps its     *)
(* result, and none returns.                                                *)
LEMMA VerdictStays ==
  ASSUME \A x \in Senders : /\ phase'[x] = "returned" <=> phase[x] = "returned"
                            /\ phase[x] = "returned" => result'[x] = result[x]
  PROVE  Verdict' = Verdict
<1>1. ASSUME NEW x \in Senders PROVE VerdictOn(x)' = VerdictOn(x)
  BY DEF VerdictOn, IsSuccess
<1> QED
  BY <1>1, Zenon DEF Verdict

(* A call that returns has one from then on. *)
LEMMA VerdictIsGiven ==
  ASSUME NEW s \in Senders, phase[s] # "returned", phase'[s] = "returned",
         \A x \in Senders \ {s} : phase'[x] = phase[x] /\ result'[x] = result[x]
  PROVE  /\ Verdict[s] = "none"
         /\ Verdict' = [Verdict EXCEPT ![s] = IF IsSuccess(result'[s]) THEN "success" ELSE "failure"]
<1> DEFINE given == IF IsSuccess(result'[s]) THEN "success" ELSE "failure"
<1>1. VerdictOn(s) = "none" /\ VerdictOn(s)' = given
  BY DEF VerdictOn, IsSuccess
<1>2. ASSUME NEW x \in Senders \ {s} PROVE VerdictOn(x)' = VerdictOn(x)
  BY DEF VerdictOn, IsSuccess
<1> HIDE DEF given
<1>3. Verdict = [x \in Senders |-> VerdictOn(x)] /\ Verdict' = [x \in Senders |-> VerdictOn(x)']
  BY DEF Verdict
<1>4. Verdict' = [Verdict EXCEPT ![s] = given]
  BY <1>1, <1>2, <1>3
<1> QED
  BY <1>1, <1>3, <1>4 DEF given

(* Returning with a result that is honest is a verdict of Delivery. *)
LEMMA ReturnIsVerdict ==
  ASSUME NEW s \in Senders, phase[s] # "returned", phase'[s] = "returned",
         \A x \in Senders \ {s} : phase'[x] = phase[x] /\ result'[x] = result[x],
         stored' = stored, IsSuccess(result'[s]) => \A e \in Items[s] : stored[e] = 1
  PROVE  Promise!Next
<1>1. CASE IsSuccess(result'[s])
  <2>1. Promise!Succeed(s)
    BY <1>1, VerdictIsGiven DEF Promise!Succeed
  <2> QED
    BY <2>1 DEF Promise!Next
<1>2. CASE ~IsSuccess(result'[s])
  <2>1. Promise!Fail(s)
    BY <1>2, VerdictIsGiven DEF Promise!Fail
  <2> QED
    BY <2>1 DEF Promise!Next
<1> QED
  BY <1>1, <1>2

LEMMA StepIsDeliveryStep ==
  ASSUME TransportInv, Encoded, [Next]_vars
  PROVE  [Promise!Next]_(Promise!vars)
<1> USE DEF TransportInv, TypeOK, Goto
<1>0. ASSUME \A x \in Senders : /\ phase'[x] = "returned" <=> phase[x] = "returned"
                                /\ phase[x] = "returned" => result'[x] = result[x],
             stored' = stored
      PROVE  UNCHANGED Promise!vars
  BY <1>0, VerdictStays DEF Promise!vars
<1>1. ASSUME NEW s \in Senders, Marshals(s) PROVE [Promise!Next]_(Promise!vars)
  <2>1. CASE Items[s] \intersect Poison # {}
    <3>1. /\ phase[s] # "returned" /\ phase'[s] = "returned" /\ stored' = stored
          /\ \A x \in Senders \ {s} : phase'[x] = phase[x] /\ result'[x] = result[x]
      BY <1>1, <2>1 DEF Marshals
    <3>2. result'[s] = Failed
      BY <1>1, <2>1 DEF Marshals
    <3>3. ~IsSuccess(result'[s])
      BY <3>2 DEF IsSuccess, Failed
    <3> QED
      BY <3>1, <3>3, ReturnIsVerdict
  <2>2. CASE Items[s] \intersect Poison = {}
    BY <1>0, <1>1, <2>2 DEF Marshals
  <2> QED
    BY <2>1, <2>2
<1>2. ASSUME NEW s \in Senders, Executes(s) \/ RequestFails(s) \/ Receives(s) \/ SleepEnds(s)
                                 \/ ContextEnds(s)
      PROVE  [Promise!Next]_(Promise!vars)
  BY <1>0, <1>2 DEF Executes, RequestFails, Receives, SleepEnds, ContextEnds
<1>3. ASSUME NEW s \in Senders, IsSuccess(result[s])
      PROVE  \A e \in Items[s] : stored[e] = 1
  <2> SUFFICES ASSUME NEW e \in Items[s] PROVE stored[e] = 1
    OBVIOUS
  <2>1. e \in Events
    BY HTTPTransportAssumption
  <2> QED
    BY <1>3, <2>1 DEF Honest, Stored, StoredOnce
<1>4. ASSUME NEW s \in Senders, Decides(s) PROVE [Promise!Next]_(Promise!vars)
  <2>1. CASE phase'[s] = "returned"
    BY <1>3, <1>4, <2>1, ReturnIsVerdict DEF Decides
  <2>2. CASE phase'[s] # "returned"
    BY <1>0, <1>4, <2>2 DEF Decides
  <2> QED
    BY <2>1, <2>2
<1>5. ASSUME NEW s \in Senders, SleepIsCancelled(s) PROVE [Promise!Next]_(Promise!vars)
  <2>1. result'[s].error
    BY <1>5 DEF SleepIsCancelled, Results
  <2>2. /\ phase[s] # "returned" /\ phase'[s] = "returned" /\ stored' = stored
        /\ \A x \in Senders \ {s} : phase'[x] = phase[x] /\ result'[x] = result[x]
    BY <1>5 DEF SleepIsCancelled
  <2> QED
    BY <2>1, <2>2, ReturnIsVerdict DEF IsSuccess
<1>6. ASSUME NEW r \in wire, Ingests(r) PROVE [Promise!Next]_(Promise!vars)
  <2>1. r[1] \in Senders /\ Items[r[1]] \intersect Poison = {}
    BY DEF Encoded
  <2>2. ASSUME NEW e \in Events
        PROVE  stored'[e] = IF e \in Items[r[1]] THEN 1 ELSE stored[e]
    <3>1. e \in Items[r[1]] => EnsureEventID(IdOf[e]) = "uuid"
      BY <1>6, HTTPTransportAssumption, EnsureEventIDIdentifies DEF Ingests
    <3>2. stored[e] \in Nat /\ stored[e] <= 1
      BY DEF StoredOnce
    <3> QED
      BY <1>6, <3>1, <3>2 DEF Ingests, Row
  <2>3. stored' = [e \in Events |-> IF e \in Items[r[1]] THEN 1 ELSE stored[e]]
    BY <1>6, <2>2 DEF Ingests
  <2>4. Verdict' = Verdict
    BY <1>6, VerdictStays DEF Ingests
  <2>5. Promise!Store(r[1])
    BY <2>1, <2>3, <2>4 DEF Promise!Store
  <2> QED
    BY <2>1, <2>5 DEF Promise!Next
<1>7. ASSUME NEW r \in wire, Refuses(r) PROVE [Promise!Next]_(Promise!vars)
  BY <1>0, <1>7 DEF Refuses
<1>8. CASE UNCHANGED vars
  BY <1>0, <1>8 DEF vars
<1> QED
  BY <1>1, <1>2, <1>4, <1>5, <1>6, <1>7, <1>8 DEF Next, SenderStep

(* The transport keeps its promise to the provider, whatever is lost, late  *)
(* or repeated between it and ingest.                                       *)
THEOREM TransportImplementsDelivery == Spec => ImplementsDelivery
<1>1. Init => Encoded /\ Promise!Init
  BY DEF Init, Encoded, Promise!Init, Verdict, VerdictOn
<1>2. TransportInv /\ Encoded /\ [Next]_vars => Encoded'
  BY StepEncoded
<1>3. TransportInv /\ Encoded /\ [Next]_vars => [Promise!Next]_(Promise!vars)
  BY StepIsDeliveryStep
<1> QED
  BY <1>1, <1>2, <1>3, Invariance, PTL DEF Spec, ImplementsDelivery, Promise!Spec
=============================================================================
