---------------------------- MODULE HTTPTransport ----------------------------
(***************************************************************************)
(* The default transport, providers/duckbug/http_transport.go, between     *)
(* goroutines that send and an ingest API behind an edge: attempts,        *)
(* answers, retries, and a context that may end at any moment.  A request  *)
(* the client has given up may still arrive, and an answer may be lost.    *)
(* Times are left out: a timeout is a step that may happen at any moment.  *)
(*                                                                         *)
(* Two assumptions about ingest, which is outside the repository: it takes *)
(* a batch as a whole, and answers 409 only when it has all of it (the     *)
(* README says that of one event: "the backend already holds this          *)
(* eventId").  The code relies on both: any 409 is a success (IsSuccess),  *)
(* and the items that a 2xx answer may list, with a status for each, are   *)
(* put into the result (TransportResult.Items), where nothing reads them;  *)
(* they are left out here.                                                 *)
(***************************************************************************)
EXTENDS Naturals

CONSTANTS Events,       \* what is sent
          IdOf,         \* the eventId with which each reaches the provider
          Poison,       \* the events json.Marshal refuses
          Senders,      \* goroutines inside Send or SendBatch, one call each
          Items,        \* the events of each call
          Cancellable,  \* the senders whose context can end
          MaxRetries

IdKinds == {"uuid", "text", "blank", "absent", "number"}

ASSUME HTTPTransportAssumption ==
  /\ IdOf \in [Events -> IdKinds]
  /\ Poison \subseteq Events
  /\ Items \in [Senders -> SUBSET Events]
  /\ Cancellable \subseteq Senders
  /\ MaxRetries \in Nat

VARIABLES
  phase,     \* where each call stands in request()
  attempts,  \* its loop counter
  result,    \* its TransportResult
  open,      \* whether its context is still alive
  wire,      \* requests on their way to ingest: <<sender, attempt>>
  answer,    \* the status on its way back to each, 0 when there is none
  stored     \* the rows ingest holds for each event

vars == <<phase, attempts, result, open, wire, answer, stored>>

Phases == {"marshal", "attempt", "flight", "decide", "sleep", "returned"}
Attempts == 1..(MaxRetries + 1)

(* What the edge and ingest answer when they do not take the request. *)
Refusals == {400, 408, 429, 500, 501, 503}
(* What the edge may answer after ingest took it. *)
Afterthoughts == {408, 500, 503}
Statuses == {0, 201, 409} \union Refusals

Results == [status : Statuses, error : BOOLEAN, duplicate : BOOLEAN]
NoResult == [status |-> 0, error |-> FALSE, duplicate |-> FALSE]
Failed == [status |-> 0, error |-> TRUE, duplicate |-> FALSE]

Init ==
  /\ phase = [s \in Senders |-> "marshal"]
  /\ attempts = [s \in Senders |-> 0]
  /\ result = [s \in Senders |-> NoResult]
  /\ open = [s \in Senders |-> TRUE]
  /\ wire = {}
  /\ answer = [s \in Senders |-> 0]
  /\ stored = [e \in Events |-> 0]

Goto(s, p) == phase' = [phase EXCEPT ![s] = p]

-----------------------------------------------------------------------------
(* ensureEventID, the last thing preparePayload does. *)

(* A mutant: the id is taken as it comes. *)
LeavesEventID(kind) == kind

EnsureEventID(kind) == IF kind \in {"uuid", "text"} THEN kind ELSE "uuid"

-----------------------------------------------------------------------------
(* The verdicts on a result. *)

IsSuccess(r) == /\ ~r.error
                /\ (r.status >= 200 /\ r.status < 300) \/ r.duplicate

(* A mutant: every 5xx is worth another attempt. *)
ShouldRetryEvery5xx(r) == r.error \/ r.status \in {408, 429} \/ r.status >= 500

(* A mutant: a list of the retriable statuses, without 408. *)
ShouldRetryList(r) == r.error \/ r.status \in {429, 500, 503}

ShouldRetry(r) ==
  \/ r.error
  \/ r.status # 501 /\ (r.status \in {408, 429} \/ r.status >= 500)

-----------------------------------------------------------------------------
(* request() and execute(), on the goroutine that sends. *)

Marshals(s) ==
  /\ phase[s] = "marshal"
  /\ IF Items[s] \intersect Poison # {}
       THEN /\ result' = [result EXCEPT ![s] = Failed]
            /\ Goto(s, "returned")
       ELSE /\ Goto(s, "attempt")
            /\ UNCHANGED result
  /\ UNCHANGED <<attempts, open, wire, answer, stored>>

(* A mutant: the loop counter is not advanced. *)
ExecutesUncounted(s) ==
  /\ phase[s] = "attempt"
  /\ \/ open[s] /\ wire' = wire \union {<<s, 1>>}
     \/ UNCHANGED wire
  /\ Goto(s, "flight")
  /\ UNCHANGED <<attempts, result, open, answer, stored>>

(* client.Do, up to the bytes being on the wire, if they ever are. *)
Executes(s) ==
  /\ phase[s] = "attempt"
  /\ attempts' = [attempts EXCEPT ![s] = @ + 1]
  /\ \/ open[s] /\ wire' = wire \union {<<s, attempts[s] + 1>>}
     \/ UNCHANGED wire
  /\ Goto(s, "flight")
  /\ UNCHANGED <<result, open, answer, stored>>

(* client.Do fails: no connection, a timeout, the context. *)
RequestFails(s) ==
  /\ phase[s] = "flight"
  /\ result' = [result EXCEPT ![s] = Failed]
  /\ answer' = [answer EXCEPT ![s] = 0]
  /\ Goto(s, "decide")
  /\ UNCHANGED <<attempts, open, wire, stored>>

(* A mutant: an answer without an error is a success. *)
ReceivesAsDuplicate(s) ==
  /\ phase[s] = "flight" /\ answer[s] # 0
  /\ result' = [result EXCEPT ![s] =
                  [status |-> answer[s], error |-> FALSE, duplicate |-> answer[s] >= 400]]
  /\ answer' = [answer EXCEPT ![s] = 0]
  /\ Goto(s, "decide")
  /\ UNCHANGED <<attempts, open, wire, stored>>

Receives(s) ==
  /\ phase[s] = "flight" /\ answer[s] # 0
  /\ result' = [result EXCEPT ![s] =
                  [status |-> answer[s], error |-> FALSE, duplicate |-> answer[s] = 409]]
  /\ answer' = [answer EXCEPT ![s] = 0]
  /\ Goto(s, "decide")
  /\ UNCHANGED <<attempts, open, wire, stored>>

(* A mutant: the loop has no last attempt. *)
DecidesForEver(s) ==
  /\ phase[s] = "decide"
  /\ Goto(s, IF ShouldRetry(result[s]) THEN "sleep" ELSE "returned")
  /\ UNCHANGED <<attempts, result, open, wire, answer, stored>>

(* The first return of the loop. *)
Decides(s) ==
  /\ phase[s] = "decide"
  /\ Goto(s, IF ~ShouldRetry(result[s]) \/ attempts[s] >= MaxRetries + 1
               THEN "returned" ELSE "sleep")
  /\ UNCHANGED <<attempts, result, open, wire, answer, stored>>

(* The two cases of the select in sleepWithContext. *)
SleepEnds(s) ==
  /\ phase[s] = "sleep"
  /\ Goto(s, "attempt")
  /\ UNCHANGED <<attempts, result, open, wire, answer, stored>>

SleepIsCancelled(s) ==
  /\ phase[s] = "sleep" /\ ~open[s]
  /\ result' = [result EXCEPT ![s].error = TRUE]
  /\ Goto(s, "returned")
  /\ UNCHANGED <<attempts, open, wire, answer, stored>>

-----------------------------------------------------------------------------
(* The rest of the world. *)

ContextEnds(s) ==
  /\ s \in Cancellable /\ open[s]
  /\ open' = [open EXCEPT ![s] = FALSE]
  /\ UNCHANGED <<phase, attempts, result, wire, answer, stored>>

(* Nobody listens any more to the answer to an attempt that was given up.  *)
Answers(r, statuses) ==
  \E code \in statuses :
    answer' = IF phase[r[1]] = "flight" /\ attempts[r[1]] = r[2]
                THEN [answer EXCEPT ![r[1]] = code] ELSE answer

(* Ingest, as ensureEventID and shouldRetry describe it: an id that is not  *)
(* a uuid is a 400; rows are unique by eventId, and a missing one is minted. *)
(* Assumed of a batch, since no source here says it: it is stored as a      *)
(* whole, and answered with 409 only when all of it is there already.       *)
Row(e, rows) == IF EnsureEventID(IdOf[e]) = "uuid" /\ rows > 0 THEN rows ELSE rows + 1

Ingests(r) ==
  /\ r \in wire
  /\ \A e \in Items[r[1]] : EnsureEventID(IdOf[e]) \in {"uuid", "absent"}
  /\ stored' = [e \in Events |-> IF e \in Items[r[1]] THEN Row(e, stored[e]) ELSE stored[e]]
  /\ wire' = wire \ {r}
  /\ Answers(r, {201} \union Afterthoughts
                  \union IF \A e \in Items[r[1]] : stored[e] > 0 THEN {409} ELSE {})
  /\ UNCHANGED <<phase, attempts, result, open>>

Refuses(r) ==
  /\ r \in wire
  /\ wire' = wire \ {r}
  /\ Answers(r, Refusals)
  /\ UNCHANGED <<phase, attempts, result, open, stored>>

-----------------------------------------------------------------------------
SenderStep(s) ==
  \/ Marshals(s) \/ Executes(s) \/ RequestFails(s) \/ Decides(s)
  \/ Receives(s) \/ SleepEnds(s) \/ SleepIsCancelled(s)

Next ==
  \/ \E s \in Senders : SenderStep(s) \/ ContextEnds(s)
  \/ \E r \in wire : Ingests(r) \/ Refuses(r)

Spec == Init /\ [][Next]_vars

(* The client has a timeout and the sleep a timer; ingest owes nothing. *)
FairSpec == Spec /\ \A s \in Senders : WF_vars(SenderStep(s))

-----------------------------------------------------------------------------
(* Properties. *)

(* The loop counter stays within the budget, and a result is one that       *)
(* execute can build.                                                       *)
TypeOK ==
  /\ phase \in [Senders -> Phases]
  /\ attempts \in [Senders -> 0..(MaxRetries + 1)]
  /\ result \in [Senders -> Results]
  /\ open \in [Senders -> BOOLEAN]
  /\ wire \subseteq Senders \X Attempts
  /\ answer \in [Senders -> Statuses]
  /\ stored \in [Events -> Nat]

(* Retries, late requests and lost answers do not store an event twice.     *)
StoredOnce == \A e \in Events : stored[e] <= 1

(* A result the provider takes for a success is that of events ingest       *)
(* holds; for a 409 and for a batch this rests on what Ingests assumes.     *)
NoFalseSuccess ==
  \A s \in Senders : phase[s] = "returned" /\ IsSuccess(result[s]) =>
    \A e \in Items[s] : stored[e] > 0

(* A call gives up only with a reason: a payload that cannot be encoded, a  *)
(* status that is final by the documented rule, the budget, the context.    *)
FinalStatuses == {400, 501}
GivesUpWithReason ==
  \A s \in Senders : phase[s] = "returned" /\ ~IsSuccess(result[s]) =>
    \/ Items[s] \intersect Poison # {}
    \/ ~result[s].error /\ result[s].status \in FinalStatuses
    \/ attempts[s] = MaxRetries + 1
    \/ ~open[s]

(* An attempt is made only when none has been answered with success or with *)
(* a status that is final.                                                  *)
RetriesAreDue ==
  [][\A s \in Senders : attempts'[s] > attempts[s] =>
       /\ ~IsSuccess(result[s])
       /\ result[s].error \/ result[s].status \notin FinalStatuses]_vars

(* What a call has still to do at most: four steps an attempt, the wait that *)
(* may follow a verdict, and the encoding.                                  *)
Remaining(s) ==
  LET left == 4 * (MaxRetries + 1 - attempts[s])
  IN  CASE phase[s] = "returned" -> 0
        [] phase[s] = "attempt" -> left
        [] phase[s] \in {"sleep", "marshal"} -> left + 1
        [] phase[s] = "decide" -> left + 2
        [] OTHER -> left + 3

(* No step of a call, a verdict or a wait included, leaves it as far from   *)
(* its return as before, and nobody else sets it back: what SendReturns     *)
(* needs besides fairness.                                                  *)
CallsWindDown ==
  [][\A s \in Senders :
       /\ Remaining(s)' <= Remaining(s)
       /\ SenderStep(s) => Remaining(s)' \in 0..(Remaining(s) - 1)]_vars

(* The transport does what the provider is promised of it, as far as ingest *)
(* does what Ingests assumes.                                               *)
VerdictOn(s) == IF phase[s] # "returned" THEN "none"
                ELSE IF IsSuccess(result[s]) THEN "success" ELSE "failure"
Verdict == [s \in Senders |-> VerdictOn(s)]

Promise == INSTANCE Delivery
  WITH Calls <- Senders, rows <- stored, verdict <- Verdict,
       Encodable <- {s \in Senders : Items[s] \intersect Poison = {}}
ImplementsDelivery == Promise!Spec

(* Send returns, whatever the network and ingest do.                        *)
SendReturns == \A s \in Senders : <>(phase[s] = "returned")
=============================================================================
