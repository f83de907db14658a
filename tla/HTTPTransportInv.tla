-------------------------- MODULE HTTPTransportInv --------------------------
(* The inductive invariant of HTTPTransport. *)
EXTENDS HTTPTransport

Stored(s) == \A e \in Items[s] : stored[e] > 0

(* What a result and an answer under way say of the store. *)
Honest ==
  \A s \in Senders :
    /\ answer[s] \in {201, 409} => Stored(s)
    /\ IsSuccess(result[s]) => Stored(s)
    /\ result[s].duplicate => result[s].status = 409

(* Why a call is at its place in the loop. *)
Reasons ==
  \A s \in Senders :
    /\ phase[s] = "marshal" => result[s] = NoResult /\ attempts[s] = 0
    /\ phase[s] = "attempt" => result[s] = NoResult \/ ShouldRetry(result[s])
    /\ phase[s] = "decide" =>
         \/ result[s].error
         \/ result[s].status # 0 /\ (result[s].status = 409 => result[s].duplicate)
    /\ phase[s] = "sleep" => ShouldRetry(result[s])
    /\ phase[s] \in {"attempt", "sleep"} => attempts[s] <= MaxRetries

(* What cannot be encoded is not sent, nor is what shares a request with it. *)
Encoded ==
  /\ \A s \in Senders :
       phase[s] \notin {"marshal", "returned"} => Items[s] \intersect Poison = {}
  /\ \A r \in wire : Items[r[1]] \intersect Poison = {}

TransportInv ==
  /\ TypeOK
  /\ Honest
  /\ Reasons
  /\ StoredOnce
  /\ GivesUpWithReason
=============================================================================
