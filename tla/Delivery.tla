------------------------------ MODULE Delivery ------------------------------
(***************************************************************************)
(* What the transport promises the provider, with attempts, answers and    *)
(* retries hidden: of every event ingest gets one row at most, the events  *)
(* of a request get theirs together, and the one verdict on a call is a    *)
(* success only when its events are all there.  A failure promises nothing: *)
(* the request may have been stored, and may yet be, unless the call could *)
(* not be encoded at all.                                                  *)
(***************************************************************************)
EXTENDS Naturals

CONSTANTS Events, Calls,
          Items,       \* the events of each call
          Encodable    \* the calls whose events can all be encoded

VARIABLES rows,        \* the rows ingest has for each event
          verdict      \* what the provider is told of each call

vars == <<rows, verdict>>

Init == /\ rows = [e \in Events |-> 0]
        /\ verdict = [c \in Calls |-> "none"]

Store(c) == /\ c \in Encodable
            /\ rows' = [e \in Events |-> IF e \in Items[c] THEN 1 ELSE rows[e]]
            /\ UNCHANGED verdict

Succeed(c) == /\ verdict[c] = "none"
              /\ \A e \in Items[c] : rows[e] = 1
              /\ verdict' = [verdict EXCEPT ![c] = "success"]
              /\ UNCHANGED rows

Fail(c) == /\ verdict[c] = "none"
           /\ verdict' = [verdict EXCEPT ![c] = "failure"]
           /\ UNCHANGED rows

Next == \E c \in Calls : Store(c) \/ Succeed(c) \/ Fail(c)

Spec == Init /\ [][Next]_vars
=============================================================================
