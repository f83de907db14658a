--------------------------- MODULE PendingGroupInv ---------------------------
(* The inductive invariant of PendingGroup when no capture begins after the *)
(* first Flush.                                                             *)
EXTENDS PendingGroup

Sending == {c \in Callers : at[c] \in {"select", "drop"}}
Busy == IF at[Worker] = "capture" THEN 1 ELSE 0

Types ==
  /\ counter \in Nat /\ waiters \in Nat /\ sema \in Nat /\ queued \in Nat
  /\ at \in [Goroutines -> {"start", "select", "drop", "capture", "release", "parked", "end"}]
  /\ \A w \in Waiters : at[w] \in {"start", "parked", "end"}

(* The counter is the number of events between Add and Done. *)
Counts == counter = Cardinality(Sending) + queued + Busy

(* A goroutine that is to release the waiters has brought the counter to    *)
(* zero, and as all captures have begun by now, it stays there; so it has   *)
(* for a waiter that was granted its wakeup, and for one that has come back. *)
Drained ==
  /\ waiters # 0 => Flushing
  /\ \A g \in Callers \union {Worker} : at[g] = "release" => counter = 0 /\ Flushing
  /\ sema # 0 => counter = 0 /\ waiters = 0 /\ Flushing
  /\ \A w \in Waiters : at[w] = "end" => counter = 0

(* The goroutines parked in Wait are finite in number, namely those that    *)
(* wg.state counts and those that were granted a wakeup; and while it counts *)
(* any, the counter is not zero or a goroutine is to release them.          *)
Wakeups ==
  /\ IsFiniteSet(Parked) /\ Cardinality(Parked) = waiters + sema
  /\ waiters # 0 => counter # 0 \/ \E g \in Callers \union {Worker} : at[g] = "release"

GroupInv == Types /\ Counts /\ Drained /\ NeverPanics
=============================================================================
