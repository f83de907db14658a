---------------------------- MODULE LogBridgeInv ----------------------------
(* The inductive invariant of LogBridge. *)
EXTENDS LogBridge

(* Who holds the mutex of the standard logger is inside Printf, and only    *)
(* who holds it is on the way out.                                          *)
Held ==
  \A g \in Goroutines :
    /\ outMu = g => pc[g] # "idle"
    /\ pc[g] = "unlock" => outMu = g

(* With the worker, what is captured inside Printf goes to the queue.       *)
CapturesLeave ==
  config.async => \A g \in Goroutines : pc[g] \in {"prepared", "send"} => outMu # g

(* Where the holder can be, as long as the reports leave the provider.      *)
PrintsPass ==
  \A g \in Goroutines : outMu = g =>
    /\ config.quiet => pc[g] # "lock"
    /\ config.minLvl > PrintLevel => pc[g] \in {"forward", "unlock"}

BridgeInv ==
  /\ TypeOK
  /\ Held
  /\ CapturesLeave
  /\ PrintsPass
=============================================================================
