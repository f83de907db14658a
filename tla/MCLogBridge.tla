----------------------------- MODULE MCLogBridge -----------------------------
(* Small instances of LogBridge: which configurations to look at. *)
EXTENDS LogBridgeInv

(* The bridge of slog with the threshold at Info and no failure handler. *)
InfoBridged == {[kind |-> "slog", minLvl |-> Info, nextLvl |-> Info,
                 quiet |-> FALSE, async |-> TRUE]}

(* Every bridge, with and without the worker, below, at and above the level *)
(* of a printed line, as far as its reports leave the provider.             *)
ReportsLeaveConfigs ==
  {c \in Config : /\ c.minLvl \in {Debug, Info, Warn}
                  /\ c.nextLvl \in {Info, Warn}
                  /\ \/ c.quiet
                     \/ c.minLvl > IF c.kind = "zerolog" THEN Debug ELSE Info}
=============================================================================
