------------------------------ MODULE LogBridge ------------------------------
(***************************************************************************)
(* The logging bridges, integrations/slog, integrations/zap and            *)
(* integrations/zerolog: records on their way to Duck and on to the        *)
(* wrapped logger, and what becomes of the reports that the provider       *)
(* itself writes with log.Printf when the application has made the bridge  *)
(* the output of the standard logger (slog.SetDefault, zap.RedirectStdLog, *)
(* log.SetOutput).                                                         *)
(*                                                                         *)
(* The standard logger is external: Printf holds its mutex, outMu, while   *)
(* it writes, and its writer hands the line to the bridge on the same      *)
(* goroutine.  So a goroutine with outMu is inside Printf, and the call it *)
(* makes there is nested in whatever it was doing before (resume).         *)
(***************************************************************************)
EXTENDS Integers

CONSTANTS Callers,     \* goroutines of the application
          Worker,      \* the goroutine of run() in the provider
          None,        \* nobody
          Configs,     \* the configurations to look at
          QueueSize    \* of the provider

Goroutines == Callers \union {Worker}

(* Ranks of the levels; zerolog's NoLevel is above every threshold. *)
Debug == 0
Info == 1
Warn == 2
Error == 3
NoLevel == 6
Levels == {Debug, Info, Warn, Error}

(* Which bridge, its threshold, the level of the wrapped logger, whether    *)
(* there is a transportFailureHandler, and Config.Async of the provider.    *)
Config == [kind : {"slog", "zap", "zerolog"}, minLvl : Levels, nextLvl : Levels,
           quiet : BOOLEAN, async : BOOLEAN]

ASSUME LogBridgeAssumption ==
  /\ Worker \notin Callers
  /\ None \notin Callers \union {Worker}
  /\ Configs \subseteq Config
  /\ QueueSize \in Nat \ {0}

VARIABLES
  config,   \* what New, NewHandler, NewCore and NewWriter were given
  queue,    \* the number of payloads in p.queue
  outMu,    \* who holds the mutex of the standard logger
  pc,       \* what each goroutine does next
  resume    \* where it goes on when its Printf returns

vars == <<config, queue, outMu, pc, resume>>

Labels == {"idle", "enqueue", "prepared", "send", "forward", "lock", "unlock"}

Init ==
  /\ config \in Configs
  /\ queue = 0
  /\ outMu = None
  /\ pc = [g \in Goroutines |-> "idle"]
  /\ resume = [g \in Goroutines |-> "idle"]

Goto(g, label) == pc' = [pc EXCEPT ![g] = label]

-----------------------------------------------------------------------------
(* Records. *)

(* A mutant: CaptureEvent runs the send path itself whatever Async says. *)
CaptureInline == "prepared"

(* Where CaptureEvent of the provider begins. *)
Capture == IF config.async THEN "enqueue" ELSE "prepared"

Enabled(level) == level >= config.nextLvl \/ level >= config.minLvl

(* Handle, and Write of the zap core: capture what reaches the threshold,   *)
(* then pass the record on, without asking the wrapped logger again.        *)
Handled(level) == IF level >= config.minLvl THEN Capture ELSE "forward"

(* What the bridge may do with a line of the standard logger.  slog and zap *)
(* give it level Info.  A zerolog.Logger gives it none, and decodePayload,  *)
(* which finds no level field, takes the zero value, which is DebugLevel; a *)
(* Writer that is the output itself gets the bare line, which decodePayload *)
(* refuses, and passes it on.                                               *)
PrintLevel == IF config.kind = "zerolog" THEN Debug ELSE Info

PrintHandled ==
  IF config.kind = "zerolog" THEN {Handled(PrintLevel), "forward"}
  ELSE IF Enabled(PrintLevel) THEN {Handled(PrintLevel)} ELSE {"unlock"}

(* slog: the logger asks Enabled, then calls Handle. *)
SlogLogs(c, level) ==
  /\ config.kind = "slog" /\ pc[c] = "idle"
  /\ Enabled(level)
  /\ Goto(c, Handled(level))
  /\ UNCHANGED <<config, queue, outMu, resume>>

(* zap: Check adds the core, and Write is called for it. *)
ZapWrites(c, level) ==
  /\ config.kind = "zap" /\ pc[c] = "idle"
  /\ Enabled(level)
  /\ Goto(c, Handled(level))
  /\ UNCHANGED <<config, queue, outMu, resume>>

(* What decodePayload finds in a zerolog event: the level it names, Debug,  *)
(* the zero value, if it names none, NoLevel if parseLevel does not know    *)
(* the name; or that it is no JSON object.                                  *)
NoObject == -1
Decoded == Levels \union {NoLevel, NoObject}

(* zerolog: Write, which is without a level, and WriteLevel. *)
ZerologWrites(c, level, decoded) ==
  /\ config.kind = "zerolog" /\ pc[c] = "idle"
  /\ \/ /\ decoded = NoObject
        /\ Goto(c, "forward")
     \/ /\ decoded # NoObject
        /\ Goto(c, Handled(IF level = NoLevel THEN decoded ELSE level))
  /\ UNCHANGED <<config, queue, outMu, resume>>

(* The wrapped logger handles the record and the call returns. *)
Forwards(g) ==
  /\ pc[g] = "forward"
  /\ Goto(g, IF outMu = g THEN "unlock" ELSE "idle")
  /\ UNCHANGED <<config, queue, outMu, resume>>

-----------------------------------------------------------------------------
(* The standard logger (external). *)

Prints(c) ==
  /\ pc[c] = "idle"
  /\ Goto(c, "lock")
  /\ resume' = [resume EXCEPT ![c] = "idle"]
  /\ UNCHANGED <<config, queue, outMu>>

TakesOutMu(g) ==
  /\ pc[g] = "lock" /\ outMu = None
  /\ outMu' = g
  /\ \E label \in PrintHandled : Goto(g, label)
  /\ UNCHANGED <<config, queue, resume>>

PrintReturns(g) ==
  /\ pc[g] = "unlock"
  /\ outMu' = None
  /\ Goto(g, resume[g])
  /\ UNCHANGED <<config, queue, resume>>

-----------------------------------------------------------------------------
(* The provider. *)

(* Where a call of CaptureEvent goes on: to the record's way forward, or,   *)
(* on the worker outside of Printf, to the next item.                       *)
AfterCapture(g) == IF g = Worker /\ outMu # Worker THEN "idle" ELSE "forward"

(* A mutant: the report is printed even if there is a handler for it. *)
ReportsAlways(g) ==
  /\ Goto(g, "lock")
  /\ resume' = [resume EXCEPT ![g] = IF outMu = g THEN @ ELSE AfterCapture(g)]

(* The end of handleTransportResult and handleDroppedEvent: the failure     *)
(* handler, if there is one, or log.Printf.                                 *)
Reports(g) ==
  IF config.quiet
    THEN Goto(g, AfterCapture(g)) /\ UNCHANGED resume
    ELSE /\ Goto(g, "lock")
         /\ resume' = [resume EXCEPT ![g] = IF outMu = g THEN @ ELSE AfterCapture(g)]

(* preparePayload: a hook that says no. *)
Discards(g) ==
  /\ pc[g] = "enqueue"
  /\ Goto(g, AfterCapture(g))
  /\ UNCHANGED <<config, queue, outMu, resume>>

Enqueues(g) ==
  /\ pc[g] = "enqueue" /\ queue < QueueSize
  /\ queue' = queue + 1
  /\ Goto(g, AfterCapture(g))
  /\ UNCHANGED <<config, outMu, resume>>

Drops(g) ==
  /\ pc[g] = "enqueue" /\ queue = QueueSize
  /\ Reports(g)
  /\ UNCHANGED <<config, queue, outMu>>

WorkerReceives ==
  /\ config.async /\ pc[Worker] = "idle" /\ queue > 0
  /\ queue' = queue - 1
  /\ Goto(Worker, "prepared")
  /\ UNCHANGED <<config, outMu, resume>>

(* The ticker finds a partial batch. *)
Tick ==
  /\ config.async /\ pc[Worker] = "idle"
  /\ Goto(Worker, "send")
  /\ UNCHANGED <<config, queue, outMu, resume>>

(* capturePrepared: the payload stays in its buffer, or fills a batch. *)
Prepares(g) ==
  /\ pc[g] = "prepared"
  /\ \/ Goto(g, AfterCapture(g))
     \/ Goto(g, "send")
  /\ UNCHANGED <<config, queue, outMu, resume>>

(* The transport call returns and handleTransportResult looks at it. *)
SendReturns(g) ==
  /\ pc[g] = "send"
  /\ \/ Goto(g, AfterCapture(g)) /\ UNCHANGED resume
     \/ Reports(g)
  /\ UNCHANGED <<config, queue, outMu>>

-----------------------------------------------------------------------------
Step(g) == \/ Forwards(g) \/ PrintReturns(g)
           \/ Discards(g) \/ Enqueues(g) \/ Drops(g)
           \/ Prepares(g) \/ SendReturns(g)

Next ==
  \/ \E c \in Callers :
       \/ \E level \in Levels : SlogLogs(c, level) \/ ZapWrites(c, level)
       \/ \E level \in Levels \union {NoLevel}, decoded \in Decoded :
            ZerologWrites(c, level, decoded)
       \/ Prints(c)
  \/ \E g \in Goroutines : TakesOutMu(g) \/ Step(g)
  \/ WorkerReceives \/ Tick

Spec == Init /\ [][Next]_vars

(***************************************************************************)
(* A goroutine that can run does, the wrapped logger and the transport     *)
(* return, and a mutex of Go is not withheld from a waiter for ever while  *)
(* it keeps becoming free.  The worker is not needed for a capture to      *)
(* return: a full queue drops.                                             *)
(***************************************************************************)
FairSpec ==
  /\ Spec
  /\ \A g \in Goroutines : WF_vars(Step(g)) /\ SF_vars(TakesOutMu(g))

-----------------------------------------------------------------------------
(* Properties. *)

(* The shape of the state. *)
TypeOK ==
  /\ config \in Configs
  /\ queue \in 0..QueueSize
  /\ outMu \in Goroutines \union {None}
  /\ pc \in [Goroutines -> Labels]
  /\ resume \in [Goroutines -> {"idle", "forward"}]

(* With the worker, nobody who logs waits for a goroutine that is in a      *)
(* transport call: the lock of the standard logger is never held over one.  *)
NeverBehindNetwork ==
  config.async =>
    \A g \in Goroutines : pc[g] = "lock" /\ outMu # None => pc[outMu] # "send"

(* What keeps the reports of the provider out of the provider: somebody     *)
(* else takes them, or the bridge does not capture what is printed.         *)
ReportsLeave == config.quiet \/ config.minLvl > PrintLevel

(* Nobody waits for the mutex of the standard logger while holding it, as   *)
(* long as the reports leave the provider.                                  *)
NoSelfWait ==
  ReportsLeave => \A g \in Goroutines : pc[g] = "lock" => outMu # g

(* How many steps a goroutine is from the end of its call at most, inside   *)
(* Printf and outside: a report that is printed comes after the capture or  *)
(* the send it is about, and what is captured inside Printf before its end. *)
StepsToGo(g) ==
  CASE pc[g] = "idle" -> 0
    [] pc[g] = "forward" -> IF outMu = g THEN 4 ELSE 2
    [] pc[g] = "unlock" -> 3
    [] pc[g] \in {"enqueue", "send"} -> IF outMu = g THEN 5 ELSE 8
    [] pc[g] = "prepared" -> IF outMu = g THEN 6 ELSE 9
    [] OTHER -> 7

(* With every step of its own a call comes nearer to its end, whatever it   *)
(* causes to be captured or printed, and no step of another sets it back,   *)
(* as long as the reports leave the provider: what CallsReturn needs besides *)
(* fairness.                                                                *)
CallsWindDown ==
  [][ReportsLeave =>
       \A g \in Goroutines :
         /\ pc[g] # "idle" => StepsToGo(g)' <= StepsToGo(g)
         /\ Step(g) \/ TakesOutMu(g) => StepsToGo(g)' \in 0..(StepsToGo(g) - 1)]_vars

(* Then every call of a logger, and every report of the worker, comes to    *)
(* its end.                                                                 *)
CallsReturn ==
  \A g \in Goroutines : (pc[g] # "idle") ~> (pc[g] = "idle")

(* The README of the SDK, "Runtime defaults", says that slog bridge calls   *)
(* do not block the hot path, and "slog integration" to lower the threshold *)
(* to Info.  So it should not take a failure handler for a caller to get    *)
(* out of its own call.                                                     *)
BridgeCallsDoNotBlock ==
  \A c \in Callers : ~(pc[c] = "lock" /\ outMu = c)
=============================================================================
