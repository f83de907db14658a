--------------------------- MODULE LogBridgeProofs ---------------------------
(***************************************************************************)
(* Theorems of LogBridge, for any number of goroutines, any queue and all  *)
(* configurations.                                                         *)
(***************************************************************************)
EXTENDS LogBridgeInv, TLAPS

USE LogBridgeAssumption

(* What the thresholds of a configuration are compared as. *)
LEMMA ConfigLevels ==
  ASSUME config \in Configs
  PROVE  /\ config.minLvl \in Nat /\ config.nextLvl \in Nat
         /\ config.quiet \in BOOLEAN /\ config.async \in BOOLEAN
BY DEF Config, Levels, Debug, Info, Warn, Error

LEMMA CaptureLabel == Capture \in {"enqueue", "prepared"} /\ (config.async => Capture = "enqueue")
BY DEF Capture

LEMMA HandledLabel ==
  ASSUME NEW level
  PROVE  Handled(level) \in {"forward", Capture}
BY DEF Handled

(* A line of the standard logger: captured only at its level or below. *)
LEMMA PrintHandledLabel ==
  ASSUME config \in Configs
  PROVE  /\ PrintHandled \subseteq {"forward", "unlock", Capture}
         /\ config.minLvl > PrintLevel => PrintHandled \subseteq {"forward", "unlock"}
<1>1. PrintLevel \in Nat
  BY DEF PrintLevel, Debug, Info
<1>2. config.minLvl > PrintLevel => ~(PrintLevel >= config.minLvl)
  BY <1>1, ConfigLevels
<1> QED
  BY <1>2 DEF PrintHandled, Handled

LEMMA AfterCaptureLabel ==
  ASSUME NEW g \in Goroutines
  PROVE  /\ AfterCapture(g) \in {"idle", "forward"}
         /\ outMu = g => AfterCapture(g) = "forward"
BY DEF AfterCapture

LEMMA InitInv == Init => BridgeInv
<1> SUFFICES ASSUME Init PROVE BridgeInv
  OBVIOUS
<1> USE DEF Init
<1>1. \A g \in Goroutines : g # None
  BY DEF Goroutines
<1>2. TypeOK
  BY DEF TypeOK, Labels
<1>3. Held /\ CapturesLeave /\ PrintsPass
  BY <1>1 DEF Held, CapturesLeave, PrintsPass
<1> QED
  BY <1>2, <1>3 DEF BridgeInv

(* A step of one goroutine that leaves the mutex alone, by the place it     *)
(* goes to.                                                                 *)
LEMMA MovesOn ==
  ASSUME BridgeInv, NEW g \in Goroutines, NEW label \in Labels \ {"unlock"},
         Goto(g, label), UNCHANGED <<config, outMu>>,
         queue' \in 0..QueueSize,
         resume' \in [Goroutines -> {"idle", "forward"}],
         outMu = g => /\ label # "idle"
                      /\ config.async => label \notin {"prepared", "send"}
                      /\ config.quiet => label # "lock"
                      /\ config.minLvl > PrintLevel => label = "forward"
  PROVE  BridgeInv'
<1> USE DEF Goto
<1>1. pc \in [Goroutines -> Labels] /\ pc'[g] = label
  BY DEF BridgeInv, TypeOK
<1>2. \A h \in Goroutines \ {g} : pc'[h] = pc[h]
  BY <1>1
<1>3. TypeOK'
  BY <1>1 DEF BridgeInv, TypeOK
<1>4. PrintLevel' = PrintLevel
  BY DEF PrintLevel
<1>5. Held'
  BY <1>1, <1>2 DEF BridgeInv, Held
<1>6. CapturesLeave'
  BY <1>1, <1>2 DEF BridgeInv, CapturesLeave
<1>7. PrintsPass'
  BY <1>1, <1>2, <1>4 DEF BridgeInv, PrintsPass
<1> QED
  BY <1>3, <1>5, <1>6, <1>7 DEF BridgeInv

(* What of BridgeInv a step of one goroutine needs. *)
LEMMA Facts ==
  ASSUME BridgeInv, NEW g \in Goroutines
  PROVE  /\ config \in Configs /\ queue \in 0..QueueSize
         /\ resume \in [Goroutines -> {"idle", "forward"}]
         /\ pc[g] \in Labels
         /\ pc[g] = "idle" => outMu # g
         /\ pc[g] \in {"prepared", "send"} /\ config.async => outMu # g
         /\ outMu = g /\ config.minLvl > PrintLevel => pc[g] \in {"forward", "unlock"}
BY DEF BridgeInv, TypeOK, Held, CapturesLeave, PrintsPass

LEMMA LogsInv ==
  ASSUME BridgeInv, NEW c \in Callers, NEW level,
         pc[c] = "idle", Goto(c, Handled(level)) \/ Goto(c, "forward"),
         UNCHANGED <<config, queue, outMu, resume>>
  PROVE  BridgeInv'
<1>1. PICK label \in {"forward", "enqueue", "prepared"} : Goto(c, label)
  BY HandledLabel, CaptureLabel
<1>2. c \in Goroutines
  BY DEF Goroutines
<1> QED
  BY <1>1, <1>2, Facts, MovesOn DEF Labels

LEMMA PrintsInv ==
  ASSUME BridgeInv, NEW c \in Callers, Prints(c) PROVE BridgeInv'
<1> USE DEF Prints
<1>1. c \in Goroutines
  BY DEF Goroutines
<1>2. resume' \in [Goroutines -> {"idle", "forward"}]
  BY <1>1, Facts
<1> QED
  BY <1>1, <1>2, Facts, MovesOn DEF Labels

LEMMA TakesOutMuInv ==
  ASSUME BridgeInv, NEW g \in Goroutines, TakesOutMu(g) PROVE BridgeInv'
<1> USE DEF TakesOutMu, Goto
<1>1. config \in Configs /\ pc \in [Goroutines -> Labels]
  BY DEF BridgeInv, TypeOK
<1>2. PICK label \in PrintHandled : pc' = [pc EXCEPT ![g] = label]
  OBVIOUS
<1>3. /\ label \in {"forward", "unlock", "enqueue", "prepared"}
      /\ config.async => label # "prepared"
      /\ config.minLvl > PrintLevel => label \in {"forward", "unlock"}
  BY <1>1, PrintHandledLabel, CaptureLabel
<1>4. /\ pc'[g] = label
      /\ \A h \in Goroutines \ {g} : pc'[h] = pc[h] /\ outMu' # h /\ outMu # h
  BY <1>2, <1>1 DEF Goroutines
<1>5. TypeOK'
  BY <1>2, <1>1, <1>3 DEF BridgeInv, TypeOK, Labels
<1>6. Held'
  BY <1>3, <1>4 DEF BridgeInv, Held
<1>7. CapturesLeave'
  BY <1>3, <1>4 DEF CapturesLeave
<1>8. PrintsPass'
  <2>1. PrintLevel' = PrintLevel
    BY DEF PrintLevel
  <2> QED
    BY <1>3, <1>4, <2>1 DEF PrintsPass
<1> QED
  BY <1>5, <1>6, <1>7, <1>8 DEF BridgeInv

LEMMA PrintReturnsInv ==
  ASSUME BridgeInv, NEW g \in Goroutines, PrintReturns(g) PROVE BridgeInv'
<1> USE DEF PrintReturns, Goto
<1>1. /\ pc \in [Goroutines -> Labels]
      /\ resume[g] \in {"idle", "forward"}
      /\ outMu = g
  BY DEF BridgeInv, TypeOK, Held
<1>2. /\ pc'[g] \in {"idle", "forward"}
      /\ \A h \in Goroutines \ {g} : pc'[h] = pc[h]
      /\ \A h \in Goroutines : outMu' # h
  BY <1>1 DEF Goroutines
<1>3. TypeOK'
  BY <1>1 DEF BridgeInv, TypeOK, Labels
<1>4. Held'
  <2> SUFFICES ASSUME NEW h \in Goroutines, pc'[h] = "unlock" PROVE FALSE
    BY <1>2 DEF Held
  <2>1. h # g /\ pc[h] = "unlock"
    BY <1>2
  <2> QED
    BY <1>1, <2>1 DEF BridgeInv, Held
<1>5. CapturesLeave' /\ PrintsPass'
  BY <1>2 DEF CapturesLeave, PrintsPass
<1> QED
  BY <1>3, <1>4, <1>5 DEF BridgeInv

LEMMA ForwardsInv ==
  ASSUME BridgeInv, NEW g \in Goroutines, Forwards(g) PROVE BridgeInv'
<1> USE DEF Forwards
<1>1. CASE outMu # g
  <2>1. Goto(g, "idle")
    BY <1>1
  <2> QED
    BY <1>1, <2>1, Facts, MovesOn DEF Labels
<1>2. CASE outMu = g
  <2> USE <1>2 DEF Goto
  <2>1. pc \in [Goroutines -> Labels]
    BY DEF BridgeInv, TypeOK
  <2>2. /\ pc'[g] = "unlock"
        /\ \A h \in Goroutines \ {g} : pc'[h] = pc[h]
    BY <2>1
  <2>3. TypeOK'
    BY <2>1 DEF BridgeInv, TypeOK, Labels
  <2>4. Held' /\ CapturesLeave'
    BY <2>2 DEF BridgeInv, Held, CapturesLeave
  <2>5. PrintsPass'
    BY <2>2 DEF BridgeInv, PrintsPass, PrintLevel
  <2> QED
    BY <2>3, <2>4, <2>5 DEF BridgeInv
<1> QED
  BY <1>1, <1>2

-----------------------------------------------------------------------------
(* The provider. *)

(* A report is printed by a goroutine that is in a capture or a send, so    *)
(* not by one that holds the mutex, unless reports come back.               *)
LEMMA ReportsInv ==
  ASSUME BridgeInv, NEW g \in Goroutines,
         pc[g] \in {"enqueue", "send"},
         Reports(g), UNCHANGED <<config, queue, outMu>>
  PROVE  BridgeInv'
<1>1. CASE config.quiet
  <2>1. Goto(g, AfterCapture(g)) /\ resume' = resume
    BY <1>1 DEF Reports
  <2> QED
    BY <2>1, Facts, AfterCaptureLabel, MovesOn DEF Labels
<1>2. CASE ~config.quiet
  <2>1. /\ Goto(g, "lock")
        /\ resume' = [resume EXCEPT ![g] = IF outMu = g THEN @ ELSE AfterCapture(g)]
    BY <1>2 DEF Reports
  <2>2. resume' \in [Goroutines -> {"idle", "forward"}]
    BY <2>1, Facts, AfterCaptureLabel
  <2> QED
    BY <1>2, <2>1, <2>2, Facts, MovesOn DEF Labels
<1> QED
  BY <1>1, <1>2

LEMMA CaptureEndsInv ==
  ASSUME BridgeInv, NEW g \in Goroutines,
         pc[g] \in {"enqueue", "prepared", "send"},
         Goto(g, AfterCapture(g)), UNCHANGED <<config, outMu, resume>>,
         queue' \in 0..QueueSize
  PROVE  BridgeInv'
BY Facts, AfterCaptureLabel, MovesOn DEF Labels

LEMMA StepInv ==
  ASSUME BridgeInv, NEW g \in Goroutines, Step(g) PROVE BridgeInv'
<1>1. CASE Discards(g)
  BY <1>1, Facts, CaptureEndsInv DEF Discards
<1>2. CASE Enqueues(g)
  <2>1. queue' \in 0..QueueSize
    BY <1>2, Facts DEF Enqueues
  <2> QED
    BY <1>2, <2>1, CaptureEndsInv DEF Enqueues
<1>3. CASE Drops(g)
  BY <1>3, ReportsInv DEF Drops
<1>4. CASE Prepares(g)
  <2>1. CASE Goto(g, AfterCapture(g))
    BY <1>4, <2>1, Facts, CaptureEndsInv DEF Prepares
  <2>2. CASE Goto(g, "send")
    <3>1. pc[g] = "prepared" /\ UNCHANGED <<config, queue, outMu, resume>>
      BY <1>4 DEF Prepares
    <3> QED
      BY <2>2, <3>1, Facts, MovesOn DEF Labels
  <2> QED
    BY <1>4, <2>1, <2>2 DEF Prepares
<1>5. CASE SendReturns(g)
  <2>1. pc[g] = "send" /\ UNCHANGED <<config, queue, outMu>>
    BY <1>5 DEF SendReturns
  <2>2. CASE Goto(g, AfterCapture(g)) /\ UNCHANGED resume
    BY <2>1, <2>2, Facts, CaptureEndsInv
  <2>3. CASE Reports(g)
    BY <2>1, <2>3, ReportsInv
  <2> QED
    BY <1>5, <2>2, <2>3 DEF SendReturns
<1> QED
  BY <1>1, <1>2, <1>3, <1>4, <1>5, ForwardsInv, PrintReturnsInv DEF Step

LEMMA WorkerInv ==
  ASSUME BridgeInv, WorkerReceives \/ Tick PROVE BridgeInv'
<1>1. Worker \in Goroutines
  BY DEF Goroutines
<1>2. queue' \in 0..QueueSize
  BY <1>1, Facts DEF WorkerReceives, Tick
<1>3. CASE WorkerReceives
  BY <1>1, <1>2, <1>3, Facts, MovesOn DEF WorkerReceives, Labels
<1>4. CASE Tick
  BY <1>1, <1>2, <1>4, Facts, MovesOn DEF Tick, Labels
<1> QED
  BY <1>3, <1>4

LEMMA NextInv == BridgeInv /\ [Next]_vars => BridgeInv'
<1> SUFFICES ASSUME BridgeInv, [Next]_vars PROVE BridgeInv'
  OBVIOUS
<1>1. CASE UNCHANGED vars
  BY <1>1 DEF vars, BridgeInv, TypeOK, Held, CapturesLeave, PrintsPass, PrintLevel
<1>2. ASSUME NEW c \in Callers, NEW level, SlogLogs(c, level) \/ ZapWrites(c, level)
      PROVE  BridgeInv'
  BY <1>2, LogsInv DEF SlogLogs, ZapWrites
<1>3. ASSUME NEW c \in Callers, NEW level, NEW decoded, ZerologWrites(c, level, decoded)
      PROVE  BridgeInv'
  BY <1>3, LogsInv DEF ZerologWrites
<1>4. ASSUME NEW g \in Goroutines, TakesOutMu(g) \/ Step(g) PROVE BridgeInv'
  BY <1>4, TakesOutMuInv, StepInv
<1> QED
  BY <1>1, <1>2, <1>3, <1>4, PrintsInv, WorkerInv DEF Next

(* The inductive invariant of the bridges. *)
THEOREM Invariance == Spec => []BridgeInv
BY InitInv, NextInv, PTL DEF Spec

(* The state is well formed; the queue keeps its bound.                     *)
THEOREM TypeCorrect == Spec => []TypeOK
<1>1. BridgeInv => TypeOK
  BY DEF BridgeInv
<1> QED
  BY <1>1, Invariance, PTL

(* Nobody who logs waits for the network, however loggers are wired.        *)
THEOREM LoggersStayOffTheNetwork == Spec => []NeverBehindNetwork
<1>1. BridgeInv => NeverBehindNetwork
  <2> SUFFICES ASSUME BridgeInv, config.async, outMu # None, pc[outMu] = "send" PROVE FALSE
    BY DEF NeverBehindNetwork
  <2>1. outMu \in Goroutines
    BY DEF BridgeInv, TypeOK
  <2> QED
    BY <2>1 DEF BridgeInv, CapturesLeave
<1> QED
  BY <1>1, Invariance, PTL

(* No goroutine waits for itself while the reports leave the provider.      *)
THEOREM ReportsDoNotComeBack == Spec => []NoSelfWait
<1>1. BridgeInv => NoSelfWait
  BY DEF BridgeInv, PrintsPass, NoSelfWait, ReportsLeave
<1> QED
  BY <1>1, Invariance, PTL

-----------------------------------------------------------------------------
(* Calls wind down. *)

(* A step that leaves the mutex alone, by where it goes. *)
LEMMA WindsOn ==
  ASSUME BridgeInv, NEW g \in Goroutines, NEW label, Goto(g, label), outMu' = outMu
  PROVE  /\ pc[g] = "enqueue" /\ label = "forward" => StepsToGo(g)' \in 0..(StepsToGo(g) - 1)
         /\ pc[g] = "send" /\ label = "forward" => StepsToGo(g)' \in 0..(StepsToGo(g) - 1)
         /\ pc[g] = "prepared" /\ label \in {"forward", "send"} =>
              StepsToGo(g)' \in 0..(StepsToGo(g) - 1)
         /\ pc[g] # "idle" /\ label = "idle" => StepsToGo(g)' \in 0..(StepsToGo(g) - 1)
         /\ pc[g] \in {"enqueue", "send"} /\ outMu # g /\ label = "lock" =>
              StepsToGo(g)' \in 0..(StepsToGo(g) - 1)
         /\ pc[g] = "forward" /\ outMu = g /\ label = "unlock" =>
              StepsToGo(g)' \in 0..(StepsToGo(g) - 1)
<1>1. pc'[g] = label
  BY DEF BridgeInv, TypeOK, Goto
<1> QED
  BY <1>1 DEF StepsToGo

(* A capture or a send ends, with or without a report, outside of Printf or *)
(* with the report left to the failure handler.                             *)
LEMMA ReportsWindDown ==
  ASSUME BridgeInv, ReportsLeave, NEW g \in Goroutines, pc[g] \in {"enqueue", "send"},
         Goto(g, AfterCapture(g)) \/ Reports(g), outMu' = outMu
  PROVE  StepsToGo(g)' \in 0..(StepsToGo(g) - 1)
<1>1. CASE Goto(g, AfterCapture(g))
  BY <1>1, AfterCaptureLabel, WindsOn
<1>2. CASE Goto(g, "lock")
  <2>1. config.quiet \/ outMu # g
    BY Facts DEF ReportsLeave
  <2>2. CASE config.quiet /\ outMu = g
    BY <1>1, <2>2 DEF Reports, BridgeInv, PrintsPass
  <2>3. CASE outMu # g
    BY <1>2, <2>3, WindsOn
  <2> QED
    BY <2>1, <2>2, <2>3
<1> QED
  BY <1>1, <1>2 DEF Reports

LEMMA OwnStepWindsDown ==
  ASSUME BridgeInv, ReportsLeave, NEW g \in Goroutines, Step(g) \/ TakesOutMu(g)
  PROVE  StepsToGo(g)' \in 0..(StepsToGo(g) - 1)
<1>1. CASE Forwards(g)
  BY <1>1, WindsOn DEF Forwards
<1>2. CASE PrintReturns(g)
  <2>1. pc[g] = "unlock" /\ pc'[g] \in {"idle", "forward"} /\ outMu' # g
    BY <1>2, Facts DEF PrintReturns, Goto, BridgeInv, TypeOK, Goroutines
  <2> QED
    BY <2>1 DEF StepsToGo
<1>3. CASE Discards(g) \/ Enqueues(g) \/ Drops(g) \/ SendReturns(g)
  <2>1. /\ pc[g] \in {"enqueue", "send"} /\ outMu' = outMu
        /\ Goto(g, AfterCapture(g)) \/ Reports(g)
    BY <1>3 DEF Discards, Enqueues, Drops, SendReturns
  <2> QED
    BY <2>1, ReportsWindDown
<1>4. CASE Prepares(g)
  BY <1>4, AfterCaptureLabel, WindsOn DEF Prepares
<1>5. CASE TakesOutMu(g)
  <2>1. PrintHandled \subseteq {"forward", "unlock", "enqueue", "prepared"}
    BY Facts, PrintHandledLabel, CaptureLabel
  <2>2. pc[g] = "lock" /\ outMu' = g /\ pc'[g] \in PrintHandled
    BY <1>5 DEF TakesOutMu, Goto, BridgeInv, TypeOK
  <2>3. StepsToGo(g) = 7
    BY <2>2 DEF StepsToGo
  <2> HIDE DEF PrintHandled
  <2>4. StepsToGo(g)' \in {4, 3, 5, 6}
    BY <2>1, <2>2 DEF StepsToGo
  <2> QED
    BY <2>3, <2>4
<1> QED
  BY <1>1, <1>2, <1>3, <1>4, <1>5 DEF Step

(* What another goroutine does leaves a call where it is. *)
LEMMA OthersLeave ==
  ASSUME BridgeInv, [Next]_vars, NEW g \in Goroutines, pc[g] # "idle",
         ~(Step(g) \/ TakesOutMu(g))
  PROVE  pc'[g] = pc[g] /\ (outMu' = g <=> outMu = g)
<1>1. pc \in [Goroutines -> Labels]
  BY DEF BridgeInv, TypeOK
<1>2. ASSUME NEW c \in Goroutines, NEW label, c # g, Goto(c, label)
      PROVE  pc'[g] = pc[g]
  BY <1>1, <1>2 DEF Goto
<1>3. ASSUME NEW c \in Callers, NEW level, SlogLogs(c, level) \/ ZapWrites(c, level)
      PROVE  pc'[g] = pc[g] /\ outMu' = outMu
  BY <1>2, <1>3 DEF SlogLogs, ZapWrites, Goroutines
<1>4. ASSUME NEW c \in Callers, NEW level, NEW decoded, ZerologWrites(c, level, decoded)
      PROVE  pc'[g] = pc[g] /\ outMu' = outMu
  BY <1>2, <1>4 DEF ZerologWrites, Goroutines
<1>5. ASSUME NEW c \in Callers, Prints(c)
      PROVE  pc'[g] = pc[g] /\ outMu' = outMu
  BY <1>2, <1>5 DEF Prints, Goroutines
<1>6. CASE WorkerReceives \/ Tick
  BY <1>2, <1>6 DEF WorkerReceives, Tick, Goroutines
<1>7. ASSUME NEW h \in Goroutines, TakesOutMu(h)
      PROVE  pc'[g] = pc[g] /\ (outMu' = g <=> outMu = g)
  <2>1. h # g /\ outMu = None /\ outMu' = h
    BY <1>7 DEF TakesOutMu
  <2> QED
    BY <1>2, <1>7, <2>1 DEF TakesOutMu, Goroutines
<1>8. ASSUME NEW h \in Goroutines, Step(h)
      PROVE  pc'[g] = pc[g] /\ (outMu' = g <=> outMu = g)
  <2>1. h # g
    BY <1>8
  <2>2. CASE PrintReturns(h)
    <3>1. outMu = h /\ outMu' = None
      BY <2>2 DEF PrintReturns, BridgeInv, Held
    <3> QED
      BY <1>2, <2>1, <2>2, <3>1 DEF PrintReturns, Goroutines
  <2>3. CASE Reports(h) /\ outMu' = outMu
    BY <1>2, <2>1, <2>3 DEF Reports
  <2>4. CASE Forwards(h) \/ Discards(h) \/ Enqueues(h) \/ Prepares(h)
    BY <1>2, <2>1, <2>4 DEF Forwards, Discards, Enqueues, Prepares
  <2>5. CASE Drops(h) \/ SendReturns(h)
    BY <1>2, <2>1, <2>3, <2>5 DEF Drops, SendReturns
  <2> QED
    BY <1>8, <2>2, <2>4, <2>5 DEF Step
<1> QED
  BY <1>3, <1>4, <1>5, <1>6, <1>7, <1>8 DEF Next, vars

(* While the reports leave the provider every call of a logger has a bound  *)
(* on its steps, however records, captures and reports are nested: with     *)
(* fairness, CallsReturn.                                                   *)
THEOREM CallsComeToAnEnd == Spec => CallsWindDown
<1>1. ASSUME BridgeInv, [Next]_vars, ReportsLeave, NEW g \in Goroutines
      PROVE  /\ pc[g] # "idle" => StepsToGo(g)' <= StepsToGo(g)
             /\ Step(g) \/ TakesOutMu(g) => StepsToGo(g)' \in 0..(StepsToGo(g) - 1)
  <2>1. StepsToGo(g) \in Nat
    BY DEF StepsToGo
  <2>2. CASE Step(g) \/ TakesOutMu(g)
    BY <1>1, <2>1, <2>2, OwnStepWindsDown
  <2>3. CASE ~(Step(g) \/ TakesOutMu(g))
    <3> SUFFICES ASSUME pc[g] # "idle" PROVE StepsToGo(g)' <= StepsToGo(g)
      BY <2>3
    <3>1. pc'[g] = pc[g] /\ (outMu' = g <=> outMu = g)
      BY <1>1, <2>3, OthersLeave
    <3>2. StepsToGo(g)' = StepsToGo(g)
      BY <3>1 DEF StepsToGo
    <3> QED
      BY <2>1, <3>2
  <2> QED
    BY <2>2, <2>3
<1>2. BridgeInv /\ [Next]_vars =>
        [ReportsLeave =>
           \A g \in Goroutines :
             /\ pc[g] # "idle" => StepsToGo(g)' <= StepsToGo(g)
             /\ Step(g) \/ TakesOutMu(g) => StepsToGo(g)' \in 0..(StepsToGo(g) - 1)]_vars
  BY <1>1
<1> QED
  BY <1>2, Invariance, PTL DEF Spec, CallsWindDown
=============================================================================
