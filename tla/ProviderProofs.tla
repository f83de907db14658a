--------------------------- MODULE ProviderProofs ---------------------------
(***************************************************************************)
(* Proofs that the properties of Provider hold, and that it implements     *)
(* EventLedger, for every set of events, callers and flushers, every batch *)
(* size and every queue size.                                              *)
(***************************************************************************)
EXTENDS ProviderInv, FiniteSetTheorems, SequenceTheorems, TLAPS

-----------------------------------------------------------------------------
(* The range of a sequence under the operations of a buffer or a channel.  *)

LEMMA RangeEmpty == Range(<<>>) = {}
BY DEF Range

LEMMA RangeSingle ==
  ASSUME NEW x
  PROVE  Range(<<x>>) = {x}
BY DEF Range

LEMMA RangeAppend ==
  ASSUME NEW S, NEW s \in Seq(S), NEW x \in S
  PROVE  Range(Append(s, x)) = Range(s) \union {x}
<1>1. /\ DOMAIN Append(s, x) = 1..(Len(s) + 1)
      /\ \A i \in 1..Len(s) : Append(s, x)[i] = s[i]
      /\ Append(s, x)[Len(s) + 1] = x
  OBVIOUS
<1>2. DOMAIN s = 1..Len(s) /\ Len(s) \in Nat
  OBVIOUS
<1>3. \A i \in 1..(Len(s) + 1) : i \in 1..Len(s) \/ i = Len(s) + 1
  BY <1>2
<1>4. 1..Len(s) \subseteq 1..(Len(s) + 1) /\ Len(s) + 1 \in 1..(Len(s) + 1)
  BY <1>2
<1> QED
  BY <1>1, <1>2, <1>3, <1>4 DEF Range

LEMMA TailOfOne ==
  ASSUME NEW S, NEW s \in Seq(S), Len(s) = 1
  PROVE  Tail(s) = <<>>
<1>1. s # <<>>
  BY EmptySeq
<1>2. Tail(s) \in Seq(S) /\ Len(Tail(s)) = 0
  BY <1>1, HeadTailProperties
<1> QED
  BY <1>2, EmptySeq

LEMMA RangeHeadTail ==
  ASSUME NEW S, NEW s \in Seq(S), s # <<>>
  PROVE  Range(s) = {Head(s)} \union Range(Tail(s))
<1>1. ASSUME NEW i \in 1..Len(s)
      PROVE  s[i] = Head(s) \/ s[i] \in Range(Tail(s))
  <2>1. CASE i = 1
    BY <2>1
  <2>2. CASE i # 1
    <3>1. i - 1 \in 1..Len(Tail(s)) /\ Tail(s)[i - 1] = s[i]
      BY <2>2
    <3> QED
      BY <3>1 DEF Range
  <2> QED
    BY <2>1, <2>2
<1>2. ASSUME NEW i \in 1..Len(Tail(s))
      PROVE  i + 1 \in 1..Len(s) /\ Tail(s)[i] = s[i + 1]
  OBVIOUS
<1>3. 1 \in 1..Len(s) /\ Head(s) = s[1]
  OBVIOUS
<1> QED
  BY <1>1, <1>2, <1>3 DEF Range

-----------------------------------------------------------------------------
(* The initial states. *)

LEMMA InitIndInv == Init => IndInv
<1> SUFFICES ASSUME Init PROVE IndInv
  OBVIOUS
<1> USE ProviderAssumption DEF Init
<1>1. TypeOK
  BY DEF TypeOK, Labels
<1>2. Control
  BY DEF Control, CallerLabels, FlusherLabels, WorkerLabels, Goroutines
<1>3. Agenda
  BY DEF Agenda
<1>4. Enqueueing = {}
  BY DEF Enqueueing, Goroutines
<1>5. PendingCounts
  BY <1>4, FS_EmptySet DEF PendingCounts, Holding, Goroutines
<1>6. \A t \in BatchTypes : Overdue(t) = {}
  BY DEF Overdue, Appenders, Goroutines
<1>7. IsFiniteSet(Appenders) /\ Cardinality(Appenders) \in Nat
  BY FS_Singleton, FS_CardinalityType DEF Appenders
<1>8. BatchBound
  <2>1. Cardinality({}) = 0
    BY FS_EmptySet
  <2>2. \A t \in BatchTypes : Len(buffers[t]) = 0
    OBVIOUS
  <2>3. \A g \in Goroutines : Len(sending[g]) = 0
    OBVIOUS
  <2>4. BatchSize \in Nat \ {0}
    OBVIOUS
  <2>5. \A t \in BatchTypes : Len(buffers[t]) <= BatchSize - 1 + Cardinality(Overdue(t))
    <3> SUFFICES ASSUME NEW t \in BatchTypes
                 PROVE  Len(buffers[t]) <= BatchSize - 1 + Cardinality(Overdue(t))
      OBVIOUS
    <3>1. Len(buffers[t]) = 0 /\ Cardinality(Overdue(t)) = 0
      BY <1>6, <2>1, <2>2
    <3> QED
      BY <2>4, <3>1
  <2>6. \A g \in Goroutines : Len(sending[g]) <= MaxBatch
    BY <1>7, <2>3, <2>4 DEF MaxBatch
  <2> QED
    BY <2>5, <2>6 DEF BatchBound
<1>9. BeforeIsPast /\ FlushBarrier /\ Located /\ StillToTake
  BY DEF BeforeIsPast, FlushBarrier, Located, StillToTake, Waited, Goroutines
<1> QED
  BY <1>1, <1>2, <1>3, <1>5, <1>8, <1>9 DEF IndInv

-----------------------------------------------------------------------------
(* Type correctness.  It needs the rest of the invariant in two places: the *)
(* wait group does not go below zero, and flushType has a type to flush.    *)

LEMMA PendingIsPositive ==
  ASSUME TypeOK, Control, PendingCounts
  PROVE  /\ \A c \in Callers : pc[c] = "select" => pending >= 1
         /\ cur[Worker] # None => pending >= 1
<1>1. IsFiniteSet(Enqueueing) /\ Cardinality(Enqueueing) \in Nat
  BY ProviderAssumption, FS_Subset, FS_CardinalityType DEF Enqueueing
<1>2. Len(queue) \in Nat
  BY LenProperties DEF TypeOK
<1>3. ASSUME NEW c \in Callers, pc[c] = "select"
      PROVE  async /\ Cardinality(Enqueueing) # 0
  BY <1>1, <1>3, FS_EmptySet DEF Control, CallerLabels, Enqueueing
<1>4. cur[Worker] # None => async
  BY DEF Control, WorkerLabels
<1>5. pending \in Nat
  BY DEF TypeOK
<1>6. ASSUME NEW c \in Callers, pc[c] = "select"
      PROVE  pending >= 1
  BY <1>1, <1>2, <1>3, <1>6 DEF PendingCounts, Holding
<1>7. ASSUME cur[Worker] # None
      PROVE  pending >= 1
  BY <1>1, <1>2, <1>4, <1>7 DEF PendingCounts, Holding
<1> QED
  BY <1>6, <1>7

(* No step changes the mode the provider was built in. *)
LEMMA ModeStays ==
  ASSUME [Next]_vars
  PROVE  async' = async
<1>1. ASSUME NEW c \in Callers, CallerStep(c)
      PROVE  async' = async
  BY <1>1 DEF CallerStep, EnqueueSends, EnqueueDrops, CaptureReturns
<1>2. ASSUME NEW c \in Callers, NEW e \in Events, CaptureDiscards(c, e) \/ CaptureBegins(c, e)
      PROVE  async' = async
  BY <1>2 DEF CaptureDiscards, CaptureBegins
<1>3. CASE WorkerReceives \/ Tick \/ WorkerLoops
  BY <1>3 DEF WorkerReceives, Tick, WorkerLoops
<1>4. ASSUME NEW g \in Goroutines, SendPath(g)
      PROVE  async' = async
  BY <1>4 DEF SendPath, SendsOne, Buffers, TakesBatch, TransportReturns
<1>5. ASSUME NEW f \in Flushers, FlusherStep(f) \/ FlushBegins(f) \/ FlushGivesUp(f)
      PROVE  async' = async
  BY <1>5 DEF FlushBegins, FlusherStep, FlushGivesUp, WaitEnds, FlushProceeds,
              FlushReturns
<1>6. CASE UNCHANGED vars
  BY <1>6 DEF vars
<1> QED
  BY <1>1, <1>2, <1>3, <1>4, <1>5, <1>6 DEF Next

LEMMA StepTypeOK ==
  ASSUME TypeOK, Control, Agenda, PendingCounts, [Next]_vars
  PROVE  TypeOK'
<1>0. /\ \A c \in Callers : pc[c] = "select" => pending >= 1
      /\ cur[Worker] # None => pending >= 1
  BY PendingIsPositive
<1> USE ProviderAssumption DEF TypeOK, Goto, Goroutines
<1>1. ASSUME NEW c \in Callers, NEW e \in Events, CaptureDiscards(c, e)
      PROVE  TypeOK'
  BY <1>1 DEF CaptureDiscards
<1>2. ASSUME NEW c \in Callers, NEW e \in Events, CaptureBegins(c, e)
      PROVE  TypeOK'
  <2>1. outcome' \in [Events -> {"new", "discarded", "accepted", "dropped",
                                "delivered", "failed"}]
    BY <1>2 DEF CaptureBegins
  <2>2. pending' \in Nat /\ pc' \in [Goroutines -> Labels]
    <3>1. CASE pending' = pending + 1 /\ Goto(c, "select")
      BY <3>1 DEF Labels
    <3>2. CASE Goto(c, "prepared") /\ UNCHANGED pending
      BY <3>2 DEF Labels
    <3> QED
      BY <1>2, <3>1, <3>2 DEF CaptureBegins
  <2> QED
    BY <1>2, <2>1, <2>2 DEF CaptureBegins
<1>3. ASSUME NEW c \in Callers, EnqueueSends(c)
      PROVE  TypeOK'
  BY <1>3 DEF EnqueueSends, Labels, Control
<1>4. ASSUME NEW c \in Callers, EnqueueDrops(c)
      PROVE  TypeOK'
  <2>1. pending' \in Nat
    BY <1>0, <1>4 DEF EnqueueDrops
  <2>2. outcome' \in [Events -> {"new", "discarded", "accepted", "dropped",
                                "delivered", "failed"}]
    BY <1>4 DEF EnqueueDrops
  <2> QED
    BY <1>4, <2>1, <2>2 DEF EnqueueDrops, Labels
<1>5. ASSUME NEW c \in Callers, CaptureReturns(c)
      PROVE  TypeOK'
  BY <1>5 DEF CaptureReturns, Labels
<1>6. CASE WorkerReceives
  BY <1>6 DEF WorkerReceives, Labels
<1>7. CASE Tick
  BY <1>7 DEF Tick, Labels, BatchTypes
<1>8. CASE WorkerLoops
  BY <1>0, <1>8 DEF WorkerLoops, Labels
<1>9. ASSUME NEW g \in Goroutines, SendsOne(g)
      PROVE  TypeOK'
  <2>1. cur[g] \in Events
    BY <1>9 DEF SendsOne, Control, CallerLabels, FlusherLabels
  <2>2. <<cur[g]>> \in Seq(Events)
    BY <2>1
  <2>3. sending' \in [Goroutines -> Seq(Events)]
    BY <1>9, <2>2 DEF SendsOne
  <2> QED
    BY <1>9, <2>3 DEF SendsOne, Labels
<1>10. ASSUME NEW g \in Goroutines, Buffers(g)
       PROVE  TypeOK'
  <2> DEFINE t == TypeOf[cur[g]]
             kept == Append(buffers[t], cur[g])
  <2>1. cur[g] \in Events
    BY <1>10 DEF Buffers, Control, CallerLabels, FlusherLabels
  <2>2. t \in BatchTypes
    BY <1>10, <2>1 DEF Buffers, Immediate, EventTypes
  <2>3. kept \in Seq(Events)
    BY <2>1, <2>2
  <2>4. buffers' = [buffers EXCEPT ![t] = kept]
    BY <1>10 DEF Buffers
  <2>5. buffers' \in [BatchTypes -> Seq(Events)]
    BY <2>3, <2>4
  <2>6. /\ pc' \in [Goroutines -> Labels]
        /\ todo' \in [Goroutines -> Seq(BatchTypes)]
    <3>1. <<t>> \in Seq(BatchTypes)
      BY <2>2
    <3>2. CASE todo' = [todo EXCEPT ![g] = <<t>>] /\ Goto(g, "flush")
      BY <3>1, <3>2 DEF Labels
    <3>3. CASE Goto(g, "return") /\ UNCHANGED todo
      BY <3>3 DEF Labels
    <3> QED
      BY <1>10, <3>2, <3>3 DEF Buffers
  <2> QED
    BY <1>10, <2>5, <2>6 DEF Buffers
<1>11. ASSUME NEW g \in Goroutines, TakesBatch(g)
       PROVE  TypeOK'
  <2> DEFINE t == Head(todo[g])
  <2>1. todo[g] \in Seq(BatchTypes) /\ todo[g] # <<>>
    BY <1>11 DEF TakesBatch, Agenda
  <2>2. t \in BatchTypes /\ Tail(todo[g]) \in Seq(BatchTypes)
    BY <2>1
  <2>3. buffers' = [buffers EXCEPT ![t] = <<>>]
    BY <1>11 DEF TakesBatch
  <2>4. buffers' \in [BatchTypes -> Seq(Events)]
    BY <2>2, <2>3
  <2>5. /\ sending' \in [Goroutines -> Seq(Events)]
        /\ todo' \in [Goroutines -> Seq(BatchTypes)]
    BY <1>11, <2>2 DEF TakesBatch
  <2>6. pc' \in [Goroutines -> Labels]
    BY <1>11 DEF TakesBatch, Labels, Rest
  <2> QED
    BY <1>11, <2>4, <2>5, <2>6 DEF TakesBatch
<1>12. ASSUME NEW g \in Goroutines, TransportReturns(g)
       PROVE  TypeOK'
  BY <1>12 DEF TransportReturns, Labels, Rest
<1>13. ASSUME NEW f \in Flushers, FlushBegins(f)
       PROVE  TypeOK'
  <2>1. before' \in [Flushers -> SUBSET Events]
    BY <1>13 DEF FlushBegins, Captured
  <2>2. <<"errors", "logs">> \in Seq(BatchTypes)
    BY DEF BatchTypes
  <2>3. /\ todo' \in [Goroutines -> Seq(BatchTypes)]
        /\ pc' \in [Goroutines -> Labels]
    <3>1. CASE Goto(f, "wait") /\ UNCHANGED todo
      BY <3>1 DEF Labels
    <3>2. CASE /\ todo' = [todo EXCEPT ![f] = <<"errors", "logs">>]
               /\ Goto(f, "flush")
      BY <2>2, <3>2 DEF Labels
    <3> QED
      BY <1>13, <3>1, <3>2 DEF FlushBegins
  <2> QED
    BY <1>13, <2>1, <2>3 DEF FlushBegins
<1>14. ASSUME NEW f \in Flushers, FlusherStep(f) \/ FlushGivesUp(f)
       PROVE  TypeOK'
  <2>1. CASE WaitEnds(f)
    BY <2>1 DEF WaitEnds, Labels
  <2>2. CASE FlushProceeds(f)
    BY <2>2 DEF FlushProceeds, Labels, BatchTypes
  <2>3. CASE FlushReturns(f)
    BY <2>3 DEF FlushReturns, Labels
  <2>4. CASE FlushGivesUp(f)
    BY <2>4 DEF FlushGivesUp, Labels
  <2> QED
    BY <1>14, <2>1, <2>2, <2>3, <2>4 DEF FlusherStep
<1>15. CASE UNCHANGED vars
  BY <1>15 DEF vars
<1> QED
  BY <1>1, <1>2, <1>3, <1>4, <1>5, <1>6, <1>7, <1>8, <1>9, <1>10, <1>11, <1>12,
     <1>13, <1>14, <1>15 DEF Next, CallerStep, SendPath

-----------------------------------------------------------------------------
(* Where a goroutine stands, and what it still has to do. *)

LEMMA StepControl ==
  ASSUME TypeOK, Control, Agenda, [Next]_vars
  PROVE  Control'
<1>0. async' = async
  BY ModeStays
<1> USE ProviderAssumption DEF TypeOK, Control, CallerLabels, FlusherLabels,
        WorkerLabels, Goto, Goroutines
<1>1. ASSUME NEW c \in Callers, NEW e \in Events, CaptureDiscards(c, e)
      PROVE  Control'
  BY <1>1 DEF CaptureDiscards
<1>2. ASSUME NEW c \in Callers, NEW e \in Events, CaptureBegins(c, e)
      PROVE  Control'
  <2>1. CASE async /\ Goto(c, "select")
    BY <1>2, <2>1 DEF CaptureBegins
  <2>2. CASE ~async /\ Goto(c, "prepared")
    BY <1>2, <2>2 DEF CaptureBegins
  <2> QED
    BY <1>2, <2>1, <2>2 DEF CaptureBegins
<1>3. ASSUME NEW c \in Callers, CallerStep(c)
      PROVE  Control'
  <2>1. CASE EnqueueSends(c)
    BY <2>1 DEF EnqueueSends
  <2>2. CASE EnqueueDrops(c)
    BY <2>2 DEF EnqueueDrops
  <2>3. CASE CaptureReturns(c)
    BY <2>3 DEF CaptureReturns
  <2> QED
    BY <1>3, <2>1, <2>2, <2>3 DEF CallerStep
<1>4. CASE WorkerReceives
  <2>1. Head(queue) \in Events
    BY <1>4 DEF WorkerReceives
  <2> QED
    BY <1>4, <2>1 DEF WorkerReceives
<1>5. CASE Tick
  BY <1>5 DEF Tick
<1>6. CASE WorkerLoops
  BY <1>6 DEF WorkerLoops
<1>7. ASSUME NEW g \in Goroutines, SendPath(g)
      PROVE  Control'
  <2>1. CASE SendsOne(g)
    BY <2>1 DEF SendsOne
  <2>2. CASE Buffers(g)
    BY <2>2 DEF Buffers
  <2>3. CASE TakesBatch(g)
    BY <2>3 DEF TakesBatch, Rest
  <2>4. CASE TransportReturns(g)
    BY <2>4 DEF TransportReturns, Rest
  <2> QED
    BY <1>7, <2>1, <2>2, <2>3, <2>4 DEF SendPath
<1>8. ASSUME NEW f \in Flushers, FlushBegins(f) \/ FlusherStep(f) \/ FlushGivesUp(f)
      PROVE  Control'
  <2>1. CASE FlushBegins(f)
    BY <2>1 DEF FlushBegins
  <2>2. CASE WaitEnds(f) \/ FlushProceeds(f)
    BY <2>2 DEF WaitEnds, FlushProceeds
  <2>3. CASE FlushReturns(f) \/ FlushGivesUp(f)
    BY <1>0, <2>3 DEF FlushReturns, FlushGivesUp
  <2> QED
    BY <1>8, <2>1, <2>2, <2>3 DEF FlusherStep
<1>9. CASE UNCHANGED vars
  BY <1>9 DEF vars
<1> QED
  BY <1>1, <1>2, <1>3, <1>4, <1>5, <1>6, <1>7, <1>8, <1>9 DEF Next

LEMMA StepAgenda ==
  ASSUME TypeOK, Control, Agenda, [Next]_vars
  PROVE  Agenda'
<1> USE ProviderAssumption DEF TypeOK, Agenda, Goto, Goroutines
<1>1. ASSUME NEW c \in Callers, NEW e \in Events, CaptureDiscards(c, e)
      PROVE  Agenda'
  BY <1>1 DEF CaptureDiscards
<1>2. ASSUME NEW c \in Callers, NEW e \in Events, CaptureBegins(c, e)
      PROVE  Agenda'
  <2>1. CASE async /\ Goto(c, "select")
    BY <1>2, <2>1 DEF CaptureBegins
  <2>2. CASE ~async /\ Goto(c, "prepared")
    BY <1>2, <2>2 DEF CaptureBegins
  <2> QED
    BY <1>2, <2>1, <2>2 DEF CaptureBegins
<1>3. ASSUME NEW c \in Callers, CallerStep(c)
      PROVE  Agenda'
  BY <1>3 DEF CallerStep, EnqueueSends, EnqueueDrops, CaptureReturns
<1>4. CASE WorkerReceives
  BY <1>4 DEF WorkerReceives
<1>5. CASE Tick
  BY <1>5 DEF Tick, Control
<1>6. CASE WorkerLoops
  BY <1>6 DEF WorkerLoops
<1>7. ASSUME NEW g \in Goroutines, SendPath(g)
      PROVE  Agenda'
  <2>1. CASE SendsOne(g)
    BY <2>1 DEF SendsOne
  <2>2. CASE Buffers(g)
    <3> DEFINE t == TypeOf[cur[g]]
    <3>1. <<t>> # <<>> /\ Len(<<t>>) = 1
      OBVIOUS
    <3>2. CASE todo' = [todo EXCEPT ![g] = <<t>>] /\ Goto(g, "flush")
      BY <2>2, <3>1, <3>2 DEF Buffers
    <3>3. CASE Goto(g, "return") /\ UNCHANGED todo
      BY <2>2, <3>3 DEF Buffers
    <3> QED
      BY <2>2, <3>2, <3>3 DEF Buffers
  <2>3. CASE TakesBatch(g)
    <3> DEFINE t == Head(todo[g])
    <3>1. todo[g] # <<>> /\ todo[g] \in Seq(BatchTypes)
      BY <2>3 DEF TakesBatch
    <3>2. t \in BatchTypes /\ Tail(todo[g]) \in Seq(BatchTypes)
      BY <3>1
    <3>3. cur[g] # None => Tail(todo[g]) = <<>>
      <4>1. cur[g] # None => Len(todo[g]) = 1
        BY <2>3 DEF TakesBatch
      <4> QED
        BY <3>1, <4>1, TailOfOne
    <3>4. CASE buffers[t] = <<>>
      BY <2>3, <3>2, <3>3, <3>4 DEF TakesBatch, Rest
    <3>5. CASE buffers[t] # <<>>
      BY <2>3, <3>2, <3>3, <3>5 DEF TakesBatch
    <3> QED
      BY <3>4, <3>5
  <2>4. CASE TransportReturns(g)
    BY <2>4 DEF TransportReturns, Rest
  <2> QED
    BY <1>7, <2>1, <2>2, <2>3, <2>4 DEF SendPath
<1>8. ASSUME NEW f \in Flushers, FlushBegins(f) \/ FlusherStep(f) \/ FlushGivesUp(f)
      PROVE  Agenda'
  <2>0. cur[f] = None
    BY DEF Control
  <2>1. <<"errors", "logs">> # <<>>
    OBVIOUS
  <2>2. CASE FlushBegins(f)
    <3>1. CASE Goto(f, "wait") /\ UNCHANGED todo
      BY <2>2, <3>1 DEF FlushBegins
    <3>2. CASE todo' = [todo EXCEPT ![f] = <<"errors", "logs">>] /\ Goto(f, "flush")
      BY <2>0, <2>1, <2>2, <3>2 DEF FlushBegins
    <3> QED
      BY <2>2, <3>1, <3>2 DEF FlushBegins
  <2>3. CASE WaitEnds(f)
    BY <2>3 DEF WaitEnds
  <2>4. CASE FlushProceeds(f)
    BY <2>0, <2>1, <2>4 DEF FlushProceeds
  <2>5. CASE FlushReturns(f) \/ FlushGivesUp(f)
    BY <2>5 DEF FlushReturns, FlushGivesUp
  <2> QED
    BY <1>8, <2>2, <2>3, <2>4, <2>5 DEF FlusherStep
<1>9. CASE UNCHANGED vars
  BY <1>9 DEF vars
<1> QED
  BY <1>1, <1>2, <1>3, <1>4, <1>5, <1>6, <1>7, <1>8, <1>9 DEF Next

-----------------------------------------------------------------------------
(* The wait group counts the unsettled part of the pipeline. *)

LEMMA StepPendingCounts ==
  ASSUME TypeOK, Control, PendingCounts, [Next]_vars
  PROVE  PendingCounts'
<1>0. async' = async
  BY ModeStays
<1>1. IsFiniteSet(Enqueueing) /\ Cardinality(Enqueueing) \in Nat
  BY ProviderAssumption, FS_Subset, FS_CardinalityType DEF Enqueueing
<1>2. Len(queue) \in Nat /\ queue \in Seq(Events) /\ pending \in Nat
  BY LenProperties DEF TypeOK
<1>3. ASSUME UNCHANGED <<queue, pending>>, cur'[Worker] = cur[Worker],
             Enqueueing' = Enqueueing
      PROVE  PendingCounts'
  BY <1>0, <1>3 DEF PendingCounts, Holding
<1>4. ASSUME NEW c \in Callers, c \in Enqueueing
      PROVE  /\ async
             /\ Cardinality(Enqueueing \ {c}) = Cardinality(Enqueueing) - 1
  BY <1>1, <1>4, FS_RemoveElement DEF Enqueueing, Control, CallerLabels
<1> USE ProviderAssumption DEF TypeOK, Goto, Goroutines
<1>5. ASSUME NEW c \in Callers, NEW e \in Events, CaptureDiscards(c, e)
      PROVE  PendingCounts'
  BY <1>3, <1>5 DEF CaptureDiscards, Enqueueing
<1>6. ASSUME NEW c \in Callers, NEW e \in Events, CaptureBegins(c, e)
      PROVE  PendingCounts'
  <2>1. cur'[Worker] = cur[Worker] /\ queue' = queue
    BY <1>6 DEF CaptureBegins
  <2>2. CASE async /\ pending' = pending + 1 /\ Goto(c, "select")
    <3>1. c \notin Enqueueing /\ Enqueueing' = Enqueueing \union {c}
      BY <1>6, <2>2 DEF CaptureBegins, Enqueueing
    <3>2. Cardinality(Enqueueing') = Cardinality(Enqueueing) + 1
      BY <1>1, <3>1, FS_AddElement
    <3> QED
      BY <1>0, <1>1, <1>2, <2>1, <2>2, <3>2 DEF PendingCounts, Holding
  <2>3. CASE ~async /\ UNCHANGED pending
    BY <1>0, <2>3 DEF PendingCounts
  <2> QED
    BY <1>6, <2>2, <2>3 DEF CaptureBegins
<1>7. ASSUME NEW c \in Callers, EnqueueSends(c)
      PROVE  PendingCounts'
  <2>1. c \in Enqueueing /\ Enqueueing' = Enqueueing \ {c}
    BY <1>7 DEF EnqueueSends, Enqueueing
  <2>2. async /\ Cardinality(Enqueueing') = Cardinality(Enqueueing) - 1
    BY <1>4, <2>1
  <2>3. cur[c] \in Events /\ queue' = Append(queue, cur[c])
    BY <1>7 DEF EnqueueSends, Control
  <2>4. Len(queue') = Len(queue) + 1
    BY <1>2, <2>3, AppendProperties
  <2>5. pending' = pending /\ cur'[Worker] = cur[Worker]
    BY <1>7 DEF EnqueueSends
  <2> QED
    BY <1>0, <1>1, <1>2, <2>2, <2>4, <2>5 DEF PendingCounts, Holding
<1>8. ASSUME NEW c \in Callers, EnqueueDrops(c)
      PROVE  PendingCounts'
  <2>1. c \in Enqueueing /\ Enqueueing' = Enqueueing \ {c}
    BY <1>8 DEF EnqueueDrops, Enqueueing
  <2>2. async /\ Cardinality(Enqueueing') = Cardinality(Enqueueing) - 1
    BY <1>4, <2>1
  <2>3. /\ pending' = pending - 1 /\ queue' = queue
        /\ cur'[Worker] = cur[Worker]
    BY <1>8 DEF EnqueueDrops
  <2> QED
    BY <1>0, <1>1, <1>2, <2>2, <2>3 DEF PendingCounts, Holding
<1>9. ASSUME NEW c \in Callers, CaptureReturns(c)
      PROVE  PendingCounts'
  BY <1>3, <1>9 DEF CaptureReturns, Enqueueing
<1>10. CASE WorkerReceives
  <2>1. Len(queue') = Len(queue) - 1 /\ Head(queue) \in Events
    BY <1>2, <1>10, HeadTailProperties DEF WorkerReceives
  <2>2. Holding(Worker) = 0 /\ Holding(Worker)' = 1
    BY <1>10, <2>1 DEF WorkerReceives, Control, Holding
  <2>3. Enqueueing' = Enqueueing /\ pending' = pending /\ async
    BY <1>10 DEF WorkerReceives, Enqueueing
  <2> QED
    BY <1>0, <1>1, <1>2, <2>1, <2>2, <2>3 DEF PendingCounts
<1>11. CASE Tick
  BY <1>3, <1>11 DEF Tick, Enqueueing
<1>12. CASE WorkerLoops
  <2>1. Enqueueing' = Enqueueing /\ queue' = queue /\ Holding(Worker)' = 0
    BY <1>12 DEF WorkerLoops, Enqueueing, Holding
  <2>2. pending' = pending - Holding(Worker)
    BY <1>2, <1>12 DEF WorkerLoops, Holding
  <2>3. Holding(Worker) \in Nat /\ async
    BY <1>12 DEF WorkerLoops, Control, WorkerLabels, Holding
  <2> QED
    BY <1>0, <1>1, <1>2, <2>1, <2>2, <2>3 DEF PendingCounts
<1>13. ASSUME NEW g \in Goroutines, SendPath(g)
       PROVE  PendingCounts'
  <2>1. UNCHANGED <<queue, pending, cur>>
    BY <1>13 DEF SendPath, SendsOne, Buffers, TakesBatch, TransportReturns
  <2>2. /\ pc[g] # "select" /\ pc'[g] # "select"
        /\ \A c \in Callers : c # g => pc'[c] = pc[c]
    BY <1>13 DEF SendPath, SendsOne, Buffers, TakesBatch, TransportReturns, Rest
  <2>3. Enqueueing' = Enqueueing
    BY <2>2 DEF Enqueueing
  <2> QED
    BY <1>3, <2>1, <2>3
<1>14. ASSUME NEW f \in Flushers, FlushBegins(f) \/ FlusherStep(f) \/ FlushGivesUp(f)
       PROVE  PendingCounts'
  <2>1. UNCHANGED <<queue, pending, cur>>
    BY <1>14 DEF FlushBegins, FlusherStep, FlushGivesUp, WaitEnds, FlushProceeds,
                 FlushReturns
  <2>2. \A c \in Callers : pc'[c] = pc[c]
    BY <1>14 DEF FlushBegins, FlusherStep, FlushGivesUp, WaitEnds, FlushProceeds,
                 FlushReturns
  <2>3. Enqueueing' = Enqueueing
    BY <2>2 DEF Enqueueing
  <2> QED
    BY <1>3, <2>1, <2>3
<1>15. CASE UNCHANGED vars
  BY <1>3, <1>15 DEF vars, Enqueueing
<1> QED
  BY <1>5, <1>6, <1>7, <1>8, <1>9, <1>10, <1>11, <1>12, <1>13, <1>14, <1>15
     DEF Next, CallerStep

-----------------------------------------------------------------------------
(* Flush sees what was captured before it. *)

LEMMA StepBeforeIsPast ==
  ASSUME TypeOK, Control, BeforeIsPast, [Next]_vars
  PROVE  BeforeIsPast'
<1> USE ProviderAssumption DEF TypeOK, BeforeIsPast, Goto, Goroutines
<1>1. ASSUME NEW c \in Callers, NEW e \in Events, CaptureDiscards(c, e)
      PROVE  BeforeIsPast'
  BY <1>1 DEF CaptureDiscards
<1>2. ASSUME NEW c \in Callers, NEW e \in Events, CaptureBegins(c, e)
      PROVE  BeforeIsPast'
  BY <1>2 DEF CaptureBegins
<1>3. ASSUME NEW c \in Callers, CallerStep(c)
      PROVE  BeforeIsPast'
  BY <1>3 DEF CallerStep, EnqueueSends, EnqueueDrops, CaptureReturns
<1>4. CASE WorkerReceives \/ Tick \/ WorkerLoops
  BY <1>4 DEF WorkerReceives, Tick, WorkerLoops
<1>5. ASSUME NEW g \in Goroutines, SendPath(g)
      PROVE  BeforeIsPast'
  BY <1>5 DEF SendPath, SendsOne, Buffers, TakesBatch, TransportReturns
<1>6. ASSUME NEW f \in Flushers, FlushBegins(f)
      PROVE  BeforeIsPast'
  BY <1>6 DEF FlushBegins, Captured
<1>7. ASSUME NEW f \in Flushers, FlusherStep(f) \/ FlushGivesUp(f)
      PROVE  BeforeIsPast'
  BY <1>7 DEF FlusherStep, FlushGivesUp, WaitEnds, FlushProceeds, FlushReturns
<1>8. CASE UNCHANGED vars
  BY <1>8 DEF vars
<1> QED
  BY <1>1, <1>2, <1>3, <1>4, <1>5, <1>6, <1>7, <1>8 DEF Next

LEMMA StepFlushBarrier ==
  ASSUME TypeOK, Control, PendingCounts, BeforeIsPast, FlushBarrier, [Next]_vars
  PROVE  FlushBarrier'
<1>0. async' = async
  BY ModeStays
<1> USE ProviderAssumption DEF TypeOK, FlushBarrier, Waited, Goto, Goroutines
<1>1. ASSUME NEW c \in Callers, NEW e \in Events,
             CaptureDiscards(c, e) \/ CaptureBegins(c, e)
      PROVE  FlushBarrier'
  BY <1>1 DEF CaptureDiscards, CaptureBegins
<1>2. ASSUME NEW c \in Callers, EnqueueSends(c)
      PROVE  FlushBarrier'
  <2>1. cur[c] \in Events
    BY <1>2 DEF EnqueueSends, Control
  <2>2. Range(queue') = Range(queue) \union {cur[c]}
    BY <1>2, <2>1, RangeAppend DEF EnqueueSends
  <2> QED
    BY <1>2, <2>2 DEF EnqueueSends, BeforeIsPast
<1>3. ASSUME NEW c \in Callers, EnqueueDrops(c) \/ CaptureReturns(c)
      PROVE  FlushBarrier'
  BY <1>3 DEF EnqueueDrops, CaptureReturns
<1>4. CASE WorkerReceives
  <2>1. Range(queue) = {Head(queue)} \union Range(Tail(queue))
    BY <1>4, RangeHeadTail DEF WorkerReceives
  <2> QED
    BY <1>4, <2>1 DEF WorkerReceives
<1>5. CASE Tick \/ WorkerLoops
  <2>1. CASE Tick
    BY <2>1 DEF Tick
  <2>2. CASE WorkerLoops
    <3>1. /\ UNCHANGED <<queue, before>>
          /\ cur'[Worker] = None
          /\ \A f \in Flushers : pc'[f] = pc[f]
      BY <2>2 DEF WorkerLoops
    <3> QED
      BY <1>0, <3>1
  <2> QED
    BY <1>5, <2>1, <2>2
<1>6. ASSUME NEW g \in Goroutines, SendPath(g)
      PROVE  FlushBarrier'
  <2>1. UNCHANGED <<queue, cur, before>>
    BY <1>6 DEF SendPath, SendsOne, Buffers, TakesBatch, TransportReturns
  <2>2. Waited' \subseteq Waited
    BY <1>6 DEF SendPath, SendsOne, Buffers, TakesBatch, TransportReturns, Control,
                FlusherLabels
  <2> QED
    BY <1>0, <2>1, <2>2
<1>7. ASSUME NEW f \in Flushers, FlushBegins(f)
      PROVE  FlushBarrier'
  BY <1>7 DEF FlushBegins
<1>8. ASSUME NEW f \in Flushers, WaitEnds(f)
      PROVE  FlushBarrier'
  <2>1. Len(queue) \in Nat /\ Cardinality(Enqueueing) \in Nat
    BY FS_Subset, FS_CardinalityType, LenProperties DEF Enqueueing
  <2>2. async => Len(queue) = 0 /\ Holding(Worker) = 0
    BY <1>8, <2>1 DEF WaitEnds, PendingCounts, Holding
  <2>3. async => queue = <<>> /\ cur[Worker] = None
    BY <2>2, EmptySeq DEF Holding
  <2>4. UNCHANGED <<queue, cur, before>>
    BY <1>8 DEF WaitEnds
  <2> QED
    BY <1>0, <2>3, <2>4, RangeEmpty
<1>9. ASSUME NEW f \in Flushers, FlushProceeds(f) \/ FlushReturns(f) \/ FlushGivesUp(f)
      PROVE  FlushBarrier'
  BY <1>9 DEF FlushProceeds, FlushReturns, FlushGivesUp
<1>10. CASE UNCHANGED vars
  BY <1>10 DEF vars
<1> QED
  BY <1>1, <1>2, <1>3, <1>4, <1>5, <1>6, <1>7, <1>8, <1>9, <1>10
     DEF Next, CallerStep, FlusherStep

-----------------------------------------------------------------------------
(* No accepted event goes missing, and a Flush empties both buffers. *)

LEMMA StepLocated ==
  ASSUME TypeOK, Control, Agenda, Located, [Next]_vars
  PROVE  Located'
<1> SUFFICES ASSUME NEW e \in Events, outcome'[e] = "accepted"
             PROVE  \/ \E g \in Goroutines : pc'[g] \in {"select", "prepared"} /\ cur'[g] = e
                    \/ e \in Range(queue')
                    \/ \E t \in BatchTypes : e \in Range(buffers'[t])
                    \/ \E g \in Goroutines : e \in Range(sending'[g])
  BY DEF Located
<1> DEFINE Held == \E g \in Goroutines : pc[g] \in {"select", "prepared"} /\ cur[g] = e
           Queued == e \in Range(queue)
           Buffered == \E t \in BatchTypes : e \in Range(buffers[t])
           Requested == \E g \in Goroutines : e \in Range(sending[g])
           Goal == Held' \/ Queued' \/ Buffered' \/ Requested'
<1>0. outcome[e] = "accepted" => Held \/ Queued \/ Buffered \/ Requested
  BY DEF Located
<1> USE ProviderAssumption DEF TypeOK, Goto, Goroutines
<1>1. ASSUME NEW c \in Callers, NEW d \in Events, CaptureDiscards(c, d)
      PROVE  Goal
  BY <1>0, <1>1 DEF CaptureDiscards
<1>2. ASSUME NEW c \in Callers, NEW d \in Events, CaptureBegins(c, d)
      PROVE  Goal
  <2>1. UNCHANGED <<queue, buffers, sending>>
    BY <1>2 DEF CaptureBegins
  <2>2. CASE e = d
    BY <1>2, <2>2 DEF CaptureBegins
  <2>3. CASE e # d
    BY <1>0, <1>2, <2>1, <2>3 DEF CaptureBegins
  <2> QED
    BY <2>2, <2>3
<1>3. ASSUME NEW c \in Callers, EnqueueSends(c)
      PROVE  Goal
  <2>1. cur[c] \in Events
    BY <1>3 DEF EnqueueSends, Control
  <2>2. Range(queue') = Range(queue) \union {cur[c]}
    BY <1>3, <2>1, RangeAppend DEF EnqueueSends
  <2>3. UNCHANGED <<buffers, sending, outcome>>
    BY <1>3 DEF EnqueueSends
  <2>4. CASE e = cur[c]
    BY <2>2, <2>4
  <2>5. CASE e # cur[c]
    BY <1>0, <1>3, <2>2, <2>3, <2>5 DEF EnqueueSends
  <2> QED
    BY <2>4, <2>5
<1>4. ASSUME NEW c \in Callers, EnqueueDrops(c)
      PROVE  Goal
  <2>1. e # cur[c] /\ outcome[e] = "accepted"
    BY <1>4 DEF EnqueueDrops
  <2> QED
    BY <1>0, <1>4, <2>1 DEF EnqueueDrops
<1>5. ASSUME NEW c \in Callers, CaptureReturns(c)
      PROVE  Goal
  BY <1>0, <1>5 DEF CaptureReturns
<1>6. CASE WorkerReceives
  <2>1. Range(queue) = {Head(queue)} \union Range(queue')
    BY <1>6, RangeHeadTail DEF WorkerReceives
  <2>2. UNCHANGED <<buffers, sending, outcome>>
    BY <1>6 DEF WorkerReceives
  <2>3. CASE e = Head(queue)
    BY <1>6, <2>3 DEF WorkerReceives
  <2>4. CASE e # Head(queue)
    BY <1>0, <1>6, <2>1, <2>2, <2>4 DEF WorkerReceives
  <2> QED
    BY <2>3, <2>4
<1>7. CASE Tick
  BY <1>0, <1>7 DEF Tick
<1>8. CASE WorkerLoops
  BY <1>0, <1>8 DEF WorkerLoops
<1>9. ASSUME NEW g \in Goroutines, SendsOne(g)
      PROVE  Goal
  <2>1. sending[g] = <<>> /\ Range(sending[g]) = {}
    BY <1>9, RangeEmpty DEF SendsOne, Agenda
  <2>2. Range(sending'[g]) = {cur[g]}
    BY <1>9, RangeSingle DEF SendsOne
  <2>3. UNCHANGED <<queue, buffers, outcome>>
    BY <1>9 DEF SendsOne
  <2>4. CASE e = cur[g]
    BY <2>2, <2>4
  <2>5. CASE e # cur[g]
    BY <1>0, <1>9, <2>1, <2>3, <2>5 DEF SendsOne
  <2> QED
    BY <2>4, <2>5
<1>10. ASSUME NEW g \in Goroutines, Buffers(g)
       PROVE  Goal
  <2> DEFINE t == TypeOf[cur[g]]
  <2>1. cur[g] \in Events /\ t \in BatchTypes
    BY <1>10 DEF Buffers, Control, CallerLabels, FlusherLabels, Immediate, EventTypes
  <2>2. /\ Range(buffers'[t]) = Range(buffers[t]) \union {cur[g]}
        /\ \A u \in BatchTypes \ {t} : buffers'[u] = buffers[u]
    BY <1>10, <2>1, RangeAppend DEF Buffers
  <2>3. UNCHANGED <<queue, cur, sending, outcome>>
    BY <1>10 DEF Buffers
  <2>4. \A h \in Goroutines : h # g => pc'[h] = pc[h]
    BY <1>10 DEF Buffers
  <2>5. CASE e = cur[g]
    BY <2>1, <2>2, <2>5
  <2>6. CASE e # cur[g]
    BY <1>0, <2>1, <2>2, <2>3, <2>4, <2>6
  <2> QED
    BY <2>5, <2>6
<1>11. ASSUME NEW g \in Goroutines, TakesBatch(g)
       PROVE  Goal
  <2> DEFINE t == Head(todo[g])
  <2>1. t \in BatchTypes
    BY <1>11 DEF TakesBatch, Agenda
  <2>2. sending[g] = <<>> /\ Range(sending[g]) = {}
    BY <1>11, RangeEmpty DEF TakesBatch, Agenda
  <2>3. /\ \A u \in BatchTypes \ {t} : buffers'[u] = buffers[u]
        /\ sending'[g] = buffers[t]
        /\ \A h \in Goroutines : h # g => sending'[h] = sending[h] /\ pc'[h] = pc[h]
        /\ UNCHANGED <<queue, cur, outcome>>
        /\ pc[g] \notin {"select", "prepared"}
    BY <1>11, <2>1 DEF TakesBatch
  <2>4. CASE e \in Range(buffers[t])
    BY <2>3, <2>4
  <2>5. CASE e \notin Range(buffers[t])
    BY <1>0, <2>2, <2>3, <2>5
  <2> QED
    BY <2>4, <2>5
<1>12. ASSUME NEW g \in Goroutines, TransportReturns(g)
       PROVE  Goal
  <2>1. e \notin Range(sending[g]) /\ outcome[e] = "accepted"
    BY <1>12 DEF TransportReturns
  <2>2. /\ \A h \in Goroutines : h # g => sending'[h] = sending[h] /\ pc'[h] = pc[h]
        /\ UNCHANGED <<queue, buffers, cur>>
        /\ pc[g] \notin {"select", "prepared"}
    BY <1>12 DEF TransportReturns
  <2> QED
    BY <1>0, <2>1, <2>2
<1>13. ASSUME NEW f \in Flushers, FlushBegins(f) \/ FlusherStep(f) \/ FlushGivesUp(f)
       PROVE  Goal
  <2>1. /\ UNCHANGED <<queue, buffers, cur, sending, outcome>>
        /\ \A h \in Goroutines : h # f => pc'[h] = pc[h]
        /\ pc[f] \notin {"select", "prepared"}
    BY <1>13 DEF FlushBegins, FlusherStep, FlushGivesUp, WaitEnds, FlushProceeds,
                 FlushReturns
  <2> QED
    BY <1>0, <2>1
<1>14. CASE UNCHANGED vars
  BY <1>0, <1>14 DEF vars
<1> QED
  BY <1>1, <1>2, <1>3, <1>4, <1>5, <1>6, <1>7, <1>8, <1>9, <1>10, <1>11, <1>12,
     <1>13, <1>14 DEF Next, CallerStep, SendPath

LEMMA BothTypes ==
  /\ <<"errors", "logs">> \in Seq(BatchTypes)
  /\ Range(<<"errors", "logs">>) = BatchTypes
BY DEF Range, BatchTypes

LEMMA StepStillToTake ==
  ASSUME TypeOK, Control, Agenda, BeforeIsPast, FlushBarrier, StillToTake, [Next]_vars
  PROVE  StillToTake'
<1> DEFINE Flushing(f) == pc[f] \in {"flush", "send", "return"}
<1>0. ASSUME UNCHANGED <<buffers, before>>,
             \A f \in Flushers : todo'[f] = todo[f] /\ (Flushing(f)' => Flushing(f))
      PROVE  StillToTake'
  BY <1>0 DEF StillToTake
<1> USE ProviderAssumption DEF TypeOK, Goto, Goroutines
<1>1. ASSUME NEW c \in Callers, NEW e \in Events,
             CaptureDiscards(c, e) \/ CaptureBegins(c, e)
      PROVE  StillToTake'
  BY <1>0, <1>1 DEF CaptureDiscards, CaptureBegins
<1>2. ASSUME NEW c \in Callers, CallerStep(c)
      PROVE  StillToTake'
  BY <1>0, <1>2 DEF CallerStep, EnqueueSends, EnqueueDrops, CaptureReturns
<1>3. CASE WorkerReceives \/ WorkerLoops
  BY <1>0, <1>3 DEF WorkerReceives, WorkerLoops
<1>4. CASE Tick
  BY <1>0, <1>4 DEF Tick
<1>5. ASSUME NEW g \in Goroutines, SendsOne(g)
      PROVE  StillToTake'
  BY <1>0, <1>5 DEF SendsOne, Control, FlusherLabels
<1>6. ASSUME NEW g \in Goroutines, Buffers(g)
      PROVE  StillToTake'
  <2> DEFINE t == TypeOf[cur[g]]
  <2>1. /\ cur[g] \in Events /\ t \in BatchTypes
        /\ g \in Callers \/ (g = Worker /\ async)
    BY <1>6 DEF Buffers, Control, CallerLabels, FlusherLabels, WorkerLabels,
                Immediate, EventTypes
  <2>2. /\ Range(buffers'[t]) = Range(buffers[t]) \union {cur[g]}
        /\ \A u \in BatchTypes \ {t} : buffers'[u] = buffers[u]
    BY <1>6, <2>1, RangeAppend DEF Buffers
  <2>3. /\ before' = before
        /\ \A f \in Flushers : todo'[f] = todo[f] /\ pc'[f] = pc[f]
    BY <1>6, <2>1 DEF Buffers
  <2>4. \A f \in Flushers : Flushing(f) => cur[g] \notin before[f]
    BY <2>1 DEF BeforeIsPast, FlushBarrier, Waited
  <2> SUFFICES ASSUME NEW f \in Flushers, Flushing(f)', NEW u \in BatchTypes,
                      NEW e \in before'[f], e \in Range(buffers'[u])
               PROVE  u \in Range(todo'[f])
    BY DEF StillToTake
  <2>5. Flushing(f) /\ e \in before[f] /\ e # cur[g]
    BY <2>3, <2>4
  <2>6. e \in Range(buffers[u])
    BY <2>1, <2>2, <2>5
  <2> QED
    BY <2>3, <2>5, <2>6 DEF StillToTake
<1>7. ASSUME NEW g \in Goroutines, TakesBatch(g)
      PROVE  StillToTake'
  <2> DEFINE t == Head(todo[g])
  <2>1. t \in BatchTypes /\ Range(todo[g]) = {t} \union Range(Tail(todo[g]))
    BY <1>7, RangeHeadTail DEF TakesBatch, Agenda
  <2>2. /\ \A u \in BatchTypes \ {t} : buffers'[u] = buffers[u]
        /\ Range(buffers'[t]) = {}
    BY <1>7, <2>1, RangeEmpty DEF TakesBatch
  <2>3. /\ before' = before
        /\ \A f \in Flushers \ {g} : todo'[f] = todo[f] /\ pc'[f] = pc[f]
        /\ todo'[g] = Tail(todo[g])
        /\ pc[g] = "flush"
    BY <1>7 DEF TakesBatch
  <2> SUFFICES ASSUME NEW f \in Flushers, Flushing(f)', NEW u \in BatchTypes,
                      NEW e \in before'[f], e \in Range(buffers'[u])
               PROVE  u \in Range(todo'[f])
    BY DEF StillToTake
  <2>4. u # t /\ e \in Range(buffers[u]) /\ e \in before[f]
    BY <2>2, <2>3
  <2>5. Flushing(f)
    BY <2>3
  <2>6. u \in Range(todo[f])
    BY <2>4, <2>5 DEF StillToTake
  <2> QED
    BY <2>1, <2>3, <2>4, <2>6
<1>8. ASSUME NEW g \in Goroutines, TransportReturns(g)
      PROVE  StillToTake'
  BY <1>0, <1>8 DEF TransportReturns
<1>9. ASSUME NEW f \in Flushers, FlushBegins(f)
      PROVE  StillToTake'
  <2>1. /\ buffers' = buffers
        /\ \A h \in Flushers \ {f} : /\ before'[h] = before[h]
                                     /\ todo'[h] = todo[h] /\ pc'[h] = pc[h]
    BY <1>9 DEF FlushBegins
  <2>2. pc'[f] = "wait" \/ todo'[f] = <<"errors", "logs">>
    BY <1>9, BothTypes DEF FlushBegins
  <2> QED
    BY <2>1, <2>2, BothTypes DEF StillToTake
<1>10. ASSUME NEW f \in Flushers, FlushProceeds(f)
       PROVE  StillToTake'
  <2>1. /\ UNCHANGED <<buffers, before>>
        /\ \A h \in Flushers \ {f} : todo'[h] = todo[h] /\ pc'[h] = pc[h]
        /\ todo'[f] = <<"errors", "logs">>
    BY <1>10, BothTypes DEF FlushProceeds
  <2> QED
    BY <2>1, BothTypes DEF StillToTake
<1>11. ASSUME NEW f \in Flushers, WaitEnds(f)
       PROVE  StillToTake'
  BY <1>0, <1>11 DEF WaitEnds
<1>12. ASSUME NEW f \in Flushers, FlushReturns(f) \/ FlushGivesUp(f)
       PROVE  StillToTake'
  BY <1>12 DEF FlushReturns, FlushGivesUp, StillToTake
<1>13. CASE UNCHANGED vars
  BY <1>0, <1>13 DEF vars
<1> QED
  BY <1>1, <1>2, <1>3, <1>4, <1>5, <1>6, <1>7, <1>8, <1>9, <1>10, <1>11, <1>12, <1>13
     DEF Next, FlusherStep, SendPath

-----------------------------------------------------------------------------
(* The size of a buffer and of a request. *)

LEMMA StepBatchBound ==
  ASSUME TypeOK, Control, Agenda, BatchBound, [Next]_vars
  PROVE  BatchBound'
<1>0. async' = async
  BY ModeStays
<1>1. /\ IsFiniteSet(Appenders) /\ Cardinality(Appenders) \in Nat \ {0}
      /\ \A t \in BatchTypes : /\ IsFiniteSet(Overdue(t))
                               /\ Cardinality(Overdue(t)) \in Nat
                               /\ Cardinality(Overdue(t)) <= Cardinality(Appenders)
  <2>1. IsFiniteSet(Appenders) /\ Appenders # {}
    BY ProviderAssumption, FS_Singleton DEF Appenders
  <2>2. Cardinality(Appenders) \in Nat \ {0}
    BY <2>1, FS_EmptySet, FS_CardinalityType
  <2>3. ASSUME NEW t \in BatchTypes
        PROVE  /\ IsFiniteSet(Overdue(t))
               /\ Cardinality(Overdue(t)) \in Nat
               /\ Cardinality(Overdue(t)) <= Cardinality(Appenders)
    <3>1. Overdue(t) \in SUBSET Appenders
      BY DEF Overdue
    <3> QED
      BY <2>1, <3>1, FS_Subset, FS_CardinalityType
  <2> QED
    BY <2>1, <2>2, <2>3
<1>2. BatchSize \in Nat \ {0} /\ MaxBatch \in Nat \ {0}
  BY <1>1, ProviderAssumption DEF MaxBatch
<1>3. ASSUME NEW t \in BatchTypes, Len(buffers'[t]) <= Len(buffers[t]),
             Overdue(t) \subseteq Overdue(t)'
      PROVE  Len(buffers'[t]) <= BatchSize - 1 + Cardinality(Overdue(t)')
  <2>1. Overdue(t)' \in SUBSET Appenders
    BY <1>0 DEF Overdue, Appenders
  <2>2. IsFiniteSet(Overdue(t)') /\ Cardinality(Overdue(t)') \in Nat
    BY <1>1, <2>1, FS_Subset, FS_CardinalityType
  <2>3. Cardinality(Overdue(t)) <= Cardinality(Overdue(t)')
    BY <1>3, <2>2, FS_Subset
  <2> QED
    BY <1>1, <1>2, <1>3, <2>2, <2>3 DEF BatchBound, TypeOK
<1> USE ProviderAssumption DEF TypeOK, Goto, Goroutines
<1>4. ASSUME UNCHANGED <<buffers, sending>>,
             \A t \in BatchTypes : Overdue(t) \subseteq Overdue(t)'
      PROVE  BatchBound'
  <2>1. \A t \in BatchTypes : Len(buffers'[t]) <= BatchSize - 1 + Cardinality(Overdue(t)')
    BY <1>3, <1>4
  <2>2. \A g \in Goroutines : Len(sending'[g]) <= MaxBatch
    BY <1>4 DEF BatchBound
  <2> QED
    BY <1>0, <2>1, <2>2 DEF BatchBound, MaxBatch, Appenders
<1>5. ASSUME NEW c \in Callers, NEW e \in Events,
             CaptureDiscards(c, e) \/ CaptureBegins(c, e)
      PROVE  BatchBound'
  <2>1. \A t \in BatchTypes : Overdue(t) \subseteq Overdue(t)'
    BY <1>5 DEF CaptureDiscards, CaptureBegins, Overdue, Appenders
  <2> QED
    BY <1>4, <1>5, <2>1 DEF CaptureDiscards, CaptureBegins
<1>6. ASSUME NEW c \in Callers, CallerStep(c)
      PROVE  BatchBound'
  <2>1. \A t \in BatchTypes : Overdue(t) \subseteq Overdue(t)'
    BY <1>6 DEF CallerStep, EnqueueSends, EnqueueDrops, CaptureReturns, Overdue, Appenders
  <2> QED
    BY <1>4, <1>6, <2>1 DEF CallerStep, EnqueueSends, EnqueueDrops, CaptureReturns
<1>7. CASE WorkerReceives \/ Tick \/ WorkerLoops
  <2>1. \A t \in BatchTypes : Overdue(t) \subseteq Overdue(t)'
    BY <1>7 DEF WorkerReceives, Tick, WorkerLoops, Overdue, Appenders, Control
  <2> QED
    BY <1>4, <1>7, <2>1 DEF WorkerReceives, Tick, WorkerLoops
<1>8. ASSUME NEW f \in Flushers, FlushBegins(f) \/ FlusherStep(f) \/ FlushGivesUp(f)
      PROVE  BatchBound'
  <2>1. \A t \in BatchTypes : Overdue(t) \subseteq Overdue(t)'
    BY <1>8 DEF FlushBegins, FlusherStep, FlushGivesUp, WaitEnds, FlushProceeds,
                FlushReturns, Overdue, Appenders
  <2> QED
    BY <1>4, <1>8, <2>1 DEF FlushBegins, FlusherStep, FlushGivesUp, WaitEnds,
                            FlushProceeds, FlushReturns
<1>9. ASSUME NEW g \in Goroutines, SendsOne(g)
      PROVE  BatchBound'
  <2>1. /\ \A t \in BatchTypes : Overdue(t) \subseteq Overdue(t)'
        /\ buffers' = buffers
    BY <1>9 DEF SendsOne, Overdue, Appenders
  <2>2. Len(sending'[g]) = 1 /\ \A h \in Goroutines \ {g} : sending'[h] = sending[h]
    BY <1>9 DEF SendsOne
  <2>3. \A t \in BatchTypes : Len(buffers'[t]) <= BatchSize - 1 + Cardinality(Overdue(t)')
    BY <1>3, <2>1
  <2>4. \A h \in Goroutines : Len(sending'[h]) <= MaxBatch
    <3>1. \A h \in Goroutines : Len(sending[h]) <= MaxBatch
      BY DEF BatchBound
    <3>2. Len(sending'[g]) <= MaxBatch
      BY <1>2, <2>2
    <3> QED
      BY <2>2, <3>1, <3>2
  <2> QED
    BY <1>0, <2>3, <2>4 DEF BatchBound, MaxBatch, Appenders
<1>10. ASSUME NEW g \in Goroutines, Buffers(g)
       PROVE  BatchBound'
  <2>0. cur[g] \in Events /\ TypeOf[cur[g]] \in BatchTypes /\ g \in Appenders
    BY <1>10 DEF Buffers, Control, CallerLabels, FlusherLabels, WorkerLabels,
                 Immediate, EventTypes, Appenders
  <2>1. PICK t \in BatchTypes : t = TypeOf[cur[g]]
    BY <2>0
  <2>2. /\ Len(buffers'[t]) = Len(buffers[t]) + 1
        /\ \A u \in BatchTypes \ {t} : buffers'[u] = buffers[u]
        /\ UNCHANGED <<sending, cur>>
        /\ Len(buffers[t]) \in Nat
    BY <1>10, <2>0, <2>1, AppendProperties DEF Buffers
  <2>3. \A u \in BatchTypes : Overdue(u) \subseteq Overdue(u)'
    BY <1>10 DEF Buffers, Overdue, Appenders
  <2>4. \A u \in BatchTypes \ {t} :
          Len(buffers'[u]) <= BatchSize - 1 + Cardinality(Overdue(u)')
    <3> SUFFICES ASSUME NEW u \in BatchTypes \ {t}
                 PROVE  Len(buffers'[u]) <= BatchSize - 1 + Cardinality(Overdue(u)')
      OBVIOUS
    <3>1. Len(buffers[u]) \in Nat
      BY LenProperties
    <3>2. Len(buffers'[u]) <= Len(buffers[u])
      BY <2>2, <3>1
    <3> QED
      BY <1>3, <2>3, <3>2
  <2>5. Len(buffers'[t]) <= BatchSize - 1 + Cardinality(Overdue(t)')
    <3>0. IsFiniteSet(Overdue(t)') /\ Cardinality(Overdue(t)') \in Nat
      <4>1. Overdue(t)' \in SUBSET Appenders
        BY <1>0 DEF Overdue, Appenders
      <4> QED
        BY <1>1, <4>1, FS_Subset, FS_CardinalityType
    <3>1. CASE Len(buffers'[t]) < BatchSize
      BY <1>2, <2>2, <3>0, <3>1, LenProperties
    <3>2. CASE ~(Len(buffers'[t]) < BatchSize)
      <4>1. pc'[g] = "flush" /\ todo'[g] = <<t>>
        BY <1>10, <2>0, <2>1, <3>2 DEF Buffers
      <4>2. g \notin Overdue(t) /\ g \in Overdue(t)'
        BY <1>10, <2>0, <2>1, <2>2, <4>1 DEF Buffers, Overdue, Appenders
      <4>3. Overdue(t) \union {g} \in SUBSET Overdue(t)'
        BY <2>0, <2>3, <4>2
      <4>4. Cardinality(Overdue(t) \union {g}) = Cardinality(Overdue(t)) + 1
        BY <1>1, <2>0, <2>1, <4>2, FS_AddElement
      <4>5. Cardinality(Overdue(t) \union {g}) <= Cardinality(Overdue(t)')
        BY <3>0, <4>3, FS_Subset
      <4>6. Len(buffers[t]) <= BatchSize - 1 + Cardinality(Overdue(t))
        BY <2>1 DEF BatchBound
      <4>7. Len(buffers'[t]) <= Len(buffers[t]) + 1 /\ Len(buffers[t]) \in Nat
        BY <2>1, <2>2, LenProperties
      <4>8. Cardinality(Overdue(t)) \in Nat
        BY <1>1, FS_CardinalityType
      <4> QED
        BY <1>2, <3>0, <4>4, <4>5, <4>6, <4>7, <4>8
    <3> QED
      BY <3>1, <3>2
  <2>6. \A h \in Goroutines : Len(sending'[h]) <= MaxBatch
    BY <2>2 DEF BatchBound
  <2> QED
    BY <1>0, <2>4, <2>5, <2>6 DEF BatchBound, MaxBatch, Appenders
<1>11. ASSUME NEW g \in Goroutines, TakesBatch(g)
       PROVE  BatchBound'
  <2>0. /\ todo[g] \in Seq(BatchTypes) /\ todo[g] # <<>>
        /\ Head(todo[g]) \in BatchTypes
        /\ cur[g] # None => Len(todo[g]) = 1
    BY <1>11 DEF TakesBatch, Agenda
  <2>1. PICK t \in BatchTypes : t = Head(todo[g])
    BY <2>0
  <2>2. /\ Len(buffers'[t]) = 0
        /\ sending'[g] = buffers[t]
        /\ \A u \in BatchTypes \ {t} : buffers'[u] = buffers[u]
        /\ \A h \in Goroutines \ {g} : sending'[h] = sending[h]
        /\ cur' = cur
    BY <1>11, <2>1 DEF TakesBatch
  <2>3. \A u \in BatchTypes \ {t} : Overdue(u) \subseteq Overdue(u)'
    <3> SUFFICES ASSUME NEW u \in BatchTypes \ {t}, NEW h \in Overdue(u)
                 PROVE  h \in Overdue(u)'
      OBVIOUS
    <3>1. h # g
      BY <2>0, <2>1 DEF Overdue
    <3> QED
      BY <1>11, <3>1 DEF TakesBatch, Overdue, Appenders
  <2>4. \A u \in BatchTypes \ {t} :
          Len(buffers'[u]) <= BatchSize - 1 + Cardinality(Overdue(u)')
    <3> SUFFICES ASSUME NEW u \in BatchTypes \ {t}
                 PROVE  Len(buffers'[u]) <= BatchSize - 1 + Cardinality(Overdue(u)')
      OBVIOUS
    <3>1. Len(buffers[u]) \in Nat
      BY LenProperties
    <3>2. Len(buffers'[u]) <= Len(buffers[u])
      BY <2>2, <3>1
    <3> QED
      BY <1>3, <2>3, <3>2
  <2>5. Len(buffers'[t]) <= BatchSize - 1 + Cardinality(Overdue(t)')
    <3>1. Overdue(t)' \in SUBSET Appenders
      BY <1>0 DEF Overdue, Appenders
    <3>2. Cardinality(Overdue(t)') \in Nat
      BY <1>1, <3>1, FS_Subset, FS_CardinalityType
    <3> QED
      BY <1>2, <2>2, <3>2
  <2>6. Len(sending'[g]) <= MaxBatch
    BY <1>1, <1>2, <2>1, <2>2, LenProperties DEF BatchBound, MaxBatch
  <2>7. \A h \in Goroutines : Len(sending'[h]) <= MaxBatch
    BY <2>2, <2>6 DEF BatchBound
  <2> QED
    BY <1>0, <2>4, <2>5, <2>7 DEF BatchBound, MaxBatch, Appenders
<1>12. ASSUME NEW g \in Goroutines, TransportReturns(g)
       PROVE  BatchBound'
  <2>1. /\ \A t \in BatchTypes : Overdue(t) \subseteq Overdue(t)'
        /\ buffers' = buffers
    BY <1>12 DEF TransportReturns, Overdue, Appenders
  <2>2. Len(sending'[g]) = 0 /\ \A h \in Goroutines \ {g} : sending'[h] = sending[h]
    BY <1>12 DEF TransportReturns
  <2>3. \A t \in BatchTypes : Len(buffers'[t]) <= BatchSize - 1 + Cardinality(Overdue(t)')
    BY <1>3, <2>1
  <2>4. \A h \in Goroutines : Len(sending'[h]) <= MaxBatch
    <3>1. \A h \in Goroutines : Len(sending[h]) <= MaxBatch
      BY DEF BatchBound
    <3>2. Len(sending'[g]) <= MaxBatch
      BY <1>2, <2>2
    <3> QED
      BY <2>2, <3>1, <3>2
  <2> QED
    BY <1>0, <2>3, <2>4 DEF BatchBound, MaxBatch, Appenders
<1>13. CASE UNCHANGED vars
  <2>1. \A t \in BatchTypes : Overdue(t)' = Overdue(t)
    BY <1>13 DEF vars, Overdue, Appenders
  <2> QED
    BY <1>4, <1>13, <2>1 DEF vars
<1> QED
  BY <1>5, <1>6, <1>7, <1>8, <1>9, <1>10, <1>11, <1>12, <1>13 DEF Next, SendPath

-----------------------------------------------------------------------------
(* The theorems. *)

(* The invariant holds in every reachable state of the provider. *)
THEOREM Invariance == Spec => []IndInv
<1>1. Init => IndInv
  BY InitIndInv
<1>2. IndInv /\ [Next]_vars => IndInv'
  <2> SUFFICES ASSUME IndInv, [Next]_vars PROVE IndInv'
    OBVIOUS
  <2>1. TypeOK' /\ Control' /\ Agenda' /\ PendingCounts'
    BY StepTypeOK, StepControl, StepAgenda, StepPendingCounts DEF IndInv
  <2>2. BatchBound' /\ BeforeIsPast' /\ FlushBarrier'
    BY StepBatchBound, StepBeforeIsPast, StepFlushBarrier DEF IndInv
  <2>3. Located' /\ StillToTake'
    BY StepLocated, StepStillToTake DEF IndInv
  <2> QED
    BY <2>1, <2>2, <2>3 DEF IndInv
<1> QED
  BY <1>1, <1>2, PTL DEF Spec

(* Every variable of provider.go keeps its Go type, the wait group above    *)
(* all: a counter below zero is a panic of pending.Done().                  *)
THEOREM TypeCorrect == Spec => []TypeOK
<1>1. IndInv => TypeOK
  BY DEF IndInv
<1> QED
  BY <1>1, Invariance, PTL

(* pending.Add and pending.Done of provider.go bracket every queued event.  *)
THEOREM WaitGroupCounts == Spec => []PendingCounts
<1>1. IndInv => PendingCounts
  BY DEF IndInv
<1> QED
  BY <1>1, Invariance, PTL

(* wait() of provider.go is a barrier for the events captured before it.    *)
THEOREM FlushWaits == Spec => []FlushBarrier
<1>1. IndInv => FlushBarrier
  BY DEF IndInv
<1> QED
  BY <1>1, Invariance, PTL

(* Flush of provider.go leaves none of the events captured before it in the *)
(* queue, with the worker or in a buffer.                                   *)
THEOREM FlushLeavesNothing == Spec => []FlushHandsOver
<1>1. IndInv => FlushHandsOver
  <2> SUFFICES ASSUME IndInv, NEW f \in Flushers, pc[f] = "return",
                      NEW e \in before[f], outcome[e] = "accepted"
               PROVE  \E g \in Goroutines \ {f} : e \in Range(sending[g])
    BY DEF FlushHandsOver
  <2> USE ProviderAssumption DEF IndInv, Goroutines
  <2>1. e \in Events
    BY DEF TypeOK
  <2>2. \A g \in Goroutines : ~(pc[g] \in {"select", "prepared"} /\ cur[g] = e)
    BY <2>1 DEF BeforeIsPast, FlushBarrier, Waited, Control, WorkerLabels, FlusherLabels
  <2>3. e \notin Range(queue)
    BY RangeEmpty DEF FlushBarrier, Waited, Control
  <2>4. todo[f] = <<>> /\ sending[f] = <<>>
    BY DEF Agenda
  <2>5. \A t \in BatchTypes : e \notin Range(buffers[t])
    BY <2>4, RangeEmpty DEF StillToTake
  <2> QED
    BY <2>1, <2>2, <2>3, <2>4, <2>5, RangeEmpty DEF Located
<1> QED
  BY <1>1, Invariance, PTL

(* No request of provider.go carries more than MaxBatch events: exactly     *)
(* batchSize with the worker, up to one less than batchSize plus the number *)
(* of goroutines that capture without it.                                   *)
THEOREM RequestsAreBounded == Spec => []BatchBound
<1>1. IndInv => BatchBound
  BY DEF IndInv
<1> QED
  BY <1>1, Invariance, PTL

-----------------------------------------------------------------------------
(* Places, one kind at a time, before and after a step. *)

IsHeld(e, x) == \E g \in Goroutines :
  x = <<"held", g, 0>> /\ pc[g] \in {"select", "prepared"} /\ cur[g] = e
IsQueued(e, x) == \E i \in DOMAIN queue : x = <<"queue", None, i>> /\ queue[i] = e
IsBuffered(e, x) == \E t \in BatchTypes : \E i \in DOMAIN buffers[t] :
  x = <<"buffer", t, i>> /\ buffers[t][i] = e
IsRequested(e, x) == \E g \in Goroutines : \E i \in DOMAIN sending[g] :
  x = <<"request", g, i>> /\ sending[g][i] = e

LEMMA PlaceKinds ==
  ASSUME NEW e, NEW x
  PROVE  x \in Places(e) <=>
           IsHeld(e, x) \/ IsQueued(e, x) \/ IsBuffered(e, x) \/ IsRequested(e, x)
<1>1. x \in HeldAt(e) <=> IsHeld(e, x)
  BY DEF HeldAt, IsHeld
<1>2. x \in QueuedAt(e) <=> IsQueued(e, x)
  BY DEF QueuedAt, IsQueued
<1>3. x \in BufferedAt(e) <=> IsBuffered(e, x)
  <2>1. \A t \in BatchTypes : x \in InBuffer(t, e) <=>
          \E i \in DOMAIN buffers[t] : x = <<"buffer", t, i>> /\ buffers[t][i] = e
    BY DEF InBuffer
  <2> QED
    BY <2>1 DEF BufferedAt, IsBuffered
<1>4. x \in RequestedAt(e) <=> IsRequested(e, x)
  <2>1. \A g \in Goroutines : x \in InRequest(g, e) <=>
          \E i \in DOMAIN sending[g] : x = <<"request", g, i>> /\ sending[g][i] = e
    BY DEF InRequest
  <2> QED
    BY <2>1 DEF RequestedAt, IsRequested
<1> QED
  BY <1>1, <1>2, <1>3, <1>4 DEF Places

LEMMA PlaceKindsAfter ==
  ASSUME NEW e, NEW x
  PROVE  x \in Places(e)' <=>
           IsHeld(e, x)' \/ IsQueued(e, x)' \/ IsBuffered(e, x)' \/ IsRequested(e, x)'
<1>1. x \in HeldAt(e)' <=> IsHeld(e, x)'
  BY DEF HeldAt, IsHeld
<1>2. x \in QueuedAt(e)' <=> IsQueued(e, x)'
  BY DEF QueuedAt, IsQueued
<1>3. x \in BufferedAt(e)' <=> IsBuffered(e, x)'
  <2>1. \A t \in BatchTypes : x \in InBuffer(t, e)' <=>
          \E i \in DOMAIN buffers'[t] : x = <<"buffer", t, i>> /\ buffers'[t][i] = e
    BY DEF InBuffer
  <2> QED
    BY <2>1 DEF BufferedAt, IsBuffered
<1>4. x \in RequestedAt(e)' <=> IsRequested(e, x)'
  <2>1. \A g \in Goroutines : x \in InRequest(g, e)' <=>
          \E i \in DOMAIN sending'[g] : x = <<"request", g, i>> /\ sending'[g][i] = e
    BY DEF InRequest
  <2> QED
    BY <2>1 DEF RequestedAt, IsRequested
<1> QED
  BY <1>1, <1>2, <1>3, <1>4 DEF Places

(* A step that puts nothing anywhere, and settles only what is nowhere then. *)
LEMMA NothingMoves ==
  ASSUME Sole, Gone,
         \A e \in Events : Places(e)' \subseteq Places(e),
         \A e \in Events : outcome'[e] # outcome[e] => Places(e)' = {}
  PROVE  Sole' /\ Gone'
BY DEF Sole, Gone

(* A step that takes one event, which is at from and accepted, to another   *)
(* place, to, and touches no other.                                         *)
LEMMA OneMoves ==
  ASSUME Sole, Gone, NEW d \in Events, NEW from, NEW to,
         from \in Places(d),
         from \notin Places(d)',
         \A e \in Events : \A x : x \in Places(e)' => x \in Places(e) \/ (e = d /\ x = to),
         outcome' = outcome
  PROVE  Sole' /\ Gone'
<1>1. Places(d) = {from}
  BY DEF Sole
<1>2. \A x \in Places(d)' : x = to
  BY <1>1
<1>3. \A e \in Events \ {d} : Places(e)' \subseteq Places(e)
  OBVIOUS
<1>4. Sole'
  BY <1>2, <1>3 DEF Sole
<1>5. Gone'
  <2>1. outcome[d] = "accepted"
    BY <1>1 DEF Gone
  <2> QED
    BY <1>3, <2>1 DEF Gone
<1> QED
  BY <1>4, <1>5

LEMMA InitPlaces == Init => Sole /\ Gone /\ OfOneType
<1> SUFFICES ASSUME Init PROVE Sole /\ Gone /\ OfOneType
  OBVIOUS
<1> USE DEF Init
<1>1. ASSUME NEW e \in Events, NEW x \in Places(e) PROVE FALSE
  BY <1>1, PlaceKinds DEF IsHeld, IsQueued, IsBuffered, IsRequested
<1>2. OfOneType
  BY DEF OfOneType, BatchTypes
<1> QED
  BY <1>1, <1>2 DEF Sole, Gone

-----------------------------------------------------------------------------
(* The steps. *)

LEMMA CaptureBeginsPlaces ==
  ASSUME IndInv, Sole, Gone, NEW c \in Callers, NEW d \in Events, CaptureBegins(c, d)
  PROVE  Sole' /\ Gone'
<1> USE DEF CaptureBegins
<1>1. Places(d) = {} /\ outcome'[d] = "accepted"
  BY DEF Gone, IndInv, TypeOK
<1>2. \A e \in Events \ {d} : outcome'[e] = outcome[e]
  BY DEF IndInv, TypeOK
<1>3. ASSUME NEW e \in Events, NEW x \in Places(e)'
      PROVE  x \in Places(e) \/ (e = d /\ x = <<"held", c, 0>>)
  <2>1. IsQueued(e, x)' = IsQueued(e, x) /\ IsBuffered(e, x)' = IsBuffered(e, x)
        /\ IsRequested(e, x)' = IsRequested(e, x)
    BY DEF IsQueued, IsBuffered, IsRequested
  <2>2. IsHeld(e, x)' => IsHeld(e, x) \/ (e = d /\ x = <<"held", c, 0>>)
    BY DEF IsHeld, IndInv, TypeOK, Goto
  <2> QED
    BY <1>3, <2>1, <2>2, PlaceKinds, PlaceKindsAfter
<1> QED
  BY <1>1, <1>2, <1>3 DEF Sole, Gone

LEMMA EnqueueSendsPlaces ==
  ASSUME IndInv, Sole, Gone, NEW c \in Callers, EnqueueSends(c)
  PROVE  Sole' /\ Gone'
<1> USE DEF EnqueueSends
<1>1. cur[c] \in Events /\ c \in Goroutines /\ cur[c] # None
  BY ProviderAssumption DEF IndInv, TypeOK, Control, Goroutines
<1>2. PICK d \in Events : d = cur[c]
  BY <1>1
<1>3. PICK from : from = <<"held", c, 0>>
  OBVIOUS
<1>4. PICK to : to = <<"queue", None, Len(queue) + 1>>
  OBVIOUS
<1>5. queue \in Seq(Events) /\ queue' = Append(queue, d)
  BY <1>2 DEF IndInv, TypeOK
<1>6. \A i \in DOMAIN queue' : \/ i \in DOMAIN queue /\ queue'[i] = queue[i]
                               \/ i = Len(queue) + 1 /\ queue'[i] = d
  BY <1>5
<1>7. pc'[c] = "idle"
  BY <1>1 DEF Goto, IndInv, TypeOK
<1>8. from \in Places(d)
  BY <1>1, <1>2, <1>3, PlaceKinds DEF IsHeld
<1>9. ASSUME NEW e \in Events, NEW x \in Places(e)'
      PROVE  (x \in Places(e) \/ (e = d /\ x = to)) /\ x # from
  <2>1. IsHeld(e, x)' => IsHeld(e, x) /\ x # from
    BY <1>1, <1>3, <1>7 DEF IsHeld, Goto, IndInv, TypeOK
  <2>2. IsQueued(e, x)' => (IsQueued(e, x) \/ (e = d /\ x = to)) /\ x # from
    BY <1>3, <1>4, <1>6 DEF IsQueued
  <2>3. /\ IsBuffered(e, x)' => IsBuffered(e, x) /\ x # from
        /\ IsRequested(e, x)' => IsRequested(e, x) /\ x # from
    BY <1>3 DEF IsBuffered, IsRequested
  <2> QED
    BY <2>1, <2>2, <2>3, PlaceKinds, PlaceKindsAfter
<1> QED
  BY <1>8, <1>9, OneMoves

(* Steps that move no event: a goroutine that captures nothing, or has done *)
(* so, goes on.                                                             *)
LEMMA StaysPlaces ==
  ASSUME Sole, Gone, UNCHANGED <<queue, buffers, sending, outcome>>,
         \A g \in Goroutines : pc'[g] \in {"select", "prepared"} =>
           pc[g] \in {"select", "prepared"} /\ cur'[g] = cur[g]
  PROVE  Sole' /\ Gone'
<1>1. ASSUME NEW e \in Events, NEW x \in Places(e)' PROVE x \in Places(e)
  <2>1. /\ IsQueued(e, x)' = IsQueued(e, x)
        /\ IsBuffered(e, x)' = IsBuffered(e, x)
        /\ IsRequested(e, x)' = IsRequested(e, x)
    BY DEF IsQueued, IsBuffered, IsRequested
  <2>2. IsHeld(e, x)' => IsHeld(e, x)
    BY DEF IsHeld
  <2> QED
    BY <2>1, <2>2, PlaceKinds, PlaceKindsAfter
<1> QED
  BY <1>1, NothingMoves

LEMMA CaptureDiscardsPlaces ==
  ASSUME IndInv, Sole, Gone, NEW c \in Callers, NEW d \in Events, CaptureDiscards(c, d)
  PROVE  Sole' /\ Gone'
<1> USE DEF CaptureDiscards
<1>1. Places(d) = {}
  BY DEF Gone
<1>2. \A e : Places(e)' = Places(e)
  BY DEF Places, HeldAt, QueuedAt, BufferedAt, RequestedAt, InBuffer, InRequest
<1>3. \A e \in Events \ {d} : outcome'[e] = outcome[e]
  BY DEF IndInv, TypeOK
<1> QED
  BY <1>1, <1>2, <1>3, NothingMoves

LEMMA EnqueueDropsPlaces ==
  ASSUME IndInv, Sole, Gone, NEW c \in Callers, EnqueueDrops(c)
  PROVE  Sole' /\ Gone'
<1> USE DEF EnqueueDrops
<1>1. cur[c] \in Events /\ c \in Goroutines /\ cur[c] # None
  BY ProviderAssumption DEF IndInv, TypeOK, Control, Goroutines
<1>2. PICK d \in Events : d = cur[c]
  BY <1>1
<1>3. PICK from : from = <<"held", c, 0>>
  OBVIOUS
<1>4. Places(d) = {from}
  <2>1. from \in Places(d)
    BY <1>1, <1>2, <1>3, PlaceKinds DEF IsHeld
  <2> QED
    BY <2>1 DEF Sole
<1>5. pc'[c] = "idle"
  BY <1>1 DEF Goto, IndInv, TypeOK
<1>6. ASSUME NEW e \in Events, NEW x \in Places(e)' PROVE x \in Places(e) /\ x # from
  <2>1. IsHeld(e, x)' => IsHeld(e, x) /\ x # from
    BY <1>1, <1>3, <1>5 DEF IsHeld, Goto, IndInv, TypeOK
  <2>2. /\ IsQueued(e, x)' => IsQueued(e, x) /\ x # from
        /\ IsBuffered(e, x)' => IsBuffered(e, x) /\ x # from
        /\ IsRequested(e, x)' => IsRequested(e, x) /\ x # from
    BY <1>3 DEF IsQueued, IsBuffered, IsRequested
  <2> QED
    BY <2>1, <2>2, PlaceKinds, PlaceKindsAfter
<1>7. Places(d)' = {}
  BY <1>4, <1>6
<1>8. \A e \in Events \ {d} : outcome'[e] = outcome[e]
  BY <1>2 DEF IndInv, TypeOK
<1> QED
  BY <1>6, <1>7, <1>8, NothingMoves

LEMMA SendsOnePlaces ==
  ASSUME IndInv, Sole, Gone, NEW g \in Goroutines, SendsOne(g)
  PROVE  Sole' /\ Gone'
<1> USE DEF SendsOne
<1>1. cur[g] \in Events
  BY ProviderAssumption DEF IndInv, TypeOK, Control, CallerLabels, FlusherLabels, Goroutines
<1>2. PICK d \in Events : d = cur[g]
  BY <1>1
<1>3. PICK from : from = <<"held", g, 0>>
  OBVIOUS
<1>4. PICK to : to = <<"request", g, 1>>
  OBVIOUS
<1>5. from \in Places(d)
  BY <1>2, <1>3, PlaceKinds DEF IsHeld
<1>6. pc'[g] = "send" /\ sending'[g] = <<d>>
  BY <1>2 DEF Goto, IndInv, TypeOK
<1>7. \A h \in Goroutines \ {g} : sending'[h] = sending[h]
  BY DEF IndInv, TypeOK
<1>8. DOMAIN <<d>> = {1} /\ <<d>>[1] = d
  OBVIOUS
<1>9. ASSUME NEW e \in Events, NEW x \in Places(e)'
      PROVE  (x \in Places(e) \/ (e = d /\ x = to)) /\ x # from
  <2>1. IsHeld(e, x)' => IsHeld(e, x) /\ x # from
    BY <1>3, <1>6 DEF IsHeld, Goto, IndInv, TypeOK
  <2>2. IsRequested(e, x)' => (IsRequested(e, x) \/ (e = d /\ x = to)) /\ x # from
    BY <1>3, <1>4, <1>6, <1>7, <1>8 DEF IsRequested
  <2>3. /\ IsQueued(e, x)' => IsQueued(e, x) /\ x # from
        /\ IsBuffered(e, x)' => IsBuffered(e, x) /\ x # from
    BY <1>3 DEF IsBuffered, IsQueued
  <2> QED
    BY <2>1, <2>2, <2>3, PlaceKinds, PlaceKindsAfter
<1> QED
  BY <1>5, <1>9, OneMoves

LEMMA BuffersPlaces ==
  ASSUME IndInv, Sole, Gone, NEW g \in Goroutines, Buffers(g)
  PROVE  Sole' /\ Gone'
<1> USE DEF Buffers
<1>1. cur[g] \in Events
  BY ProviderAssumption DEF IndInv, TypeOK, Control, CallerLabels, FlusherLabels, Goroutines
<1>2. PICK d \in Events : d = cur[g]
  BY <1>1
<1>3. PICK t \in BatchTypes : t = TypeOf[d]
  BY <1>2, ProviderAssumption DEF Immediate, EventTypes
<1>4. PICK from : from = <<"held", g, 0>>
  OBVIOUS
<1>5. PICK to : to = <<"buffer", t, Len(buffers[t]) + 1>>
  OBVIOUS
<1>6. from \in Places(d)
  BY <1>2, <1>4, PlaceKinds DEF IsHeld
<1>7. /\ buffers[t] \in Seq(Events)
      /\ buffers'[t] = Append(buffers[t], d)
      /\ \A u \in BatchTypes \ {t} : buffers'[u] = buffers[u]
  BY <1>2, <1>3 DEF IndInv, TypeOK
<1>8. \A i \in DOMAIN buffers'[t] :
        \/ i \in DOMAIN buffers[t] /\ buffers'[t][i] = buffers[t][i]
        \/ i = Len(buffers[t]) + 1 /\ buffers'[t][i] = d
  BY <1>7
<1>9. pc'[g] \in {"flush", "return"} /\ \A h \in Goroutines \ {g} : pc'[h] = pc[h]
  BY DEF Goto, IndInv, TypeOK
<1>10. ASSUME NEW e \in Events, NEW x \in Places(e)'
       PROVE  (x \in Places(e) \/ (e = d /\ x = to)) /\ x # from
  <2>1. IsHeld(e, x)' => IsHeld(e, x) /\ x # from
    BY <1>4, <1>9 DEF IsHeld
  <2>2. IsBuffered(e, x)' => (IsBuffered(e, x) \/ (e = d /\ x = to)) /\ x # from
    <3> SUFFICES ASSUME NEW u \in BatchTypes, NEW i \in DOMAIN buffers'[u],
                        x = <<"buffer", u, i>>, buffers'[u][i] = e
                 PROVE  (IsBuffered(e, x) \/ (e = d /\ x = to)) /\ x # from
      BY DEF IsBuffered
    <3>1. CASE u = t
      BY <1>4, <1>5, <1>8, <3>1 DEF IsBuffered
    <3>2. CASE u # t
      BY <1>4, <1>7, <3>2 DEF IsBuffered
    <3> QED
      BY <3>1, <3>2
  <2>3. /\ IsQueued(e, x)' => IsQueued(e, x) /\ x # from
        /\ IsRequested(e, x)' => IsRequested(e, x) /\ x # from
    BY <1>4 DEF IsRequested, IsQueued
  <2> QED
    BY <2>1, <2>2, <2>3, PlaceKinds, PlaceKindsAfter
<1>11. outcome' = outcome
  OBVIOUS
<1> HIDE DEF Buffers
<1> QED
  BY <1>6, <1>10, <1>11, OneMoves

(* Every event of the buffer keeps its index in the request. *)
LEMMA TakesBatchPlaces ==
  ASSUME IndInv, Sole, Gone, NEW g \in Goroutines, TakesBatch(g)
  PROVE  Sole' /\ Gone'
<1> USE DEF TakesBatch
<1>1. todo[g] \in Seq(BatchTypes) /\ todo[g] # << >> /\ sending[g] = << >>
  BY DEF IndInv, TypeOK, Agenda
<1>2. PICK t \in BatchTypes : t = Head(todo[g])
  BY <1>1
<1>3. /\ buffers'[t] = << >>
      /\ \A u \in BatchTypes \ {t} : buffers'[u] = buffers[u]
      /\ sending'[g] = buffers[t]
      /\ \A h \in Goroutines \ {g} : sending'[h] = sending[h]
  BY <1>2 DEF IndInv, TypeOK
<1>4. pc'[g] \in {"flush", "return", "send"} /\ \A h \in Goroutines \ {g} : pc'[h] = pc[h]
  BY DEF Goto, Rest, IndInv, TypeOK
<1>5. ASSUME NEW e \in Events, NEW x \in Places(e)'
      PROVE  \/ x \in Places(e) /\ \A i : x # <<"buffer", t, i>>
             \/ \E i : x = <<"request", g, i>> /\ <<"buffer", t, i>> \in Places(e)
  <2>1. IsHeld(e, x)' => IsHeld(e, x) /\ \A i : x # <<"buffer", t, i>>
    BY <1>4 DEF IsHeld
  <2>2. IsQueued(e, x)' => IsQueued(e, x) /\ \A i : x # <<"buffer", t, i>>
    BY DEF IsQueued
  <2>3. IsBuffered(e, x)' => IsBuffered(e, x) /\ \A i : x # <<"buffer", t, i>>
    BY <1>3 DEF IsBuffered
  <2>4. IsRequested(e, x)' => \/ IsRequested(e, x) /\ \A i : x # <<"buffer", t, i>>
                              \/ \E i : /\ x = <<"request", g, i>>
                                        /\ IsBuffered(e, <<"buffer", t, i>>)
    <3> SUFFICES ASSUME NEW h \in Goroutines, NEW i \in DOMAIN sending'[h],
                        x = <<"request", h, i>>, sending'[h][i] = e
                 PROVE  \/ IsRequested(e, x) /\ \A j : x # <<"buffer", t, j>>
                        \/ \E j : /\ x = <<"request", g, j>>
                                  /\ IsBuffered(e, <<"buffer", t, j>>)
      BY DEF IsRequested
    <3>1. CASE h = g
      BY <1>3, <3>1 DEF IsBuffered
    <3>2. CASE h # g
      BY <1>3, <3>2 DEF IsRequested
    <3> QED
      BY <3>1, <3>2
  <2> QED
    BY <2>1, <2>2, <2>3, <2>4, PlaceKinds, PlaceKindsAfter
<1>6. Sole'
  <2> SUFFICES ASSUME NEW e \in Events, NEW x \in Places(e)', NEW y \in Places(e)'
               PROVE  x = y
    BY DEF Sole
  <2>1. \A p, q \in Places(e) : p = q
    BY DEF Sole
  <2>2. CASE /\ x \in Places(e) /\ \A i : x # <<"buffer", t, i>>
    BY <1>5, <2>1, <2>2
  <2>3. CASE \E i : x = <<"request", g, i>> /\ <<"buffer", t, i>> \in Places(e)
    <3>1. PICK i : x = <<"request", g, i>> /\ <<"buffer", t, i>> \in Places(e)
      BY <2>3
    <3>2. PICK j : y = <<"request", g, j>> /\ <<"buffer", t, j>> \in Places(e)
      BY <1>5, <2>1, <3>1
    <3>3. <<"buffer", t, i>> = <<"buffer", t, j>>
      BY <2>1, <3>1, <3>2
    <3> QED
      BY <3>1, <3>2, <3>3
  <2> QED
    BY <1>5, <2>2, <2>3
<1>7. Gone'
  BY <1>5 DEF Gone
<1> QED
  BY <1>6, <1>7

(* The events of a request are nowhere else, and leave it settled. *)
LEMMA TransportReturnsPlaces ==
  ASSUME IndInv, Sole, Gone, NEW g \in Goroutines, TransportReturns(g)
  PROVE  Sole' /\ Gone'
<1> USE DEF TransportReturns
<1>1. /\ sending'[g] = << >>
      /\ \A h \in Goroutines \ {g} : sending'[h] = sending[h]
  BY DEF IndInv, TypeOK
<1>2. pc'[g] \in {"flush", "return"} /\ \A h \in Goroutines \ {g} : pc'[h] = pc[h]
  BY DEF Goto, Rest, IndInv, TypeOK
<1>3. ASSUME NEW e \in Events, NEW x \in Places(e)'
      PROVE  x \in Places(e) /\ \A i : x # <<"request", g, i>>
  <2>1. IsHeld(e, x)' => IsHeld(e, x) /\ \A i : x # <<"request", g, i>>
    BY <1>2 DEF IsHeld
  <2>2. IsQueued(e, x)' => IsQueued(e, x) /\ \A i : x # <<"request", g, i>>
    BY DEF IsQueued
  <2>3. IsBuffered(e, x)' => IsBuffered(e, x) /\ \A i : x # <<"request", g, i>>
    BY DEF IsBuffered
  <2>4. IsRequested(e, x)' => IsRequested(e, x) /\ \A i : x # <<"request", g, i>>
    BY <1>1 DEF IsRequested
  <2> QED
    BY <2>1, <2>2, <2>3, <2>4, PlaceKinds, PlaceKindsAfter
<1>4. ASSUME NEW e \in Events, outcome'[e] # outcome[e] PROVE Places(e)' = {}
  <2>1. e \in Range(sending[g])
    BY <1>4
  <2>2. PICK i \in DOMAIN sending[g] : sending[g][i] = e
    BY <2>1 DEF Range
  <2>3. <<"request", g, i>> \in Places(e)
    BY <2>2, PlaceKinds DEF IsRequested
  <2> QED
    BY <1>3, <2>3 DEF Sole
<1> QED
  BY <1>3, <1>4, NothingMoves

(* The channel moves up by one. *)
LEMMA WorkerReceivesPlaces ==
  ASSUME IndInv, Sole, Gone, WorkerReceives
  PROVE  Sole' /\ Gone'
<1> USE DEF WorkerReceives
<1>1. queue \in Seq(Events) /\ queue # << >> /\ queue' = Tail(queue) /\ Worker \in Goroutines
  BY DEF IndInv, TypeOK, Goroutines
<1>2. PICK d \in Events : d = Head(queue)
  BY <1>1
<1>3. /\ 1 \in DOMAIN queue /\ queue[1] = d
      /\ \A i \in DOMAIN queue' : i \in Nat \ {0} /\ i + 1 \in DOMAIN queue
                                /\ queue'[i] = queue[i + 1]
  BY <1>1, <1>2
<1>4. pc'[Worker] = "prepared" /\ cur'[Worker] = d
  BY <1>1, <1>2 DEF Goto, IndInv, TypeOK
<1>5. \A h \in Goroutines \ {Worker} : pc'[h] = pc[h] /\ cur'[h] = cur[h]
  BY DEF Goto, IndInv, TypeOK
<1>6. <<"queue", None, 1>> \in Places(d)
  BY <1>3, PlaceKinds DEF IsQueued
<1>7. ASSUME NEW e \in Events, NEW x \in Places(e)'
      PROVE  \/ x \in Places(e) /\ \A i : x # <<"queue", None, i>>
             \/ e = d /\ x = <<"held", Worker, 0>>
             \/ \E i \in Nat \ {0} : /\ x = <<"queue", None, i>>
                                     /\ <<"queue", None, i + 1>> \in Places(e)
  <2>1. IsHeld(e, x)' => \/ IsHeld(e, x) /\ \A i : x # <<"queue", None, i>>
                         \/ e = d /\ x = <<"held", Worker, 0>>
    BY <1>4, <1>5 DEF IsHeld
  <2>2. IsQueued(e, x)' => \E i \in Nat \ {0} : /\ x = <<"queue", None, i>>
                                              /\ IsQueued(e, <<"queue", None, i + 1>>)
    BY <1>3 DEF IsQueued
  <2>3. IsBuffered(e, x)' => IsBuffered(e, x) /\ \A i : x # <<"queue", None, i>>
    BY DEF IsBuffered
  <2>4. IsRequested(e, x)' => IsRequested(e, x) /\ \A i : x # <<"queue", None, i>>
    BY DEF IsRequested
  <2> QED
    BY <2>1, <2>2, <2>3, <2>4, PlaceKinds, PlaceKindsAfter
<1>8. ASSUME NEW x \in Places(d)' PROVE x = <<"held", Worker, 0>>
  <2>1. \A p \in Places(d) : p = <<"queue", None, 1>>
    BY <1>6 DEF Sole
  <2>2. \A i \in Nat \ {0} : <<"queue", None, i + 1>> # <<"queue", None, 1>>
    <3>1. \A i \in Nat \ {0} : i + 1 # 1
      OBVIOUS
    <3> QED
      BY <3>1
  <2> QED
    BY <1>7, <2>1, <2>2
<1>9. Sole'
  <2> SUFFICES ASSUME NEW e \in Events, e # d, NEW x \in Places(e)', NEW y \in Places(e)'
               PROVE  x = y
    BY <1>8 DEF Sole
  <2>1. \A p, q \in Places(e) : p = q
    BY DEF Sole
  <2>2. CASE x \in Places(e) /\ \A i : x # <<"queue", None, i>>
    BY <1>7, <2>1, <2>2
  <2>3. CASE \E i \in Nat \ {0} : /\ x = <<"queue", None, i>>
                                 /\ <<"queue", None, i + 1>> \in Places(e)
    <3>1. PICK i \in Nat \ {0} : /\ x = <<"queue", None, i>>
                                /\ <<"queue", None, i + 1>> \in Places(e)
      BY <2>3
    <3>2. PICK j \in Nat \ {0} : /\ y = <<"queue", None, j>>
                                /\ <<"queue", None, j + 1>> \in Places(e)
      BY <1>7, <2>1, <3>1
    <3>3. <<"queue", None, i + 1>> = <<"queue", None, j + 1>>
      BY <2>1, <3>1, <3>2
    <3>4. i + 1 = j + 1
      BY <3>3
    <3> QED
      BY <3>1, <3>2, <3>4
  <2> QED
    BY <1>7, <2>2, <2>3
<1>10. Gone'
  <2>1. outcome[d] = "accepted"
    BY <1>6 DEF Gone
  <2> QED
    BY <1>7, <2>1 DEF Gone
<1> QED
  BY <1>9, <1>10

LEMMA StepPlaces ==
  ASSUME IndInv, Sole, Gone, [Next]_vars
  PROVE  Sole' /\ Gone'
<1>1. ASSUME NEW c \in Callers, CallerStep(c)
      PROVE  Sole' /\ Gone'
  <2>1. CASE CaptureReturns(c)
    <3>1. c \in Goroutines /\ pc'[c] = "idle"
      BY <2>1 DEF CaptureReturns, Goto, Goroutines, IndInv, TypeOK
    <3>2. \A g \in Goroutines \ {c} : pc'[g] = pc[g] /\ cur'[g] = cur[g]
      BY <2>1 DEF CaptureReturns, Goto, IndInv, TypeOK
    <3> QED
      BY <2>1, <3>1, <3>2, StaysPlaces DEF CaptureReturns
  <2> QED
    BY <1>1, <2>1, EnqueueSendsPlaces, EnqueueDropsPlaces DEF CallerStep
<1>2. ASSUME NEW c \in Callers, NEW e \in Events, CaptureDiscards(c, e) \/ CaptureBegins(c, e)
      PROVE  Sole' /\ Gone'
  BY <1>2, CaptureDiscardsPlaces, CaptureBeginsPlaces
<1>3. ASSUME NEW f \in Flushers, FlusherStep(f) \/ FlushBegins(f) \/ FlushGivesUp(f)
      PROVE  Sole' /\ Gone'
  <2>1. /\ f \in Goroutines
        /\ pc'[f] \notin {"select", "prepared"}
        /\ \A g \in Goroutines \ {f} : pc'[g] = pc[g]
    BY <1>3 DEF FlusherStep, WaitEnds, FlushProceeds, FlushReturns, FlushBegins, FlushGivesUp,
                Goto, Goroutines, IndInv, TypeOK
  <2>2. UNCHANGED <<queue, buffers, sending, outcome, cur>>
    BY <1>3 DEF FlusherStep, WaitEnds, FlushProceeds, FlushReturns, FlushBegins, FlushGivesUp
  <2> QED
    BY <2>1, <2>2, StaysPlaces
<1>4. CASE Tick \/ WorkerLoops
  <2>1. /\ Worker \in Goroutines
        /\ pc'[Worker] \notin {"select", "prepared"}
        /\ \A g \in Goroutines \ {Worker} : pc'[g] = pc[g] /\ cur'[g] = cur[g]
    BY <1>4 DEF Tick, WorkerLoops, Goto, Goroutines, IndInv, TypeOK
  <2>2. UNCHANGED <<queue, buffers, sending, outcome>>
    BY <1>4 DEF Tick, WorkerLoops
  <2> QED
    BY <2>1, <2>2, StaysPlaces
<1>5. ASSUME NEW g \in Goroutines, SendPath(g)
      PROVE  Sole' /\ Gone'
  BY <1>5, SendsOnePlaces, BuffersPlaces, TakesBatchPlaces, TransportReturnsPlaces DEF SendPath
<1>6. CASE UNCHANGED vars
  BY <1>6, StaysPlaces DEF vars
<1> QED
  BY <1>1, <1>2, <1>3, <1>4, <1>5, <1>6, WorkerReceivesPlaces DEF Next

-----------------------------------------------------------------------------
(* Batches are of one type. *)

LEMMA StepOfOneType ==
  ASSUME IndInv, OfOneType, [Next]_vars
  PROVE  OfOneType'
<1>1. CASE UNCHANGED <<buffers, sending>>
  BY <1>1 DEF OfOneType
<1>2. ASSUME NEW g \in Goroutines, SendsOne(g)
      PROVE  OfOneType'
  <2>1. Len(sending'[g]) = 1 /\ \A h \in Goroutines \ {g} : sending'[h] = sending[h]
    BY <1>2 DEF SendsOne, IndInv, TypeOK
  <2>2. buffers' = buffers
    BY <1>2 DEF SendsOne
  <2> QED
    BY <2>1, <2>2 DEF OfOneType
<1>3. ASSUME NEW g \in Goroutines, Buffers(g)
      PROVE  OfOneType'
  <2>1. cur[g] \in Events /\ sending' = sending
    BY <1>3, ProviderAssumption
       DEF Buffers, IndInv, TypeOK, Control, CallerLabels, FlusherLabels, Goroutines
  <2>2. PICK t \in BatchTypes : t = TypeOf[cur[g]]
    BY <1>3, <2>1, ProviderAssumption DEF Buffers, Immediate, EventTypes
  <2>3. /\ buffers[t] \in Seq(Events)
        /\ buffers'[t] = Append(buffers[t], cur[g])
        /\ \A u \in BatchTypes \ {t} : buffers'[u] = buffers[u]
    BY <1>3, <2>2 DEF Buffers, IndInv, TypeOK
  <2>4. \A i \in DOMAIN buffers'[t] :
          \/ i \in DOMAIN buffers[t] /\ buffers'[t][i] = buffers[t][i]
          \/ buffers'[t][i] = cur[g]
    BY <2>1, <2>3
  <2>5. ASSUME NEW u \in BatchTypes, NEW i \in DOMAIN buffers'[u]
        PROVE  TypeOf[buffers'[u][i]] = u
    <3>1. CASE u = t
      <4>1. \A j \in DOMAIN buffers[t] : TypeOf[buffers[t][j]] = t
        BY DEF OfOneType
      <4> QED
        BY <2>2, <2>4, <3>1, <4>1
    <3>2. CASE u # t
      <4>1. buffers'[u] = buffers[u]
        BY <2>3, <3>2
      <4> QED
        BY <4>1 DEF OfOneType
    <3> QED
      BY <3>1, <3>2
  <2>6. \A h \in Goroutines :
          \/ \E u \in BatchTypes : \A i \in DOMAIN sending'[h] : TypeOf[sending'[h][i]] = u
          \/ Len(sending'[h]) = 1
    BY <2>1 DEF OfOneType
  <2> QED
    BY <2>5, <2>6 DEF OfOneType
<1>4. ASSUME NEW g \in Goroutines, TakesBatch(g)
      PROVE  OfOneType'
  <2>1. Head(todo[g]) \in BatchTypes
    BY <1>4 DEF TakesBatch, IndInv, TypeOK, Agenda
  <2>2. PICK t \in BatchTypes : t = Head(todo[g])
    BY <2>1
  <2>3. /\ buffers'[t] = << >>
        /\ \A u \in BatchTypes \ {t} : buffers'[u] = buffers[u]
        /\ sending'[g] = buffers[t]
        /\ \A h \in Goroutines \ {g} : sending'[h] = sending[h]
    BY <1>4, <2>2 DEF TakesBatch, IndInv, TypeOK
  <2>4. \A u \in BatchTypes : \A i \in DOMAIN buffers'[u] : TypeOf[buffers'[u][i]] = u
    BY <2>3 DEF OfOneType
  <2>5. \A i \in DOMAIN sending'[g] : TypeOf[sending'[g][i]] = t
    BY <2>3 DEF OfOneType
  <2>6. ASSUME NEW h \in Goroutines
        PROVE  \/ \E u \in BatchTypes : \A i \in DOMAIN sending'[h] : TypeOf[sending'[h][i]] = u
               \/ Len(sending'[h]) = 1
    <3>1. CASE h = g
      BY <2>5, <3>1
    <3>2. CASE h # g
      <4>1. sending'[h] = sending[h]
        BY <2>3, <3>2
      <4> QED
        BY <4>1 DEF OfOneType
    <3> QED
      BY <3>1, <3>2
  <2> QED
    BY <2>4, <2>6 DEF OfOneType
<1>5. ASSUME NEW g \in Goroutines, TransportReturns(g)
      PROVE  OfOneType'
  <2>1. /\ sending'[g] = << >> /\ buffers' = buffers
        /\ \A h \in Goroutines \ {g} : sending'[h] = sending[h]
    BY <1>5 DEF TransportReturns, IndInv, TypeOK
  <2>2. \E t \in BatchTypes : \A i \in DOMAIN << >> : TypeOf[<< >>[i]] = t
    BY DEF BatchTypes
  <2> QED
    BY <2>1, <2>2 DEF OfOneType
<1>6. ASSUME NEW c \in Callers, CallerStep(c)
      PROVE  UNCHANGED <<buffers, sending>>
  BY <1>6 DEF CallerStep, EnqueueSends, EnqueueDrops, CaptureReturns
<1>7. ASSUME NEW c \in Callers, NEW e \in Events, CaptureDiscards(c, e) \/ CaptureBegins(c, e)
      PROVE  UNCHANGED <<buffers, sending>>
  BY <1>7 DEF CaptureDiscards, CaptureBegins
<1>8. ASSUME NEW f \in Flushers, FlusherStep(f) \/ FlushBegins(f) \/ FlushGivesUp(f)
      PROVE  UNCHANGED <<buffers, sending>>
  BY <1>8 DEF FlusherStep, WaitEnds, FlushProceeds, FlushReturns, FlushBegins, FlushGivesUp
<1>9. CASE WorkerReceives \/ Tick \/ WorkerLoops \/ UNCHANGED vars
  BY <1>1, <1>9 DEF WorkerReceives, Tick, WorkerLoops, vars
<1> QED
  BY <1>1, <1>2, <1>3, <1>4, <1>5, <1>6, <1>7, <1>8, <1>9 DEF Next, SendPath

(* IndInv, and where each event is. *)
THEOREM PlaceInvariance == Spec => []PlaceInv
<1>1. Init => Sole /\ Gone /\ OfOneType
  BY InitPlaces
<1>2. IndInv /\ (Sole /\ Gone /\ OfOneType) /\ [Next]_vars => (Sole /\ Gone /\ OfOneType)'
  BY StepPlaces, StepOfOneType
<1>3. Spec => [](Sole /\ Gone /\ OfOneType)
  BY <1>1, <1>2, Invariance, PTL DEF Spec
<1>4. IndInv /\ (Sole /\ Gone /\ OfOneType) => PlaceInv
  BY DEF PlaceInv
<1> QED
  BY <1>3, <1>4, Invariance, PTL

(* An accepted event is in exactly one place until it is settled or         *)
(* dropped, and nowhere afterwards.                                         *)
THEOREM EventsAreInOnePlace == Spec => []InOnePlace
<1>1. PlaceInv => InOnePlace
  <2> SUFFICES ASSUME PlaceInv, NEW e \in Events
               PROVE  Cardinality(Places(e)) = IF outcome[e] = "accepted" THEN 1 ELSE 0
    BY DEF InOnePlace
  <2>1. CASE outcome[e] # "accepted"
    BY <2>1, FS_EmptySet DEF PlaceInv, Gone
  <2>2. CASE outcome[e] = "accepted"
    <3>1. \E x : IsHeld(e, x) \/ IsQueued(e, x) \/ IsBuffered(e, x) \/ IsRequested(e, x)
      <4>1. CASE \E g \in Goroutines : pc[g] \in {"select", "prepared"} /\ cur[g] = e
        BY <4>1 DEF IsHeld
      <4>2. CASE e \in Range(queue)
        BY <4>2 DEF IsQueued, Range
      <4>3. CASE \E t \in BatchTypes : e \in Range(buffers[t])
        BY <4>3 DEF IsBuffered, Range
      <4>4. CASE \E g \in Goroutines : e \in Range(sending[g])
        BY <4>4 DEF IsRequested, Range
      <4> QED
        BY <2>2, <4>1, <4>2, <4>3, <4>4 DEF PlaceInv, IndInv, Located
    <3>2. PICK x : x \in Places(e)
      BY <3>1, PlaceKinds
    <3>3. Places(e) = {x}
      BY <3>2 DEF PlaceInv, Sole
    <3> QED
      BY <2>2, <3>3, FS_Singleton
  <2> QED
    BY <2>1, <2>2
<1> QED
  BY <1>1, PlaceInvariance, PTL

-----------------------------------------------------------------------------
(* The refinement. *)

(* A request has no more distinct events than it is long. *)
LEMMA RangeCardinality ==
  ASSUME NEW S, NEW s \in Seq(S)
  PROVE  IsFiniteSet(Range(s)) /\ Cardinality(Range(s)) <= Len(s)
<1>1. s \in Surjection(1..Len(s), Range(s))
  BY DEF Range, Surjection
<1>2. IsFiniteSet(1..Len(s)) /\ Cardinality(1..Len(s)) = Len(s)
  <2>1. 1 \in Int /\ Len(s) \in Int /\ Len(s) >= 0
    OBVIOUS
  <2>2. /\ IsFiniteSet(1..Len(s))
        /\ Cardinality(1..Len(s)) = IF 1 > Len(s) THEN 0 ELSE Len(s) - 1 + 1
    BY <2>1, FS_Interval
  <2> QED
    BY <2>1, <2>2
<1> QED
  BY <1>1, <1>2, FS_Surjection

(* The ledger counts as the provider does. *)
LEMMA LedgerCounts ==
  ASSUME NEW S
  PROVE  Ledger!Cardinality(S) = Cardinality(S)
BY DEF Cardinality, Ledger!Cardinality

LEMMA LimitIsPositive == MaxBatch \in Nat \ {0}
<1> USE ProviderAssumption
<1>1. IsFiniteSet(Appenders) /\ Appenders # {}
  BY FS_Singleton DEF Appenders
<1>2. Cardinality(Appenders) \in Nat \ {0}
  BY <1>1, FS_CardinalityType, FS_EmptySet
<1> QED
  BY <1>2 DEF MaxBatch

LEMMA LimitStays ==
  ASSUME [Next]_vars
  PROVE  MaxBatch' = MaxBatch
BY ModeStays DEF MaxBatch, Appenders

(* At the select of enqueue the event is accepted, and nobody else has it. *)
LEMMA AtSelect ==
  ASSUME PlaceInv, NEW c \in Enqueueing
  PROVE  /\ async /\ cur[c] \in Events /\ outcome[cur[c]] = "accepted"
         /\ \A d \in Enqueueing \ {c} : cur[d] # cur[c]
         /\ IsHeld(cur[c], <<"held", c, 0>>) /\ <<"held", c, 0>> \in Places(cur[c])
<1>1. c \in Callers /\ c \in Goroutines /\ pc[c] = "select"
  BY DEF Enqueueing, Goroutines
<1>2. cur[c] \in Events /\ async
  BY <1>1, ProviderAssumption DEF PlaceInv, IndInv, TypeOK, Control, CallerLabels
<1>3. IsHeld(cur[c], <<"held", c, 0>>)
  BY <1>1 DEF IsHeld
<1>4. <<"held", c, 0>> \in Places(cur[c])
  BY <1>3, PlaceKinds
<1>5. outcome[cur[c]] = "accepted"
  BY <1>2, <1>4 DEF PlaceInv, Gone
<1>6. ASSUME NEW d \in Enqueueing, d # c PROVE cur[d] # cur[c]
  <2> SUFFICES ASSUME cur[d] = cur[c] PROVE FALSE
    OBVIOUS
  <2>1. IsHeld(cur[c], <<"held", d, 0>>)
    BY <1>6 DEF Enqueueing, Goroutines, IsHeld
  <2>2. <<"held", d, 0>> \in Places(cur[c])
    BY <2>1, PlaceKinds
  <2>3. <<"held", d, 0>> = <<"held", c, 0>>
    BY <1>2, <1>4, <2>2 DEF PlaceInv, Sole
  <2> QED
    BY <1>6, <2>3
<1> QED
  BY <1>2, <1>3, <1>4, <1>5, <1>6

(* What is in a request is neither offered to the channel nor in it. *)
LEMMA RequestedIsPast ==
  ASSUME PlaceInv, NEW e \in Events, NEW x, x \in Places(e), IsRequested(e, x)
  PROVE  e \notin Offered \union Ledger!Waiting
<1>1. ASSUME NEW i \in DOMAIN queue, queue[i] = e PROVE FALSE
  <2>1. <<"queue", None, i>> \in Places(e)
    BY <1>1, PlaceKinds DEF IsQueued
  <2>2. x = <<"queue", None, i>>
    BY <2>1 DEF PlaceInv, Sole
  <2> QED
    BY <2>2 DEF IsRequested
<1>2. ASSUME NEW c \in Enqueueing, cur[c] = e PROVE FALSE
  <2>1. <<"held", c, 0>> \in Places(e)
    BY <1>2, AtSelect
  <2>2. x = <<"held", c, 0>>
    BY <2>1 DEF PlaceInv, Sole
  <2> QED
    BY <2>2 DEF IsRequested
<1> QED
  BY <1>1, <1>2 DEF Ledger!Waiting, Offered

(* A caller that leaves the select takes its event off the offer. *)
LEMMA LeavesSelect ==
  ASSUME PlaceInv, NEW c \in Callers, pc[c] = "select", Goto(c, "idle"),
         cur' = [cur EXCEPT ![c] = None]
  PROVE  /\ cur[c] \in Offered /\ cur[c] \in Events
         /\ Offered' = Offered \ {cur[c]}
<1>1. c \in Enqueueing
  BY DEF Enqueueing
<1>2. Enqueueing' = Enqueueing \ {c}
  BY DEF Enqueueing, Goto, PlaceInv, IndInv, TypeOK, Goroutines
<1>3. \A d \in Enqueueing \ {c} : cur'[d] = cur[d] /\ cur[d] # cur[c]
  BY <1>1, AtSelect DEF Enqueueing, PlaceInv, IndInv, TypeOK, Goroutines
<1>4. cur[c] \in Events
  BY <1>1, AtSelect
<1>5. Offered' = {cur'[d] : d \in Enqueueing \ {c}}
  BY <1>2 DEF Offered
<1>6. {cur'[d] : d \in Enqueueing \ {c}} = {cur[d] : d \in Enqueueing \ {c}}
  BY <1>3
<1>7. {cur[d] : d \in Enqueueing \ {c}} = {cur[d] : d \in Enqueueing} \ {cur[c]}
  BY <1>1, <1>3
<1> QED
  BY <1>1, <1>4, <1>5, <1>6, <1>7 DEF Offered

(* A step of one that is not at the select, and does not come to it, leaves *)
(* the offer as it is.                                                      *)
LEMMA OfferStays ==
  ASSUME PlaceInv, NEW g \in Goroutines, pc[g] # "select", pc'[g] # "select",
         \A h \in Goroutines \ {g} : pc'[h] = pc[h] /\ cur'[h] = cur[h]
  PROVE  Offered' = Offered
<1>1. Enqueueing' = Enqueueing /\ \A c \in Enqueueing : cur'[c] = cur[c]
  BY DEF Enqueueing, Goroutines
<1> QED
  BY <1>1 DEF Offered

(* One request settles its events, together. *)
LEMMA TransportReturnsSettles ==
  ASSUME PlaceInv, NEW g \in Goroutines, TransportReturns(g)
  PROVE  \E batch \in SUBSET Events, fate \in Ledger!Settled : Ledger!Settle(batch, fate)
<1> DEFINE items == sending[g]
           batch == Range(items)
<1>1. items \in Seq(Events) /\ items # << >> /\ pc[g] = "send"
  BY DEF TransportReturns, PlaceInv, IndInv, TypeOK, Agenda
<1>2. batch \subseteq Events /\ batch # {}
  <2>1. \A i \in DOMAIN items : items[i] \in Events
    BY <1>1
  <2>2. 1 \in DOMAIN items
    BY <1>1
  <2>3. \A e \in batch : \E i \in DOMAIN items : e = items[i]
    BY DEF Range
  <2>4. items[1] \in batch
    BY <2>2 DEF Range
  <2> QED
    BY <2>1, <2>3, <2>4
<1>3. Cardinality(batch) <= MaxBatch
  <2>1. Len(items) <= MaxBatch
    BY DEF PlaceInv, IndInv, BatchBound
  <2>2. Cardinality(batch) <= Len(items) /\ Cardinality(batch) \in Nat
    BY <1>1, RangeCardinality, FS_CardinalityType
  <2> QED
    BY <1>1, <2>1, <2>2, LimitIsPositive
<1>4. \A e \in batch : outcome[e] = "accepted" /\ e \notin Offered \union Ledger!Waiting
  <2> SUFFICES ASSUME NEW i \in DOMAIN items
               PROVE  /\ outcome[items[i]] = "accepted"
                      /\ items[i] \notin Offered \union Ledger!Waiting
    BY DEF Range
  <2>1. IsRequested(items[i], <<"request", g, i>>) /\ items[i] \in Events
    BY <1>1 DEF IsRequested
  <2>2. <<"request", g, i>> \in Places(items[i])
    BY <2>1, PlaceKinds
  <2> QED
    BY <2>1, <2>2, RequestedIsPast DEF PlaceInv, Gone
<1>5. \A e, d \in batch : TypeOf[e] = TypeOf[d] /\ (TypeOf[e] = "transactions" => d = e)
  <2>1. CASE Len(items) = 1
    <3>1. batch = {items[1]}
      BY <1>1, <2>1 DEF Range
    <3> QED
      BY <3>1
  <2>2. CASE \E t \in BatchTypes : \A i \in DOMAIN items : TypeOf[items[i]] = t
    <3>1. PICK t \in BatchTypes : \A i \in DOMAIN items : TypeOf[items[i]] = t
      BY <2>2
    <3>2. t # "transactions" /\ \A e \in batch : TypeOf[e] = t
      BY <3>1 DEF BatchTypes, Range
    <3> QED
      BY <3>2
  <2> QED
    BY <2>1, <2>2 DEF PlaceInv, OfOneType
<1>6. PICK fate \in {"delivered", "failed"} :
        outcome' = [e \in Events |-> IF e \in batch THEN fate ELSE outcome[e]]
        /\ queue' = queue
  BY DEF TransportReturns
<1>8. Offered' = Offered
  <2>1. /\ pc \in [Goroutines -> Labels] /\ pc'[g] = Rest(todo[g])
        /\ \A h \in Goroutines \ {g} : pc'[h] = pc[h] /\ cur'[h] = cur[h]
    BY DEF TransportReturns, Goto, PlaceInv, IndInv, TypeOK
  <2> QED
    BY <1>1, <2>1, OfferStays DEF Rest
<1> HIDE DEF batch
<1>7. Ledger!Settle(batch, fate)
  <2>1. Ledger!Cardinality(batch) <= MaxBatch
    BY <1>3, LedgerCounts
  <2> QED
    BY <1>2, <2>1, <1>4, <1>5, <1>6, <1>8 DEF Ledger!Settle
<1> QED
  BY <1>2, <1>6, <1>7 DEF Ledger!Settled

LEMMA StepIsLedgerStep ==
  ASSUME PlaceInv, [Next]_vars
  PROVE  [Ledger!Next]_(Ledger!vars)
<1>1. MaxBatch' = MaxBatch /\ async' = async
  BY LimitStays, ModeStays
<1>2. ASSUME UNCHANGED <<queue, outcome, Offered>> PROVE [Ledger!Next]_(Ledger!vars)
  BY <1>1, <1>2 DEF Ledger!vars
<1>3. ASSUME NEW e \in Events,
             \/ Ledger!Discard(e) \/ Ledger!Accept(e)
             \/ Ledger!Enter(e) \/ Ledger!Drop(e)
      PROVE  [Ledger!Next]_(Ledger!vars)
  BY <1>1, <1>3 DEF Ledger!Next
<1>4. ASSUME NEW c \in Callers, NEW e \in Events, CaptureDiscards(c, e)
      PROVE  [Ledger!Next]_(Ledger!vars)
  <2>1. Offered' = Offered
    BY <1>4 DEF CaptureDiscards, Offered, Enqueueing
  <2> QED
    BY <1>3, <1>4, <2>1 DEF CaptureDiscards, Ledger!Discard
<1>5. ASSUME NEW c \in Callers, NEW e \in Events, CaptureBegins(c, e)
      PROVE  [Ledger!Next]_(Ledger!vars)
  <2>1. /\ c \in Goroutines /\ c \notin Enqueueing
        /\ pc \in [Goroutines -> Labels]
        /\ cur' = [cur EXCEPT ![c] = e] /\ cur \in [Goroutines -> Events \union {None}]
    BY <1>5 DEF CaptureBegins, Enqueueing, Goroutines, PlaceInv, IndInv, TypeOK
  <2>2. Offered' = IF async THEN Offered \union {e} ELSE Offered
    <3>1. CASE async
      <4>1. Enqueueing' = Enqueueing \union {c}
        BY <1>5, <2>1, <3>1 DEF CaptureBegins, Goto, Enqueueing, Goroutines
      <4>2. cur'[c] = e /\ \A d \in Enqueueing : cur'[d] = cur[d]
        BY <2>1 DEF Enqueueing, Goroutines
      <4> QED
        BY <3>1, <4>1, <4>2 DEF Offered
    <3>2. CASE ~async
      <4>1. pc'[c] = "prepared" /\ pc[c] = "idle"
            /\ \A h \in Goroutines \ {c} : pc'[h] = pc[h] /\ cur'[h] = cur[h]
        BY <1>5, <2>1, <3>2 DEF CaptureBegins, Goto
      <4> QED
        BY <2>1, <3>2, <4>1, OfferStays
    <3> QED
      BY <3>1, <3>2
  <2> QED
    BY <1>3, <1>5, <2>2 DEF CaptureBegins, Ledger!Accept
<1>6. ASSUME NEW c \in Callers, EnqueueDrops(c)
      PROVE  [Ledger!Next]_(Ledger!vars)
  <2>1. cur[c] \in Offered /\ cur[c] \in Events /\ Offered' = Offered \ {cur[c]}
    BY <1>6, LeavesSelect DEF EnqueueDrops
  <2>2. Ledger!Drop(cur[c])
    BY <1>6, <2>1 DEF EnqueueDrops, Ledger!Drop
  <2> QED
    BY <1>3, <2>1, <2>2
<1>7. ASSUME NEW c \in Callers, EnqueueSends(c)
      PROVE  [Ledger!Next]_(Ledger!vars)
  <2>1. cur[c] \in Offered /\ cur[c] \in Events /\ Offered' = Offered \ {cur[c]}
    BY <1>7, LeavesSelect DEF EnqueueSends
  <2>2. Ledger!Enter(cur[c])
    BY <1>7, <2>1 DEF EnqueueSends, Ledger!Enter
  <2> QED
    BY <1>3, <2>1, <2>2
<1>8. ASSUME NEW g \in Goroutines, UNCHANGED <<queue, outcome>>, pc[g] # "select",
             pc' = [pc EXCEPT ![g] = pc'[g]], pc'[g] # "select",
             cur' = cur \/ cur' = [cur EXCEPT ![g] = cur'[g]]
      PROVE  [Ledger!Next]_(Ledger!vars)
  <2>1. \A h \in Goroutines \ {g} : pc'[h] = pc[h] /\ cur'[h] = cur[h]
    BY <1>8 DEF PlaceInv, IndInv, TypeOK
  <2> QED
    BY <1>2, <1>8, <2>1, OfferStays
<1>9. ASSUME \/ \E c \in Callers : CaptureReturns(c)
             \/ \E f \in Flushers : FlusherStep(f) \/ FlushBegins(f) \/ FlushGivesUp(f)
             \/ Tick \/ WorkerLoops
      PROVE  [Ledger!Next]_(Ledger!vars)
  <2>1. pc \in [Goroutines -> Labels] /\ cur \in [Goroutines -> Events \union {None}]
    BY DEF PlaceInv, IndInv, TypeOK
  <2>2. ASSUME NEW c \in Callers, CaptureReturns(c) PROVE [Ledger!Next]_(Ledger!vars)
    BY <1>8, <2>1, <2>2 DEF CaptureReturns, Goto, Goroutines
  <2>3. ASSUME NEW f \in Flushers, FlusherStep(f) \/ FlushBegins(f) \/ FlushGivesUp(f)
        PROVE  [Ledger!Next]_(Ledger!vars)
    BY <1>8, <2>1, <2>3
       DEF FlusherStep, WaitEnds, FlushProceeds, FlushReturns, FlushBegins, FlushGivesUp,
           Goto, Goroutines
  <2>4. CASE Tick \/ WorkerLoops
    BY <1>8, <2>1, <2>4 DEF Tick, WorkerLoops, Goto, Goroutines
  <2> QED
    BY <1>9, <2>2, <2>3, <2>4
<1>10. ASSUME NEW g \in Goroutines, SendsOne(g) \/ Buffers(g) \/ TakesBatch(g)
       PROVE  [Ledger!Next]_(Ledger!vars)
  <2>1. /\ UNCHANGED <<queue, outcome, cur>> /\ pc[g] # "select"
        /\ \E label \in {"send", "flush", "return"} : pc' = [pc EXCEPT ![g] = label]
    BY <1>10 DEF SendsOne, Buffers, TakesBatch, Goto, Rest
  <2> QED
    BY <1>8, <2>1 DEF PlaceInv, IndInv, TypeOK
<1>11. ASSUME NEW g \in Goroutines, TransportReturns(g)
       PROVE  [Ledger!Next]_(Ledger!vars)
  BY <1>1, <1>11, TransportReturnsSettles DEF Ledger!Next
<1>12. CASE WorkerReceives
  <2>1. /\ Worker \in Goroutines /\ pc[Worker] = "idle" /\ pc'[Worker] = "prepared"
        /\ \A h \in Goroutines \ {Worker} : pc'[h] = pc[h] /\ cur'[h] = cur[h]
    BY <1>12 DEF WorkerReceives, Goto, Goroutines, PlaceInv, IndInv, TypeOK
  <2>2. Ledger!Receive
    BY <1>12, <2>1, OfferStays DEF WorkerReceives, Ledger!Receive
  <2> QED
    BY <1>1, <2>2 DEF Ledger!Next
<1>13. CASE UNCHANGED vars
  BY <1>2, <1>13 DEF vars, Offered, Enqueueing
<1> QED
  BY <1>4, <1>5, <1>6, <1>7, <1>9, <1>10, <1>11, <1>12, <1>13
     DEF Next, CallerStep, SendPath

(* The provider keeps the promises of the ledger. *)
THEOREM ProviderImplementsLedger == Spec => ImplementsLedger
<1>1. Init => Ledger!Init
  BY LimitIsPositive, ProviderAssumption DEF Init, Ledger!Init, Offered, Enqueueing, Goroutines
<1>2. PlaceInv /\ [Next]_vars => [Ledger!Next]_(Ledger!vars)
  BY StepIsLedgerStep
<1> QED
  BY <1>1, <1>2, PlaceInvariance, PTL DEF Spec, ImplementsLedger, Ledger!Spec

-----------------------------------------------------------------------------
(* Events go forward.  A step advances them when it keeps what is settled,  *)
(* and moves what it takes from a place to a later one.                     *)

LEMMA AdvancesFrom ==
  ASSUME \A e \in Settled : outcome'[e] = outcome[e],
         \A g \in Goroutines : Range(sending[g]) \subseteq PastBuffers',
         \A t \in BatchTypes : Range(buffers[t]) \subseteq PastWorker',
         InHand \subseteq PastQueue',
         Range(queue) \subseteq PastCaller'
  PROVE  Advances
<1>1. Settled \subseteq Settled'
  BY DEF Settled
<1>2. /\ PastBuffers' \subseteq PastWorker'
      /\ PastWorker' \subseteq PastQueue'
      /\ PastQueue' \subseteq PastCaller'
      /\ Settled' \subseteq PastBuffers'
  BY DEF PastBuffers, PastWorker, PastQueue, PastCaller
<1>3. PastBuffers \subseteq PastBuffers'
  BY <1>1, <1>2 DEF PastBuffers
<1>4. PastWorker \subseteq PastWorker'
  BY <1>2, <1>3 DEF PastWorker
<1>5. PastQueue \subseteq PastQueue'
  BY <1>2, <1>4 DEF PastQueue
<1>6. PastCaller \subseteq PastCaller'
  BY <1>2, <1>5 DEF PastCaller
<1> QED
  BY <1>3, <1>4, <1>5, <1>6 DEF Advances

(* A variable that a step leaves alone keeps its events where they are. *)
LEMMA StayWhereTheyAre ==
  /\ sending' = sending => \A g \in Goroutines : Range(sending[g]) \subseteq PastBuffers'
  /\ buffers' = buffers => \A t \in BatchTypes : Range(buffers[t]) \subseteq PastWorker'
  /\ InHand \subseteq InHand' => InHand \subseteq PastQueue'
  /\ queue' = queue => Range(queue) \subseteq PastCaller'
<1>1. ASSUME sending' = sending, NEW g \in Goroutines
      PROVE  Range(sending[g]) \subseteq PastBuffers'
  BY <1>1 DEF PastBuffers
<1>2. ASSUME buffers' = buffers, NEW t \in BatchTypes
      PROVE  Range(buffers[t]) \subseteq PastWorker'
  BY <1>2 DEF PastWorker
<1>3. ASSUME InHand \subseteq InHand'
      PROVE  InHand \subseteq PastQueue'
  BY <1>3 DEF PastQueue
<1>4. ASSUME queue' = queue
      PROVE  Range(queue) \subseteq PastCaller'
  BY <1>4 DEF PastCaller
<1> QED
  BY <1>1, <1>2, <1>3, <1>4

(* What is in hand stays there when another goroutine takes the step. *)
LEMMA StayInHand ==
  ASSUME NEW g \in Goroutines, pc[g] # "prepared",
         \A h \in Goroutines \ {g} : pc'[h] = pc[h] /\ cur'[h] = cur[h]
  PROVE  InHand \subseteq InHand'
BY DEF InHand

(* What a place holds has been accepted and is not settled. *)
LEMMA HeldIsUnsettled ==
  ASSUME PlaceInv
  PROVE  /\ \A g \in Goroutines : \A e \in Range(sending[g]) : outcome[e] = "accepted"
         /\ \A c \in Callers : pc[c] = "select" => outcome[cur[c]] = "accepted"
<1>1. ASSUME NEW g \in Goroutines, NEW i \in DOMAIN sending[g]
      PROVE  outcome[sending[g][i]] = "accepted"
  <2>1. sending[g][i] \in Events
    BY <1>1 DEF PlaceInv, IndInv, TypeOK
  <2>2. <<"request", g, i>> \in Places(sending[g][i])
    BY <1>1, <2>1, PlaceKinds DEF IsRequested
  <2> QED
    BY <2>1, <2>2 DEF PlaceInv, Gone
<1>2. ASSUME NEW c \in Callers, pc[c] = "select"
      PROVE  outcome[cur[c]] = "accepted"
  <2>1. cur[c] \in Events /\ c \in Goroutines
    BY <1>2, ProviderAssumption DEF PlaceInv, IndInv, TypeOK, Control, Goroutines
  <2>2. <<"held", c, 0>> \in Places(cur[c])
    BY <1>2, <2>1, PlaceKinds DEF IsHeld
  <2> QED
    BY <2>1, <2>2 DEF PlaceInv, Gone
<1> QED
  BY <1>1, <1>2 DEF Range

(* A step that moves no event, and settles none. *)
LEMMA AdvancesByStaying ==
  ASSUME UNCHANGED <<queue, buffers, sending, outcome>>,
         NEW g \in Goroutines, pc[g] # "prepared",
         \A h \in Goroutines \ {g} : pc'[h] = pc[h] /\ cur'[h] = cur[h]
  PROVE  Advances
BY AdvancesFrom, StayWhereTheyAre, StayInHand

LEMMA CaptureAdvances ==
  ASSUME PlaceInv, NEW c \in Callers, NEW e \in Events,
         CaptureDiscards(c, e) \/ CaptureBegins(c, e)
  PROVE  Advances
<1>1. c \in Goroutines /\ pc[c] = "idle" /\ UNCHANGED <<queue, buffers, sending>>
  BY DEF CaptureDiscards, CaptureBegins, Goroutines
<1>2. \A d \in Settled : outcome'[d] = outcome[d]
  BY DEF CaptureDiscards, CaptureBegins, Settled, PlaceInv, IndInv, TypeOK
<1>3. \A h \in Goroutines \ {c} : pc'[h] = pc[h] /\ cur'[h] = cur[h]
  BY DEF CaptureDiscards, CaptureBegins, Goto, PlaceInv, IndInv, TypeOK
<1> QED
  BY <1>1, <1>2, <1>3, AdvancesFrom, StayWhereTheyAre, StayInHand

LEMMA CallerStepAdvances ==
  ASSUME PlaceInv, NEW c \in Callers, CallerStep(c)
  PROVE  Advances
<1>1. c \in Goroutines /\ pc[c] # "prepared" /\ UNCHANGED <<buffers, sending>>
  BY DEF CallerStep, EnqueueSends, EnqueueDrops, CaptureReturns, Goroutines
<1>2. \A h \in Goroutines \ {c} : pc'[h] = pc[h] /\ cur'[h] = cur[h]
  BY DEF CallerStep, EnqueueSends, EnqueueDrops, CaptureReturns, Goto, PlaceInv, IndInv, TypeOK
<1>3. \A e \in Settled : outcome'[e] = outcome[e]
  <2>1. CASE EnqueueDrops(c)
    <3>1. cur[c] \notin Settled
      BY <2>1, HeldIsUnsettled DEF EnqueueDrops, Settled
    <3> QED
      BY <2>1, <3>1 DEF EnqueueDrops, Settled, PlaceInv, IndInv, TypeOK
  <2>2. CASE EnqueueSends(c) \/ CaptureReturns(c)
    BY <2>2 DEF EnqueueSends, CaptureReturns
  <2> QED
    BY <2>1, <2>2 DEF CallerStep
<1>4. Range(queue) \subseteq PastCaller'
  <2>1. CASE EnqueueSends(c)
    <3>1. queue \in Seq(Events) /\ cur[c] \in Events
      BY <1>1, <2>1, ProviderAssumption
         DEF EnqueueSends, PlaceInv, IndInv, TypeOK, Control, Goroutines
    <3>2. Range(queue') = Range(queue) \union {cur[c]}
      BY <2>1, <3>1, RangeAppend DEF EnqueueSends
    <3> QED
      BY <3>2 DEF PastCaller
  <2>2. CASE EnqueueDrops(c) \/ CaptureReturns(c)
    BY <2>2, StayWhereTheyAre DEF EnqueueDrops, CaptureReturns
  <2> QED
    BY <2>1, <2>2 DEF CallerStep
<1> QED
  BY <1>1, <1>2, <1>3, <1>4, AdvancesFrom, StayWhereTheyAre, StayInHand

LEMMA WorkerReceivesAdvances ==
  ASSUME PlaceInv, WorkerReceives
  PROVE  Advances
<1>1. Worker \in Goroutines /\ pc[Worker] # "prepared" /\ UNCHANGED <<buffers, sending, outcome>>
  BY DEF WorkerReceives, Goroutines
<1>2. \A h \in Goroutines \ {Worker} : pc'[h] = pc[h] /\ cur'[h] = cur[h]
  BY DEF WorkerReceives, Goto, PlaceInv, IndInv, TypeOK
<1>3. queue \in Seq(Events) /\ queue # <<>>
  BY DEF WorkerReceives, PlaceInv, IndInv, TypeOK
<1>4. Range(queue) = {Head(queue)} \union Range(queue')
  BY <1>3, RangeHeadTail DEF WorkerReceives
<1>5. Head(queue) \in InHand'
  <2>1. Head(queue) \in Events
    BY <1>3
  <2>2. pc'[Worker] = "prepared" /\ cur'[Worker] = Head(queue)
    BY <1>1 DEF WorkerReceives, Goto, PlaceInv, IndInv, TypeOK
  <2> QED
    BY <1>1, <2>1, <2>2 DEF InHand
<1>6. Range(queue) \subseteq PastCaller'
  BY <1>4, <1>5 DEF PastCaller, PastQueue
<1> QED
  BY <1>1, <1>2, <1>6, AdvancesFrom, StayWhereTheyAre, StayInHand

LEMMA FlusherAdvances ==
  ASSUME PlaceInv, NEW f \in Flushers, FlusherStep(f) \/ FlushBegins(f) \/ FlushGivesUp(f)
  PROVE  Advances
<1>1. f \in Goroutines /\ pc[f] # "prepared" /\ UNCHANGED <<queue, buffers, sending, outcome>>
  BY DEF FlusherStep, WaitEnds, FlushProceeds, FlushReturns, FlushBegins, FlushGivesUp, Goroutines
<1>2. \A h \in Goroutines \ {f} : pc'[h] = pc[h] /\ cur'[h] = cur[h]
  BY DEF FlusherStep, WaitEnds, FlushProceeds, FlushReturns, FlushBegins, FlushGivesUp,
         Goto, PlaceInv, IndInv, TypeOK
<1> QED
  BY <1>1, <1>2, AdvancesByStaying

LEMMA WorkerLoopAdvances ==
  ASSUME PlaceInv, Tick \/ WorkerLoops
  PROVE  Advances
<1>1. /\ Worker \in Goroutines /\ pc[Worker] # "prepared"
      /\ UNCHANGED <<queue, buffers, sending, outcome>>
  BY DEF Tick, WorkerLoops, Goroutines
<1>2. \A h \in Goroutines \ {Worker} : pc'[h] = pc[h] /\ cur'[h] = cur[h]
  BY DEF Tick, WorkerLoops, Goto, PlaceInv, IndInv, TypeOK
<1> QED
  BY <1>1, <1>2, AdvancesByStaying

(* The send path: what a goroutine has in hand, or takes from a buffer,     *)
(* goes where its request was, which was empty.                             *)
LEMMA RequestWasEmpty ==
  ASSUME PlaceInv, NEW g \in Goroutines, pc[g] # "send",
         \A h \in Goroutines \ {g} : sending'[h] = sending[h]
  PROVE  \A h \in Goroutines : Range(sending[h]) \subseteq PastBuffers'
<1>1. Range(sending[g]) = {}
  BY RangeEmpty DEF PlaceInv, IndInv, Agenda
<1>2. \A h \in Goroutines \ {g} : Range(sending[h]) \subseteq PastBuffers'
  BY DEF PastBuffers
<1> QED
  BY <1>1, <1>2

LEMMA SendsOneAdvances ==
  ASSUME PlaceInv, NEW g \in Goroutines, SendsOne(g)
  PROVE  Advances
<1>1. pc[g] = "prepared" /\ UNCHANGED <<queue, buffers, cur, outcome>>
  BY DEF SendsOne
<1>2. \A h \in Goroutines \ {g} : sending'[h] = sending[h] /\ pc'[h] = pc[h]
  BY DEF SendsOne, Goto, PlaceInv, IndInv, TypeOK
<1>3. sending'[g] = <<cur[g]>>
  BY DEF SendsOne, PlaceInv, IndInv, TypeOK
<1>4. cur[g] \in PastBuffers'
  <2>1. cur[g] \in Range(sending'[g])
    BY <1>3, RangeSingle
  <2> QED
    BY <2>1 DEF PastBuffers
<1>5. InHand \subseteq PastQueue'
  <2>1. InHand \subseteq InHand' \union {cur[g]}
    BY <1>1, <1>2 DEF InHand
  <2> QED
    BY <1>4, <2>1 DEF PastQueue, PastWorker
<1> QED
  BY <1>1, <1>2, <1>5, AdvancesFrom, StayWhereTheyAre, RequestWasEmpty

LEMMA BuffersAdvances ==
  ASSUME PlaceInv, NEW g \in Goroutines, Buffers(g)
  PROVE  Advances
<1>1. pc[g] = "prepared" /\ UNCHANGED <<queue, sending, cur, outcome>>
  BY DEF Buffers
<1>2. \A h \in Goroutines \ {g} : pc'[h] = pc[h]
  BY DEF Buffers, Goto, PlaceInv, IndInv, TypeOK
<1>3. PICK t \in BatchTypes :
        /\ buffers'[t] = Append(buffers[t], cur[g])
        /\ \A u \in BatchTypes \ {t} : buffers'[u] = buffers[u]
        /\ buffers[t] \in Seq(Events) /\ cur[g] \in Events
  <2>1. cur[g] \in Events
    BY ProviderAssumption
       DEF Buffers, PlaceInv, IndInv, TypeOK, Control, CallerLabels, FlusherLabels, Goroutines
  <2>2. PICK t \in BatchTypes : t = TypeOf[cur[g]]
    BY <2>1, ProviderAssumption DEF Buffers, Immediate, EventTypes
  <2>3. /\ buffers[t] \in Seq(Events)
        /\ buffers'[t] = Append(buffers[t], cur[g])
        /\ \A u \in BatchTypes \ {t} : buffers'[u] = buffers[u]
    BY <2>2 DEF Buffers, PlaceInv, IndInv, TypeOK
  <2> QED
    BY <2>1, <2>3
<1>4. Range(buffers'[t]) = Range(buffers[t]) \union {cur[g]}
  BY <1>3, RangeAppend
<1>5. \A u \in BatchTypes : Range(buffers[u]) \subseteq Range(buffers'[u])
  BY <1>3, <1>4
<1>6. \A u \in BatchTypes : Range(buffers[u]) \subseteq PastWorker'
  BY <1>5 DEF PastWorker
<1>7. cur[g] \in PastWorker'
  BY <1>4 DEF PastWorker
<1>8. InHand \subseteq PastQueue'
  <2>1. InHand \subseteq InHand' \union {cur[g]}
    BY <1>1, <1>2 DEF InHand
  <2> QED
    BY <1>7, <2>1 DEF PastQueue
<1> QED
  BY <1>1, <1>6, <1>8, AdvancesFrom, StayWhereTheyAre

LEMMA TakesBatchAdvances ==
  ASSUME PlaceInv, NEW g \in Goroutines, TakesBatch(g)
  PROVE  Advances
<1>1. pc[g] = "flush" /\ UNCHANGED <<queue, cur, outcome>>
  BY DEF TakesBatch
<1>2. \A h \in Goroutines \ {g} : sending'[h] = sending[h] /\ pc'[h] = pc[h]
  BY DEF TakesBatch, Goto, PlaceInv, IndInv, TypeOK
<1>3. PICK t \in BatchTypes :
        /\ sending'[g] = buffers[t]
        /\ \A u \in BatchTypes \ {t} : buffers'[u] = buffers[u]
  <2>1. Head(todo[g]) \in BatchTypes
    BY DEF TakesBatch, PlaceInv, IndInv, TypeOK, Agenda
  <2> QED
    BY <2>1 DEF TakesBatch, PlaceInv, IndInv, TypeOK
<1>4. \A u \in BatchTypes : Range(buffers[u]) \subseteq PastWorker'
  <2>1. Range(buffers[t]) \subseteq PastBuffers'
    BY <1>3 DEF PastBuffers
  <2>2. \A u \in BatchTypes \ {t} : Range(buffers[u]) \subseteq PastWorker'
    BY <1>3 DEF PastWorker
  <2> QED
    BY <2>1, <2>2 DEF PastWorker
<1> QED
  BY <1>1, <1>2, <1>4, AdvancesFrom, StayWhereTheyAre, StayInHand, RequestWasEmpty

LEMMA TransportReturnsAdvances ==
  ASSUME PlaceInv, NEW g \in Goroutines, TransportReturns(g)
  PROVE  Advances
<1>1. pc[g] = "send" /\ UNCHANGED <<queue, buffers, cur>>
  BY DEF TransportReturns
<1>2. \A h \in Goroutines \ {g} : sending'[h] = sending[h] /\ pc'[h] = pc[h]
  BY DEF TransportReturns, Goto, PlaceInv, IndInv, TypeOK
<1>3. PICK fate \in {"delivered", "failed"} :
        outcome' = [e \in Events |-> IF e \in Range(sending[g]) THEN fate ELSE outcome[e]]
  BY DEF TransportReturns
<1>4. \A e \in Settled : outcome'[e] = outcome[e]
  BY <1>3, HeldIsUnsettled DEF Settled
<1>5. \A h \in Goroutines : Range(sending[h]) \subseteq PastBuffers'
  <2>1. Range(sending[g]) \subseteq Events
    BY DEF Range, PlaceInv, IndInv, TypeOK
  <2>2. Range(sending[g]) \subseteq Settled'
    BY <1>3, <2>1 DEF Settled
  <2>3. \A h \in Goroutines \ {g} : Range(sending[h]) \subseteq PastBuffers'
    BY <1>2 DEF PastBuffers
  <2> QED
    BY <2>2, <2>3 DEF PastBuffers
<1> QED
  BY <1>1, <1>2, <1>4, <1>5, AdvancesFrom, StayWhereTheyAre, StayInHand

LEMMA StepAdvances ==
  ASSUME PlaceInv, [Next]_vars
  PROVE  Advances
<1>1. CASE UNCHANGED vars
  <2>1. UNCHANGED <<queue, buffers, sending, outcome, pc, cur>>
    BY <1>1 DEF vars
  <2>2. InHand \subseteq InHand'
    BY <2>1 DEF InHand
  <2> QED
    BY <2>1, <2>2, AdvancesFrom, StayWhereTheyAre
<1> QED
  BY <1>1, CaptureAdvances, CallerStepAdvances, WorkerReceivesAdvances, FlusherAdvances,
     WorkerLoopAdvances, SendsOneAdvances, BuffersAdvances, TakesBatchAdvances,
     TransportReturnsAdvances DEF Next, SendPath

(* No event goes back to where it has been. *)
THEOREM EventsDoNotGoBack == Spec => EventsOnlyAdvance
<1>1. PlaceInv /\ [Next]_vars => [Advances]_vars
  BY StepAdvances
<1> QED
  BY <1>1, PlaceInvariance, PTL DEF Spec, EventsOnlyAdvance

-----------------------------------------------------------------------------
(* Order.  Of two events in order, it is only the step that moves the later *)
(* one that could put it before the other.                                  *)

LEMMA AheadAppend ==
  ASSUME NEW S, NEW s \in Seq(S), NEW x \in S, NEW e, NEW f, Ahead(s, e, f)
  PROVE  Ahead(Append(s, x), e, f)
<1>1. PICK i, j \in DOMAIN s : i < j /\ s[i] = e /\ s[j] = f
  BY DEF Ahead
<1>2. /\ i \in DOMAIN Append(s, x) /\ j \in DOMAIN Append(s, x)
      /\ Append(s, x)[i] = e /\ Append(s, x)[j] = f
  BY <1>1
<1> QED
  BY <1>1, <1>2 DEF Ahead

LEMMA AheadOfLast ==
  ASSUME NEW S, NEW s \in Seq(S), NEW x \in S, NEW e \in Range(s)
  PROVE  Ahead(Append(s, x), e, x)
<1>1. PICK i \in DOMAIN s : s[i] = e
  BY DEF Range
<1>2. /\ i \in DOMAIN Append(s, x) /\ Len(s) + 1 \in DOMAIN Append(s, x)
      /\ i < Len(s) + 1
      /\ Append(s, x)[i] = e /\ Append(s, x)[Len(s) + 1] = x
  BY <1>1
<1> QED
  BY <1>2 DEF Ahead

LEMMA AheadTail ==
  ASSUME NEW S, NEW s \in Seq(S), s # <<>>, NEW e, NEW f, Ahead(s, e, f)
  PROVE  Ahead(Tail(s), e, f) \/ (e = Head(s) /\ f \in Range(Tail(s)))
<1>1. PICK i, j \in DOMAIN s : i < j /\ s[i] = e /\ s[j] = f
  BY DEF Ahead
<1>2. /\ j - 1 \in DOMAIN Tail(s) /\ Tail(s)[j - 1] = f
      /\ i # 1 => i - 1 \in DOMAIN Tail(s) /\ Tail(s)[i - 1] = e
  BY <1>1
<1>3. CASE i = 1
  BY <1>1, <1>2, <1>3 DEF Range
<1>4. CASE i # 1
  <2>1. i - 1 < j - 1
    BY <1>1
  <2> QED
    BY <1>2, <1>4, <2>1 DEF Ahead
<1> QED
  BY <1>3, <1>4

(* A step that takes nothing from the channel, the worker or the buffers    *)
(* disturbs no order.                                                       *)
LEMMA OrderByStaying ==
  ASSUME Advances, NEW e \in Events, NEW f \in Events, InOrder(e, f),
         Ahead(queue, e, f) => Ahead(queue', e, f),
         Range(queue) \subseteq Range(queue'),
         InHand \subseteq InHand',
         buffers' = buffers
  PROVE  StaysInOrder(e, f)
<1>1. /\ PastBuffers \subseteq PastBuffers'
      /\ PastWorker \subseteq PastWorker'
      /\ PastQueue \subseteq PastQueue'
  BY DEF Advances
<1>2. InOrder(e, f)'
  <2>1. CASE Ahead(queue, e, f)
    BY <2>1 DEF InOrder
  <2>2. CASE e \in PastQueue /\ f \in Range(queue)
    BY <1>1, <2>2 DEF InOrder
  <2>3. CASE e \in PastWorker /\ f \in InHand
    BY <1>1, <2>3 DEF InOrder
  <2>4. ASSUME NEW t \in BatchTypes,
               Ahead(buffers[t], e, f) \/ (e \in PastBuffers /\ f \in Range(buffers[t]))
        PROVE  InOrder(e, f)'
    BY <1>1, <2>4 DEF InOrder
  <2> QED
    BY <2>1, <2>2, <2>3, <2>4 DEF InOrder
<1> QED
  BY <1>2 DEF StaysInOrder

(* Beside the worker nobody has an event in hand then. *)
LEMMA OnlyWorkerHolds ==
  ASSUME PlaceInv, async
  PROVE  \A g \in Goroutines : pc[g] = "prepared" => g = Worker
BY DEF PlaceInv, IndInv, Control, CallerLabels, FlusherLabels, Goroutines

LEMMA WorkerReceivesInOrder ==
  ASSUME PlaceInv, async, Advances, WorkerReceives,
         NEW e \in Events, NEW f \in Events, InOrder(e, f)
  PROVE  StaysInOrder(e, f)
<1>1. pc[Worker] = "idle" /\ buffers' = buffers /\ sending' = sending /\ queue' = Tail(queue)
  BY DEF WorkerReceives
<1>2. InHand = {} /\ PastQueue = PastWorker
  BY <1>1, OnlyWorkerHolds DEF InHand, PastQueue
<1>3. queue \in Seq(Events) /\ queue # <<>>
  BY DEF WorkerReceives, PlaceInv, IndInv, TypeOK
<1>4. Range(queue) = {Head(queue)} \union Range(queue')
  BY <1>1, <1>3, RangeHeadTail
<1>5. Head(queue) \in InHand'
  <2>1. Head(queue) \in Events /\ Worker \in Goroutines
    BY <1>3 DEF Goroutines
  <2>2. pc'[Worker] = "prepared" /\ cur'[Worker] = Head(queue)
    BY <2>1 DEF WorkerReceives, Goto, PlaceInv, IndInv, TypeOK
  <2> QED
    BY <2>1, <2>2 DEF InHand
<1>6. PastBuffers \subseteq PastBuffers' /\ PastWorker \subseteq PastWorker'
  BY DEF Advances
<1>7. Head(queue) \in PastQueue'
  BY <1>5 DEF PastQueue
<1>8. PastQueue \subseteq PastQueue'
  BY DEF Advances
<1>9. InOrder(e, f)'
  <2>1. CASE Ahead(queue, e, f)
    <3>1. Ahead(queue', e, f) \/ (e = Head(queue) /\ f \in Range(queue'))
      BY <1>1, <1>3, <2>1, AheadTail
    <3> QED
      BY <1>7, <3>1 DEF InOrder
  <2>2. CASE e \in PastQueue /\ f \in Range(queue)
    <3>1. CASE f = Head(queue)
      BY <1>2, <1>5, <1>6, <2>2, <3>1 DEF InOrder
    <3>2. CASE f \in Range(queue')
      BY <1>8, <2>2, <3>2 DEF InOrder
    <3> QED
      BY <1>4, <2>2, <3>1, <3>2
  <2>3. ASSUME NEW t \in BatchTypes,
               Ahead(buffers[t], e, f) \/ (e \in PastBuffers /\ f \in Range(buffers[t]))
        PROVE  InOrder(e, f)'
    BY <1>1, <1>6, <2>3 DEF InOrder
  <2> QED
    BY <1>2, <2>1, <2>2, <2>3 DEF InOrder
<1> QED
  BY <1>9 DEF StaysInOrder

(* An event that is not buffered finds none of its type in the buffers:     *)
(* there is no buffer for its type, or the buffers are not in use.          *)
LEMMA NothingIsOvertaken ==
  ASSUME PlaceInv, async, NEW g \in Goroutines, SendsOne(g), NEW e \in PastWorker,
         TypeOf[e] = TypeOf[cur[g]]
  PROVE  e \in PastBuffers
<1> SUFFICES ASSUME NEW t \in BatchTypes, NEW i \in DOMAIN buffers[t], buffers[t][i] = e
             PROVE  FALSE
  BY DEF PastWorker, Range
<1>1. TypeOf[e] = t /\ t # "transactions"
  BY DEF PlaceInv, OfOneType, BatchTypes
<1>2. BatchSize = 1
  BY <1>1 DEF SendsOne, Immediate
<1>3. Overdue(t) = {}
  <2>1. g = Worker /\ pc[Worker] = "prepared"
    BY OnlyWorkerHolds DEF SendsOne
  <2> QED
    BY <2>1 DEF Overdue, Appenders
<1>4. Cardinality(Overdue(t)) = 0
  BY <1>3, FS_EmptySet
<1>5. Len(buffers[t]) <= BatchSize - 1 + Cardinality(Overdue(t))
  BY DEF PlaceInv, IndInv, BatchBound
<1>6. buffers[t] \in Seq(Events)
  BY DEF PlaceInv, IndInv, TypeOK
<1> QED
  BY <1>2, <1>4, <1>5, <1>6

LEMMA SendsOneInOrder ==
  ASSUME PlaceInv, async, Advances, NEW g \in Goroutines, SendsOne(g),
         NEW e \in Events, NEW f \in Events, TypeOf[e] = TypeOf[f], InOrder(e, f)
  PROVE  StaysInOrder(e, f)
<1>1. UNCHANGED <<queue, buffers, cur>>
  BY DEF SendsOne
<1>2. \A h \in Goroutines \ {g} : pc'[h] = pc[h]
  BY DEF SendsOne, Goto, PlaceInv, IndInv, TypeOK
<1>3. InHand \subseteq InHand' \union {cur[g]}
  BY <1>1, <1>2 DEF InHand
<1>4. /\ PastBuffers \subseteq PastBuffers'
      /\ PastWorker \subseteq PastWorker'
      /\ PastQueue \subseteq PastQueue'
  BY DEF Advances
<1>5. CASE Ahead(queue, e, f) \/ (e \in PastQueue /\ f \in Range(queue))
  BY <1>1, <1>4, <1>5 DEF InOrder, StaysInOrder
<1>6. CASE e \in PastWorker /\ f \in InHand
  <2>1. CASE f \in InHand'
    BY <1>4, <1>6, <2>1 DEF InOrder, StaysInOrder
  <2>2. CASE f = cur[g]
    <3>1. e \in PastBuffers
      BY <1>6, <2>2, NothingIsOvertaken
    <3>2. sending'[g] = <<cur[g]>>
      BY DEF SendsOne, PlaceInv, IndInv, TypeOK
    <3>3. f \in Range(sending'[g])
      BY <2>2, <3>2, RangeSingle
    <3>4. f \in PastBuffers'
      BY <3>3 DEF PastBuffers
    <3> QED
      BY <3>1, <3>4 DEF StaysInOrder
  <2> QED
    BY <1>3, <1>6, <2>1, <2>2
<1>7. ASSUME NEW t \in BatchTypes,
             Ahead(buffers[t], e, f) \/ (e \in PastBuffers /\ f \in Range(buffers[t]))
      PROVE  StaysInOrder(e, f)
  BY <1>1, <1>4, <1>7 DEF InOrder, StaysInOrder
<1> QED
  BY <1>5, <1>6, <1>7 DEF InOrder

LEMMA BuffersInOrder ==
  ASSUME PlaceInv, Advances, NEW g \in Goroutines, Buffers(g),
         NEW e \in Events, NEW f \in Events, TypeOf[e] = TypeOf[f], InOrder(e, f)
  PROVE  StaysInOrder(e, f)
<1>1. UNCHANGED <<queue, sending, cur>>
  BY DEF Buffers
<1>2. \A h \in Goroutines \ {g} : pc'[h] = pc[h]
  BY DEF Buffers, Goto, PlaceInv, IndInv, TypeOK
<1>3. PICK t \in BatchTypes :
        /\ t = TypeOf[cur[g]]
        /\ buffers'[t] = Append(buffers[t], cur[g])
        /\ \A u \in BatchTypes \ {t} : buffers'[u] = buffers[u]
        /\ buffers[t] \in Seq(Events) /\ cur[g] \in Events
  <2>1. cur[g] \in Events
    BY ProviderAssumption
       DEF Buffers, PlaceInv, IndInv, TypeOK, Control, CallerLabels, FlusherLabels, Goroutines
  <2>2. PICK t \in BatchTypes : t = TypeOf[cur[g]]
    BY <2>1, ProviderAssumption DEF Buffers, Immediate, EventTypes
  <2>3. /\ buffers[t] \in Seq(Events)
        /\ buffers'[t] = Append(buffers[t], cur[g])
        /\ \A u \in BatchTypes \ {t} : buffers'[u] = buffers[u]
    BY <2>2 DEF Buffers, PlaceInv, IndInv, TypeOK
  <2> QED
    BY <2>1, <2>2, <2>3
<1>4. Range(buffers'[t]) = Range(buffers[t]) \union {cur[g]}
  BY <1>3, RangeAppend
<1>5. InHand \subseteq InHand' \union {cur[g]}
  BY <1>1, <1>2 DEF InHand
<1>6. /\ PastBuffers \subseteq PastBuffers'
      /\ PastWorker \subseteq PastWorker'
      /\ PastQueue \subseteq PastQueue'
  BY DEF Advances
<1>7. InOrder(e, f)'
  <2>1. CASE Ahead(queue, e, f) \/ (e \in PastQueue /\ f \in Range(queue))
    BY <1>1, <1>6, <2>1 DEF InOrder
  <2>2. CASE e \in PastWorker /\ f \in InHand
    <3>1. CASE f \in InHand'
      BY <1>6, <2>2, <3>1 DEF InOrder
    <3>2. CASE f = cur[g] /\ e \in PastBuffers
      BY <1>4, <1>6, <3>2 DEF InOrder
    <3>3. ASSUME f = cur[g], NEW u \in BatchTypes, e \in Range(buffers[u])
          PROVE  InOrder(e, f)'
      <4>1. TypeOf[e] = u
        BY <3>3 DEF PlaceInv, OfOneType, Range
      <4>2. u = t
        BY <1>3, <3>3, <4>1
      <4>3. Ahead(buffers'[t], e, f)
        BY <1>3, <3>3, <4>2, AheadOfLast
      <4> QED
        BY <4>3 DEF InOrder
    <3> QED
      BY <1>5, <2>2, <3>1, <3>2, <3>3 DEF PastWorker
  <2>3. ASSUME NEW u \in BatchTypes,
               Ahead(buffers[u], e, f) \/ (e \in PastBuffers /\ f \in Range(buffers[u]))
        PROVE  InOrder(e, f)'
    <3>1. ASSUME Ahead(buffers[u], e, f)
          PROVE  Ahead(buffers'[u], e, f)
      <4>1. CASE u = t
        <5>1. Ahead(Append(buffers[t], cur[g]), e, f)
          BY <1>3, <3>1, <4>1, AheadAppend
        <5> QED
          BY <1>3, <4>1, <5>1
      <4>2. CASE u # t
        <5>1. buffers'[u] = buffers[u]
          BY <1>3, <4>2
        <5> QED
          BY <3>1, <5>1
      <4> QED
        BY <4>1, <4>2
    <3>2. Range(buffers[u]) \subseteq Range(buffers'[u])
      BY <1>3, <1>4
    <3> QED
      BY <1>6, <2>3, <3>1, <3>2 DEF InOrder
  <2> QED
    BY <2>1, <2>2, <2>3 DEF InOrder
<1> QED
  BY <1>7 DEF StaysInOrder

LEMMA TakesBatchInOrder ==
  ASSUME PlaceInv, Advances, NEW g \in Goroutines, TakesBatch(g),
         NEW e \in Events, NEW f \in Events, InOrder(e, f)
  PROVE  StaysInOrder(e, f)
<1>1. pc[g] = "flush" /\ UNCHANGED <<queue, cur>>
  BY DEF TakesBatch
<1>2. \A h \in Goroutines \ {g} : pc'[h] = pc[h]
  BY DEF TakesBatch, Goto, PlaceInv, IndInv, TypeOK
<1>3. PICK t \in BatchTypes :
        /\ sending'[g] = buffers[t]
        /\ \A u \in BatchTypes \ {t} : buffers'[u] = buffers[u]
  <2>1. Head(todo[g]) \in BatchTypes
    BY DEF TakesBatch, PlaceInv, IndInv, TypeOK, Agenda
  <2> QED
    BY <2>1 DEF TakesBatch, PlaceInv, IndInv, TypeOK
<1>4. InHand \subseteq InHand'
  BY <1>1, <1>2 DEF InHand
<1>5. /\ PastBuffers \subseteq PastBuffers'
      /\ PastWorker \subseteq PastWorker'
      /\ PastQueue \subseteq PastQueue'
  BY DEF Advances
<1>6. CASE Ahead(queue, e, f) \/ (e \in PastQueue /\ f \in Range(queue))
  BY <1>1, <1>5, <1>6 DEF InOrder, StaysInOrder
<1>7. CASE e \in PastWorker /\ f \in InHand
  BY <1>4, <1>5, <1>7 DEF InOrder, StaysInOrder
<1>8. ASSUME NEW u \in BatchTypes, Ahead(buffers[u], e, f)
      PROVE  StaysInOrder(e, f)
  <2>1. CASE u = t
    BY <1>3, <1>8, <2>1 DEF StaysInOrder
  <2>2. CASE u # t
    BY <1>3, <1>8, <2>2 DEF StaysInOrder, InOrder
  <2> QED
    BY <2>1, <2>2
<1>9. ASSUME NEW u \in BatchTypes, e \in PastBuffers, f \in Range(buffers[u])
      PROVE  StaysInOrder(e, f)
  <2>1. CASE u = t
    <3>1. f \in PastBuffers'
      BY <1>3, <1>9, <2>1 DEF PastBuffers
    <3> QED
      BY <1>9, <3>1 DEF StaysInOrder
  <2>2. CASE u # t
    BY <1>3, <1>5, <1>9, <2>2 DEF StaysInOrder, InOrder
  <2> QED
    BY <2>1, <2>2
<1> QED
  BY <1>6, <1>7, <1>8, <1>9 DEF InOrder

LEMMA OtherStepsInOrder ==
  ASSUME PlaceInv, Advances, NEW g \in Goroutines, pc[g] # "prepared",
         \A h \in Goroutines \ {g} : pc'[h] = pc[h] /\ cur'[h] = cur[h],
         UNCHANGED <<queue, buffers>>,
         NEW e \in Events, NEW f \in Events, InOrder(e, f)
  PROVE  StaysInOrder(e, f)
BY OrderByStaying, StayInHand

LEMMA StepKeepsOrder ==
  ASSUME PlaceInv, async, [Next]_vars,
         NEW e \in Events, NEW f \in Events, TypeOf[e] = TypeOf[f], InOrder(e, f)
  PROVE  StaysInOrder(e, f)
<1>0. Advances
  BY StepAdvances
<1>1. ASSUME NEW c \in Callers, EnqueueSends(c)
      PROVE  StaysInOrder(e, f)
  <2>1. c \in Goroutines /\ pc[c] # "prepared" /\ buffers' = buffers
    BY <1>1 DEF EnqueueSends, Goroutines
  <2>2. \A h \in Goroutines \ {c} : pc'[h] = pc[h] /\ cur'[h] = cur[h]
    BY <1>1 DEF EnqueueSends, Goto, PlaceInv, IndInv, TypeOK
  <2>3. queue \in Seq(Events) /\ cur[c] \in Events /\ queue' = Append(queue, cur[c])
    BY <1>1, <2>1, ProviderAssumption
       DEF EnqueueSends, PlaceInv, IndInv, TypeOK, Control, Goroutines
  <2>4. Ahead(queue, e, f) => Ahead(queue', e, f)
    BY <2>3, AheadAppend
  <2>5. Range(queue) \subseteq Range(queue')
    BY <2>3, RangeAppend
  <2> QED
    BY <1>0, <2>1, <2>2, <2>4, <2>5, OrderByStaying, StayInHand
<1>2. ASSUME NEW c \in Callers, NEW d \in Events,
             \/ EnqueueDrops(c) \/ CaptureReturns(c)
             \/ CaptureDiscards(c, d) \/ CaptureBegins(c, d)
      PROVE  StaysInOrder(e, f)
  <2>1. c \in Goroutines /\ pc[c] # "prepared" /\ UNCHANGED <<queue, buffers>>
    BY <1>2 DEF EnqueueDrops, CaptureReturns, CaptureDiscards, CaptureBegins, Goroutines
  <2>2. \A h \in Goroutines \ {c} : pc'[h] = pc[h] /\ cur'[h] = cur[h]
    BY <1>2 DEF EnqueueDrops, CaptureReturns, CaptureDiscards, CaptureBegins, Goto,
                PlaceInv, IndInv, TypeOK
  <2> QED
    BY <1>0, <2>1, <2>2, OtherStepsInOrder
<1>3. ASSUME NEW h \in Flushers, FlusherStep(h) \/ FlushBegins(h) \/ FlushGivesUp(h)
      PROVE  StaysInOrder(e, f)
  <2>1. h \in Goroutines /\ pc[h] # "prepared" /\ UNCHANGED <<queue, buffers>>
    BY <1>3 DEF FlusherStep, WaitEnds, FlushProceeds, FlushReturns, FlushBegins, FlushGivesUp,
                Goroutines
  <2>2. \A k \in Goroutines \ {h} : pc'[k] = pc[k] /\ cur'[k] = cur[k]
    BY <1>3 DEF FlusherStep, WaitEnds, FlushProceeds, FlushReturns, FlushBegins, FlushGivesUp,
                Goto, PlaceInv, IndInv, TypeOK
  <2> QED
    BY <1>0, <2>1, <2>2, OtherStepsInOrder
<1>4. CASE Tick \/ WorkerLoops
  <2>1. Worker \in Goroutines /\ pc[Worker] # "prepared" /\ UNCHANGED <<queue, buffers>>
    BY <1>4 DEF Tick, WorkerLoops, Goroutines
  <2>2. \A h \in Goroutines \ {Worker} : pc'[h] = pc[h] /\ cur'[h] = cur[h]
    BY <1>4 DEF Tick, WorkerLoops, Goto, PlaceInv, IndInv, TypeOK
  <2> QED
    BY <1>0, <2>1, <2>2, OtherStepsInOrder
<1>5. ASSUME NEW g \in Goroutines, TransportReturns(g)
      PROVE  StaysInOrder(e, f)
  <2>1. pc[g] # "prepared" /\ UNCHANGED <<queue, buffers>>
    BY <1>5 DEF TransportReturns
  <2>2. \A h \in Goroutines \ {g} : pc'[h] = pc[h] /\ cur'[h] = cur[h]
    BY <1>5 DEF TransportReturns, Goto, PlaceInv, IndInv, TypeOK
  <2> QED
    BY <1>0, <1>5, <2>1, <2>2, OtherStepsInOrder
<1>6. CASE UNCHANGED vars
  <2>1. InHand \subseteq InHand' /\ UNCHANGED <<queue, buffers>>
    BY <1>6 DEF vars, InHand
  <2> QED
    BY <1>0, <2>1, OrderByStaying
<1>7. CASE WorkerReceives
  BY <1>0, <1>7, WorkerReceivesInOrder
<1>8. ASSUME NEW g \in Goroutines, SendsOne(g) \/ Buffers(g) \/ TakesBatch(g)
      PROVE  StaysInOrder(e, f)
  BY <1>0, <1>8, SendsOneInOrder, BuffersInOrder, TakesBatchInOrder
<1> QED
  BY <1>1, <1>2, <1>3, <1>4, <1>5, <1>6, <1>7, <1>8 DEF Next, CallerStep, SendPath

(* With the worker, events of one type are sent in the order in which the   *)
(* channel took them, whoever sends them.                                   *)
THEOREM OrderIsKept == Spec => KeepsOrder
<1>1. PlaceInv /\ [Next]_vars =>
        [async => \A e, f \in Events :
           TypeOf[e] = TypeOf[f] /\ InOrder(e, f) => StaysInOrder(e, f)]_vars
  BY StepKeepsOrder
<1> QED
  BY <1>1, PlaceInvariance, PTL DEF Spec, KeepsOrder
=============================================================================
