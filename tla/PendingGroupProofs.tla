------------------------- MODULE PendingGroupProofs -------------------------
(***************************************************************************)
(* Proofs about PendingGroup used as the README asks, captures before the  *)
(* first Flush: for any callers, any number of flushes and any queue size. *)
(***************************************************************************)
EXTENDS PendingGroupInv, Integers, FiniteSetTheorems, TLAPS

USE PendingGroupAssumption

-----------------------------------------------------------------------------
(* The callers between Add and the send or the Done that follow it. *)

LEMMA SendingIsFinite == IsFiniteSet(Sending) /\ Cardinality(Sending) \in Nat
<1>1. Sending \subseteq Callers
  BY DEF Sending
<1> QED
  BY <1>1, FS_Subset, FS_CardinalityType

(* A caller that comes to the select. *)
LEMMA OneMoreSends ==
  ASSUME NEW c \in Callers, Sending' = Sending \union {c}, c \notin Sending
  PROVE  Cardinality(Sending') = Cardinality(Sending) + 1
BY SendingIsFinite, FS_AddElement

(* A caller that leaves it, which is counted while it is there.             *)
LEMMA OneLessSends ==
  ASSUME NEW c \in Callers, Sending' = Sending \ {c}, c \in Sending
  PROVE  /\ Cardinality(Sending') = Cardinality(Sending) - 1
         /\ Cardinality(Sending) >= 1
<1>1. Cardinality(Sending \ {c}) = Cardinality(Sending) - 1
  BY SendingIsFinite, FS_RemoveElement
<1>2. Cardinality(Sending) # 0
  BY SendingIsFinite, FS_EmptySet
<1> QED
  BY <1>1, <1>2, SendingIsFinite

-----------------------------------------------------------------------------
(* The steps of the callers. *)

LEMMA AddsInv ==
  ASSUME GroupInv, NEW c \in Callers, Adds(c), ~Flushing
  PROVE  GroupInv'
<1> USE DEF GroupInv, Types
<1>1. waiters = 0 /\ sema = 0 /\ counter' = counter + 1 /\ panicked' = panicked
  BY DEF Drained, Adds
<1>2. at' = [at EXCEPT ![c] = "select"] /\ at[c] = "start"
      /\ UNCHANGED <<waiters, sema, queued>>
  BY DEF Adds, Goto
<1>3. Types'
  BY <1>1, <1>2 DEF Goroutines
<1>4. Counts'
  <2>1. Sending' = Sending \union {c} /\ c \notin Sending
    BY <1>2 DEF Sending, Goroutines
  <2>2. Busy' = Busy /\ Busy \in Nat
    BY <1>2 DEF Busy, Goroutines, Worker
  <2>3. Cardinality(Sending') = Cardinality(Sending) + 1
    BY <2>1, OneMoreSends, Zenon
  <2> QED
    BY <1>1, <1>2, <2>2, <2>3, SendingIsFinite DEF Counts
<1>5. Drained'
  <2>1. \A g \in Callers \union {Worker} : at'[g] # "release"
    BY <1>2 DEF Drained, Goroutines
  <2>2. c \notin Waiters /\ \A w \in Waiters : at[w] = "start"
    BY DEF Flushing
  <2>3. \A w \in Waiters : at'[w] = "start"
    BY <1>2, <2>2 DEF Goroutines
  <2> QED
    BY <1>1, <1>2, <2>1, <2>3 DEF Drained
<1> QED
  BY <1>1, <1>3, <1>4, <1>5 DEF NeverPanics

LEMMA EnqueuesInv ==
  ASSUME GroupInv, NEW c \in Callers, Enqueues(c)
  PROVE  GroupInv'
<1> USE DEF GroupInv, Types
<1>1. at' = [at EXCEPT ![c] = "end"] /\ at[c] = "select" /\ queued' = queued + 1
      /\ UNCHANGED <<counter, waiters, sema, panicked>>
  BY DEF Enqueues, Goto
<1>2. Types'
  BY <1>1 DEF Goroutines
<1>3. Counts'
  <2>1. Sending' = Sending \ {c} /\ c \in Sending
    BY <1>1 DEF Sending, Goroutines
  <2>2. Busy' = Busy /\ Busy \in Nat
    BY <1>1 DEF Busy, Goroutines, Worker
  <2> QED
    BY <1>1, <2>1, <2>2, OneLessSends, SendingIsFinite DEF Counts
<1>4. Drained'
  BY <1>1 DEF Drained, Flushing, Goroutines
<1> QED
  BY <1>1, <1>2, <1>3, <1>4 DEF NeverPanics

LEMMA OverflowsInv ==
  ASSUME GroupInv, NEW c \in Callers, Overflows(c)
  PROVE  GroupInv'
<1> USE DEF GroupInv, Types
<1>1. at' = [at EXCEPT ![c] = "drop"] /\ at[c] = "select"
      /\ UNCHANGED <<counter, waiters, sema, queued, panicked>>
  BY DEF Overflows, Goto
<1>2. Types'
  BY <1>1 DEF Goroutines
<1>3. Counts'
  <2>1. Sending' = Sending /\ Busy' = Busy
    BY <1>1 DEF Sending, Busy, Goroutines, Worker
  <2> QED
    BY <1>1, <2>1 DEF Counts
<1>4. Drained'
  BY <1>1 DEF Drained, Flushing, Goroutines
<1> QED
  BY <1>1, <1>2, <1>3, <1>4 DEF NeverPanics

(* The first half of Done: whoever brings the counter to zero while there   *)
(* are waiters is to release them, and then all captures have begun.        *)
LEMMA SubtractsDrained ==
  ASSUME GroupInv, NEW g \in Callers \union {Worker}, NEW next \in {"start", "end"},
         counter # 0, Subtracts(g, next), UNCHANGED <<waiters, sema>>
  PROVE  Drained'
<1> USE DEF GroupInv, Types
<1>1. counter' = counter - 1
      /\ at' = [at EXCEPT ![g] = IF counter = 1 /\ waiters # 0 THEN "release" ELSE next]
  BY DEF Subtracts, Goto
<1>2. g \notin Waiters
  BY DEF Worker
<1>3. \A w \in Waiters : at'[w] = at[w]
  BY <1>1, <1>2 DEF Goroutines
<1>4. Flushing' <=> Flushing
  BY <1>3 DEF Flushing
<1>5. sema = 0 /\ \A w \in Waiters : at[w] # "end"
  BY DEF Drained
<1>6. \A h \in Callers \union {Worker} :
        at'[h] = "release" => h = g /\ counter = 1 /\ waiters # 0
  BY <1>1 DEF Drained, Goroutines
<1> QED
  BY <1>1, <1>3, <1>4, <1>5, <1>6 DEF Drained

LEMMA DropsInv ==
  ASSUME GroupInv, NEW c \in Callers, Drops(c)
  PROVE  GroupInv'
<1> USE DEF GroupInv, Types
<1> DEFINE next == IF counter = 1 /\ waiters # 0 THEN "release" ELSE "end"
<1>1. at' = [at EXCEPT ![c] = next] /\ at[c] = "drop" /\ counter' = counter - 1
      /\ UNCHANGED <<waiters, sema, queued, panicked>>
  BY DEF Drops, Subtracts, Goto
<1>2. Sending' = Sending \ {c} /\ c \in Sending
  BY <1>1 DEF Sending, Goroutines
<1>3. Busy' = Busy /\ Busy \in Nat
  BY <1>1 DEF Busy, Goroutines, Worker
<1>4. counter # 0
  BY <1>2, <1>3, OneLessSends, SendingIsFinite DEF Counts
<1>5. Types'
  BY <1>1, <1>4 DEF Goroutines
<1>6. Counts'
  <2>1. Cardinality(Sending') = Cardinality(Sending) - 1
    BY <1>2, OneLessSends, Zenon
  <2> QED
    BY <1>1, <1>3, <2>1, SendingIsFinite DEF Counts
<1>7. Drained'
  BY <1>4, SubtractsDrained DEF Drops
<1> QED
  BY <1>1, <1>5, <1>6, <1>7 DEF NeverPanics

-----------------------------------------------------------------------------
(* The worker, and the second half of Done. *)

LEMMA WorkerReceivesInv ==
  ASSUME GroupInv, WorkerReceives
  PROVE  GroupInv'
<1> USE DEF GroupInv, Types
<1>1. at' = [at EXCEPT ![Worker] = "capture"] /\ at[Worker] = "start"
      /\ queued > 0 /\ queued' = queued - 1
      /\ UNCHANGED <<counter, waiters, sema, panicked>>
  BY DEF WorkerReceives, Goto
<1>2. Types'
  BY <1>1 DEF Goroutines, Worker
<1>3. Counts'
  <2>1. Sending' = Sending
    BY <1>1 DEF Sending, Goroutines, Worker
  <2>2. Busy = 0 /\ Busy' = 1
    BY <1>1 DEF Busy, Goroutines
  <2> QED
    BY <1>1, <2>1, <2>2, SendingIsFinite DEF Counts
<1>4. Drained'
  BY <1>1 DEF Drained, Flushing, Goroutines, Worker
<1> QED
  BY <1>1, <1>2, <1>3, <1>4 DEF NeverPanics

LEMMA WorkerDoneInv ==
  ASSUME GroupInv, WorkerDone
  PROVE  GroupInv'
<1> USE DEF GroupInv, Types
<1> DEFINE next == IF counter = 1 /\ waiters # 0 THEN "release" ELSE "start"
<1>1. at' = [at EXCEPT ![Worker] = next] /\ at[Worker] = "capture"
      /\ counter' = counter - 1 /\ UNCHANGED <<waiters, sema, queued, panicked>>
  BY DEF WorkerDone, Subtracts, Goto
<1>2. Sending' = Sending
  BY <1>1 DEF Sending, Goroutines, Worker
<1>3. Busy = 1 /\ Busy' = 0
  BY <1>1 DEF Busy, Goroutines
<1>4. counter # 0
  BY <1>3, SendingIsFinite DEF Counts
<1>5. Types'
  BY <1>1, <1>4 DEF Goroutines, Worker
<1>6. Counts'
  BY <1>1, <1>2, <1>3, SendingIsFinite DEF Counts
<1>7. Drained'
  BY <1>4, SubtractsDrained DEF WorkerDone
<1> QED
  BY <1>1, <1>5, <1>6, <1>7 DEF NeverPanics

LEMMA ReleasesInv ==
  ASSUME GroupInv, NEW g \in Callers \union {Worker}, Releases(g)
  PROVE  GroupInv'
<1> USE DEF GroupInv, Types
<1> DEFINE next == IF g = Worker THEN "start" ELSE "end"
<1>1. counter = 0 /\ Flushing /\ at[g] = "release"
  BY DEF Drained, Releases
<1>2. at' = [at EXCEPT ![g] = next] /\ waiters' = 0 /\ sema' = sema + waiters
      /\ UNCHANGED <<counter, queued, panicked>>
  BY <1>1 DEF Releases, Goto
<1>3. \A w \in Waiters : at'[w] = at[w]
  BY <1>2 DEF Goroutines, Worker
<1>4. Types'
  BY <1>2, <1>3 DEF Goroutines
<1>5. Counts'
  <2>1. Sending' = Sending /\ Busy' = Busy
    BY <1>1, <1>2 DEF Sending, Busy, Goroutines
  <2> QED
    BY <1>2, <2>1 DEF Counts
<1>6. Drained'
  <2>1. Flushing'
    BY <1>1, <1>3 DEF Flushing
  <2> QED
    BY <1>1, <1>2, <2>1 DEF Drained
<1> QED
  BY <1>2, <1>4, <1>5, <1>6 DEF NeverPanics

-----------------------------------------------------------------------------
(* The goroutines of wait(). *)

(* What a waiter does is nothing to the counter. *)
LEMMA WaiterKeepsCounts ==
  ASSUME GroupInv, NEW w \in Waiters, NEW next \in {"parked", "end"}, Goto(w, next),
         UNCHANGED <<counter, queued>>
  PROVE  /\ Counts' /\ Flushing'
         /\ at' \in [Goroutines -> {"start", "select", "drop", "capture", "release", "parked", "end"}]
         /\ \A v \in Waiters : at'[v] = IF v = w THEN next ELSE at[v]
         /\ \A g \in Callers \union {Worker} : at'[g] = at[g]
<1> USE DEF GroupInv, Types
<1>1. at' = [at EXCEPT ![w] = next] /\ w \notin Callers /\ w # Worker
  BY DEF Goto, Worker
<1>2. /\ \A v \in Waiters : at'[v] = IF v = w THEN next ELSE at[v]
      /\ \A g \in Callers \union {Worker} : at'[g] = at[g]
  BY <1>1 DEF Goroutines
<1>3. Sending' = Sending /\ Busy' = Busy
  BY <1>2 DEF Sending, Busy
<1> QED
  BY <1>1, <1>2, <1>3 DEF Counts, Flushing, Goroutines

LEMMA WaitsInv ==
  ASSUME GroupInv, NEW w \in Waiters, Waits(w)
  PROVE  GroupInv'
<1> USE DEF GroupInv, Types
<1>1. UNCHANGED <<counter, sema, queued, panicked>>
  BY DEF Waits
<1>2. CASE counter = 0
  <2>1. Goto(w, "end") /\ waiters' = waiters
    BY <1>2 DEF Waits
  <2>2. Counts' /\ Types' /\ Drained'
    BY <1>1, <1>2, <2>1, WaiterKeepsCounts DEF Drained
  <2> QED
    BY <1>1, <2>2 DEF NeverPanics
<1>3. CASE counter # 0
  <2>1. Goto(w, "parked") /\ waiters' = waiters + 1
    BY <1>3 DEF Waits
  <2>2. Counts' /\ Types' /\ Drained'
    BY <1>1, <1>3, <2>1, WaiterKeepsCounts DEF Drained
  <2> QED
    BY <1>1, <2>2 DEF NeverPanics
<1> QED
  BY <1>2, <1>3

LEMMA WakesInv ==
  ASSUME GroupInv, NEW w \in Waiters, Wakes(w)
  PROVE  GroupInv'
<1> USE DEF GroupInv, Types
<1>1. counter = 0 /\ waiters = 0 /\ sema > 0
  <2>1. sema > 0
    BY DEF Wakes
  <2>2. sema # 0
    BY <2>1
  <2> QED
    BY <2>1, <2>2 DEF Drained
<1>2. Goto(w, "end") /\ sema' = sema - 1 /\ UNCHANGED <<counter, waiters, queued, panicked>>
  BY <1>1 DEF Wakes
<1>3. Counts' /\ Types' /\ Drained'
  BY <1>1, <1>2, WaiterKeepsCounts DEF Drained
<1> QED
  BY <1>2, <1>3 DEF NeverPanics

-----------------------------------------------------------------------------
LEMMA InitGroup == Init => GroupInv
<1> SUFFICES ASSUME Init PROVE GroupInv
  OBVIOUS
<1>1. Sending = {} /\ Busy = 0
  BY DEF Init, Sending, Busy, Goroutines
<1>2. Counts
  <2>1. Cardinality({}) = 0
    BY FS_EmptySet
  <2> QED
    BY <1>1, <2>1 DEF Init, Counts
<1> QED
  BY <1>2 DEF Init, GroupInv, Types, Drained, NeverPanics, Goroutines

LEMMA StepGroup == GroupInv /\ [Next /\ (Captures => ~Flushing)]_vars => GroupInv'
<1> SUFFICES ASSUME GroupInv, [Next /\ (Captures => ~Flushing)]_vars PROVE GroupInv'
  OBVIOUS
<1>1. ASSUME NEW c \in Callers, Adds(c), Captures => ~Flushing PROVE GroupInv'
  BY <1>1, AddsInv DEF Captures
<1>2. ASSUME NEW c \in Callers, Enqueues(c) \/ Overflows(c) \/ Drops(c) PROVE GroupInv'
  BY <1>2, EnqueuesInv, OverflowsInv, DropsInv
<1>3. CASE WorkerReceives \/ WorkerDone
  BY <1>3, WorkerReceivesInv, WorkerDoneInv
<1>4. ASSUME NEW g \in Callers \union {Worker}, Releases(g) PROVE GroupInv'
  BY <1>4, ReleasesInv
<1>5. ASSUME NEW w \in Waiters, Waits(w) \/ Wakes(w) PROVE GroupInv'
  BY <1>5, WaitsInv, WakesInv
<1>6. CASE UNCHANGED vars
  BY <1>6 DEF vars, GroupInv, Types, Counts, Sending, Busy, Drained, Flushing, NeverPanics
<1> QED
  BY <1>1, <1>2, <1>3, <1>4, <1>5, <1>6 DEF Next

(* The invariant holds as long as no capture begins after the first Flush.  *)
THEOREM Invariance == ShutdownSpec => []GroupInv
<1> QED
  BY InitGroup, StepGroup, PTL DEF ShutdownSpec

(* A program that stops capturing before it flushes never sees sync.WaitGroup *)
(* panic, however many captures and flushes there are.                      *)
THEOREM ShutdownNeverPanics == ShutdownSpec => []NeverPanics
<1>1. GroupInv => NeverPanics
  BY DEF GroupInv
<1> QED
  BY <1>1, Invariance, PTL

(* And a Wait that comes back has seen every event through.                 *)
THEOREM ShutdownWaitsForAll == ShutdownSpec => []WaitIsABarrier
<1>1. GroupInv => WaitIsABarrier
  <2> SUFFICES ASSUME GroupInv, NEW w \in Waiters, at[w] = "end"
               PROVE  /\ queued = 0 /\ at[Worker] # "capture"
                      /\ \A c \in Callers : at[c] \notin {"select", "drop"}
    BY DEF WaitIsABarrier
  <2>1. counter = 0
    BY DEF GroupInv, Drained
  <2>2. Cardinality(Sending) = 0 /\ queued = 0 /\ Busy = 0
    BY <2>1, SendingIsFinite DEF GroupInv, Types, Counts, Busy
  <2>3. Sending = {}
    BY <2>2, SendingIsFinite, FS_EmptySet
  <2> QED
    BY <2>2, <2>3 DEF Sending, Busy
<1> QED
  BY <1>1, Invariance, PTL

-----------------------------------------------------------------------------
(* The wakeups. *)

(* A step of a caller or of the worker leaves the parked goroutines where   *)
(* they are: only the two numbers that sum to theirs may move.              *)
LEMMA OthersPark ==
  ASSUME GroupInv, Wakeups, NEW g \in Callers \union {Worker}, NEW next, Goto(g, next),
         waiters' + sema' = waiters + sema
  PROVE  /\ IsFiniteSet(Parked)' /\ (Cardinality(Parked) = waiters + sema)'
         /\ \A h \in Callers \union {Worker} : at'[h] = IF h = g THEN next ELSE at[h]
<1>1. at' = [at EXCEPT ![g] = next] /\ g \notin Waiters
  BY DEF Goto, Worker
<1>2. \A w \in Waiters : at'[w] = at[w]
  BY <1>1 DEF GroupInv, Types, Goroutines
<1>3. Parked' = Parked
  BY <1>2 DEF Parked
<1> QED
  BY <1>1, <1>3 DEF Wakeups, GroupInv, Types, Goroutines

LEMMA SubtractsWakeups ==
  ASSUME GroupInv, Wakeups, NEW g \in Callers \union {Worker}, NEW next, Subtracts(g, next),
         at[g] # "release", UNCHANGED <<waiters, sema>>
  PROVE  Wakeups'
<1> DEFINE to == IF counter = 1 /\ waiters # 0 THEN "release" ELSE next
<1>1. Goto(g, to) /\ counter' = counter - 1
  BY DEF Subtracts
<1>2. waiters' + sema' = waiters + sema
  OBVIOUS
<1>3. /\ IsFiniteSet(Parked)' /\ (Cardinality(Parked) = waiters + sema)'
      /\ \A h \in Callers \union {Worker} : at'[h] = IF h = g THEN to ELSE at[h]
  <2> HIDE DEF to
  <2> QED
    BY <1>1, <1>2, OthersPark
<1>4. waiters' # 0 => counter' # 0 \/ \E h \in Callers \union {Worker} : at'[h] = "release"
  <2> SUFFICES ASSUME waiters # 0 
               PROVE  counter' # 0 \/ \E h \in Callers \union {Worker} : at'[h] = "release"
    OBVIOUS
  <2>1. CASE counter = 1
    BY <1>3, <2>1
  <2>2. CASE counter = 0
    BY <1>1, <2>2 DEF GroupInv, Types
  <2>3. CASE counter # 1 /\ counter # 0
    BY <1>1, <2>3 DEF GroupInv, Types
  <2> QED
    BY <2>1, <2>2, <2>3
<1> QED
  BY <1>3, <1>4 DEF Wakeups

LEMMA CallerWakeups ==
  ASSUME GroupInv, Wakeups, NEW c \in Callers,
         Adds(c) \/ Enqueues(c) \/ Overflows(c) \/ Drops(c)
  PROVE  Wakeups'
<1>1. CASE Adds(c)
  <2>1. Goto(c, "select") /\ at[c] = "start" /\ counter' = counter + 1
        /\ UNCHANGED <<waiters, sema>>
    BY <1>1 DEF Adds
  <2>2. /\ IsFiniteSet(Parked)' /\ (Cardinality(Parked) = waiters + sema)'
    BY <2>1, OthersPark
  <2>3. counter' # 0
    BY <2>1 DEF GroupInv, Types
  <2> QED
    BY <2>2, <2>3 DEF Wakeups
<1>2. CASE Enqueues(c) \/ Overflows(c)
  <2>1. PICK next \in {"end", "drop"} : Goto(c, next)
    BY <1>2 DEF Enqueues, Overflows
  <2>2. at[c] = "select" /\ UNCHANGED <<counter, waiters, sema>>
    BY <1>2 DEF Enqueues, Overflows
  <2>3. /\ IsFiniteSet(Parked)' /\ (Cardinality(Parked) = waiters + sema)'
        /\ \A h \in Callers \union {Worker} : at'[h] = IF h = c THEN next ELSE at[h]
    BY <2>1, <2>2, OthersPark
  <2>4. \A h \in Callers \union {Worker} : at[h] = "release" => at'[h] = "release"
    BY <2>2, <2>3
  <2> QED
    BY <2>2, <2>3, <2>4 DEF Wakeups
<1>3. CASE Drops(c)
  BY <1>3, SubtractsWakeups DEF Drops
<1> QED
  BY <1>1, <1>2, <1>3

LEMMA WorkerWakeups ==
  ASSUME GroupInv, Wakeups, WorkerReceives \/ WorkerDone
  PROVE  Wakeups'
<1>1. CASE WorkerReceives
  <2>1. Goto(Worker, "capture") /\ at[Worker] = "start" /\ UNCHANGED <<counter, waiters, sema>>
    BY <1>1 DEF WorkerReceives
  <2>2. /\ IsFiniteSet(Parked)' /\ (Cardinality(Parked) = waiters + sema)'
        /\ \A h \in Callers \union {Worker} : at'[h] = IF h = Worker THEN "capture" ELSE at[h]
    BY <2>1, OthersPark
  <2>3. \A h \in Callers \union {Worker} : at[h] = "release" => at'[h] = "release"
    BY <2>1, <2>2
  <2> QED
    BY <2>1, <2>2, <2>3 DEF Wakeups
<1>2. CASE WorkerDone
  BY <1>2, SubtractsWakeups DEF WorkerDone
<1> QED
  BY <1>1, <1>2

(* Whoever releases turns every counted waiter into a granted wakeup.       *)
LEMMA ReleasesWakeups ==
  ASSUME GroupInv, Wakeups, NEW g \in Callers \union {Worker}, Releases(g)
  PROVE  Wakeups'
<1>1. counter = 0
  BY DEF Releases, GroupInv, Drained
<1>2. waiters' = 0 /\ sema' = sema + waiters /\ Goto(g, IF g = Worker THEN "start" ELSE "end")
  BY <1>1 DEF Releases
<1>3. waiters' + sema' = waiters + sema
  BY <1>2 DEF GroupInv, Types
<1>4. /\ IsFiniteSet(Parked)' /\ (Cardinality(Parked) = waiters + sema)'
  BY <1>2, <1>3, OthersPark
<1> QED
  BY <1>2, <1>4 DEF Wakeups

LEMMA WaiterWakeups ==
  ASSUME GroupInv, Wakeups, NEW w \in Waiters, Waits(w) \/ Wakes(w)
  PROVE  Wakeups'
<1> USE DEF GroupInv, Types
<1>0. w \in Goroutines
  BY DEF Goroutines
<1>1. CASE Waits(w) /\ counter = 0
  <2>1. Goto(w, "end") /\ at[w] = "start" /\ UNCHANGED <<counter, waiters, sema>>
    BY <1>1 DEF Waits
  <2>2. Parked' = Parked
    BY <1>0, <2>1 DEF Parked, Goto
  <2>3. \A g \in Callers \union {Worker} : at'[g] = at[g]
    BY <1>0, <2>1 DEF Goto, Goroutines, Worker
  <2> QED
    BY <2>1, <2>2, <2>3 DEF Wakeups
<1>2. CASE Waits(w) /\ counter # 0
  <2>1. Goto(w, "parked") /\ at[w] = "start" /\ waiters' = waiters + 1
        /\ UNCHANGED <<counter, sema>>
    BY <1>2 DEF Waits
  <2>2. Parked' = Parked \union {w} /\ w \notin Parked
    BY <1>0, <2>1 DEF Parked, Goto
  <2>3. IsFiniteSet(Parked') /\ Cardinality(Parked') = Cardinality(Parked) + 1
    BY <2>2, FS_AddElement DEF Wakeups
  <2> QED
    BY <1>2, <2>1, <2>3 DEF Wakeups
<1>3. CASE Wakes(w)
  <2>1. Goto(w, "end") /\ at[w] = "parked" /\ sema > 0 /\ sema' = sema - 1
        /\ UNCHANGED <<counter, waiters>>
    BY <1>3 DEF Wakes
  <2>2. Parked' = Parked \ {w} /\ w \in Parked
    BY <1>0, <2>1 DEF Parked, Goto
  <2>3. IsFiniteSet(Parked') /\ Cardinality(Parked') = Cardinality(Parked) - 1
    BY <2>2, FS_RemoveElement DEF Wakeups
  <2>4. waiters = 0
    <3>1. sema # 0
      BY <2>1
    <3> QED
      BY <3>1 DEF Drained
  <2> QED
    BY <2>1, <2>3, <2>4 DEF Wakeups
<1> QED
  BY <1>1, <1>2, <1>3

LEMMA InitWakeups == Init => Wakeups
<1> SUFFICES ASSUME Init PROVE Wakeups
  OBVIOUS
<1>1. Parked = {}
  BY DEF Init, Parked, Goroutines
<1>2. IsFiniteSet({}) /\ Cardinality({}) = 0
  BY FS_EmptySet
<1> QED
  BY <1>1, <1>2 DEF Init, Wakeups

LEMMA StepWakeups ==
  GroupInv /\ Wakeups /\ [Next /\ (Captures => ~Flushing)]_vars => Wakeups'
<1> SUFFICES ASSUME GroupInv, Wakeups, [Next]_vars PROVE Wakeups'
  OBVIOUS
<1>1. CASE UNCHANGED vars
  BY <1>1 DEF vars, Wakeups, Parked
<1> QED
  BY <1>1, CallerWakeups, WorkerWakeups, ReleasesWakeups, WaiterWakeups DEF Next

(* No wakeup is lost, however many goroutines wait: whoever is parked has   *)
(* been granted its wakeup, or there is a Done to come; and when there is   *)
(* none, no event is anywhere and the counter could never fall to zero      *)
(* again.                                                                   *)
THEOREM ShutdownLosesNoWakeup == ShutdownSpec => []NoLostWakeup
<1>1. GroupInv /\ Wakeups => NoLostWakeup
  <2> SUFFICES ASSUME GroupInv, Wakeups, waiters # 0 PROVE Owed
    BY DEF NoLostWakeup, Wakeups
  <2>1. CASE counter = 0
    BY <2>1 DEF Wakeups, Owed
  <2>2. CASE counter # 0
    <3> SUFFICES ASSUME queued = 0, at[Worker] # "capture" PROVE Sending # {}
      BY DEF Owed, Sending, GroupInv, Types
    <3>1. Cardinality(Sending) # 0
      BY <2>2 DEF GroupInv, Types, Counts, Busy
    <3> QED
      BY <3>1, FS_EmptySet
  <2> QED
    BY <2>1, <2>2
<1> QED
  BY <1>1, Invariance, InitGroup, StepGroup, InitWakeups, StepWakeups, PTL DEF ShutdownSpec

-----------------------------------------------------------------------------
(* The refinement. *)

(* A step of a caller or of the worker brings no Wait back. *)
LEMMA OthersReturnNothing ==
  ASSUME GroupInv, NEW g \in Callers \union {Worker}, NEW next, Goto(g, next)
  PROVE  Returned' = Returned
<1>1. at' = [at EXCEPT ![g] = next] /\ g \notin Waiters
  BY PendingGroupAssumption DEF Goto, Worker
<1>2. \A w \in Waiters : at'[w] = at[w]
  BY <1>1 DEF GroupInv, Types, Goroutines
<1> QED
  BY <1>2 DEF Returned

(* A Done has an Add before it. *)
LEMMA CountedAreCounted ==
  ASSUME GroupInv
  PROVE  /\ \A c \in Callers : at[c] = "drop" => counter > 0
         /\ at[Worker] = "capture" => counter > 0
<1> USE DEF GroupInv, Types, Counts
<1>1. ASSUME NEW c \in Callers, at[c] = "drop"
      PROVE  counter > 0
  <2>1. Sending # {}
    BY <1>1 DEF Sending
  <2>2. Cardinality(Sending) \in Nat /\ Cardinality(Sending) # 0
    BY <2>1, SendingIsFinite, FS_EmptySet
  <2> QED
    BY <2>2 DEF Busy
<1>2. ASSUME at[Worker] = "capture"
      PROVE  counter > 0
  BY <1>2, SendingIsFinite DEF Busy
<1> QED
  BY <1>1, <1>2

LEMMA StepIsGroupStep ==
  GroupInv /\ GroupInv' /\ [Next]_vars => [Group!Next]_(Group!vars)
<1> SUFFICES ASSUME GroupInv, GroupInv', [Next]_vars
             PROVE  [Group!Next]_(Group!vars)
  OBVIOUS
<1>0. Running' = Running
  BY DEF GroupInv, NeverPanics, Running
<1>1. ASSUME counter' = counter, Returned' = Returned
      PROVE  [Group!Next]_(Group!vars)
  BY <1>0, <1>1 DEF Group!vars
<1>2. ASSUME NEW c \in Callers, Adds(c)
      PROVE  [Group!Next]_(Group!vars)
  <2>1. Goto(c, "select") /\ counter' = counter + 1
    BY <1>2 DEF Adds
  <2>2. Returned' = Returned
    BY <2>1, OthersReturnNothing
  <2> QED
    BY <1>0, <2>1, <2>2 DEF Group!Next, Group!Add
<1>3. ASSUME NEW c \in Callers, Enqueues(c) \/ Overflows(c)
      PROVE  [Group!Next]_(Group!vars)
  <2>1. PICK next : Goto(c, next)
    BY <1>3 DEF Enqueues, Overflows
  <2>2. counter' = counter
    BY <1>3 DEF Enqueues, Overflows
  <2>3. Returned' = Returned
    BY <2>1, OthersReturnNothing
  <2> QED
    BY <1>1, <2>2, <2>3
<1>4. ASSUME NEW g \in Callers \union {Worker}, NEW next, Subtracts(g, next), counter > 0
      PROVE  [Group!Next]_(Group!vars)
  <2>1. counter' = counter - 1 /\ \E label : Goto(g, label)
    BY <1>4 DEF Subtracts
  <2>2. Returned' = Returned
    BY <2>1, OthersReturnNothing
  <2> QED
    BY <1>0, <1>4, <2>1, <2>2 DEF Group!Next, Group!Done
<1>5. ASSUME NEW c \in Callers, Drops(c)
      PROVE  [Group!Next]_(Group!vars)
  BY <1>4, <1>5, CountedAreCounted DEF Drops
<1>6. CASE WorkerReceives
  <2>1. Goto(Worker, "capture") /\ counter' = counter
    BY <1>6 DEF WorkerReceives
  <2>2. Returned' = Returned
    BY <2>1, OthersReturnNothing
  <2> QED
    BY <1>1, <2>1, <2>2
<1>7. CASE WorkerDone
  BY <1>4, <1>7, CountedAreCounted DEF WorkerDone
<1>8. ASSUME NEW g \in Callers \union {Worker}, Releases(g)
      PROVE  [Group!Next]_(Group!vars)
  <2>1. counter' = counter /\ \E label : Goto(g, label)
    BY <1>8 DEF Releases
  <2>2. Returned' = Returned
    BY <2>1, OthersReturnNothing
  <2> QED
    BY <1>1, <2>1, <2>2
<1>9. ASSUME NEW w \in Waiters, Goto(w, "end"), at[w] # "end", counter = 0, counter' = counter
      PROVE  [Group!Next]_(Group!vars)
  <2>1. \A v \in Waiters : at'[v] = IF v = w THEN "end" ELSE at[v]
    BY <1>9 DEF Goto, GroupInv, Types, Goroutines
  <2>2. Returned' = Returned \union {w} /\ w \notin Returned
    BY <1>9, <2>1 DEF Returned
  <2>3. Group!Return(w)
    BY <1>0, <1>9, <2>2 DEF Group!Return
  <2> QED
    BY <2>3 DEF Group!Next
<1>10. ASSUME NEW w \in Waiters, Waits(w)
       PROVE  [Group!Next]_(Group!vars)
  <2>1. at[w] = "start" /\ counter' = counter
    BY <1>10 DEF Waits
  <2>2. CASE counter = 0
    BY <1>9, <1>10, <2>1, <2>2 DEF Waits
  <2>3. CASE counter # 0
    <3>1. Goto(w, "parked")
      BY <1>10, <2>3 DEF Waits
    <3>2. \A v \in Waiters : at'[v] = IF v = w THEN "parked" ELSE at[v]
      BY <3>1 DEF Goto, GroupInv, Types, Goroutines
    <3>3. Returned' = Returned
      BY <2>1, <3>2 DEF Returned
    <3> QED
      BY <1>1, <2>1, <3>3
  <2> QED
    BY <2>2, <2>3
<1>11. ASSUME NEW w \in Waiters, Wakes(w)
       PROVE  [Group!Next]_(Group!vars)
  <2>1. at[w] = "parked" /\ sema > 0 /\ counter' = counter /\ Goto(w, "end")
    BY <1>11 DEF Wakes
  <2>2. counter = 0
    BY <2>1 DEF GroupInv, Types, Drained
  <2> QED
    BY <1>9, <2>1, <2>2
<1>12. CASE UNCHANGED vars
  BY <1>1, <1>12 DEF vars, Returned
<1> QED
  BY <1>2, <1>3, <1>5, <1>6, <1>7, <1>8, <1>10, <1>11, <1>12 DEF Next

(* The atomic wait group of Provider is the real one, when no capture       *)
(* begins after the first Flush.                                            *)
THEOREM ShutdownIsAtomic == ShutdownSpec => ImplementsWaitGroup
<1>1. Init => Group!Init
  BY DEF Init, Group!Init, Returned, Running, Goroutines
<1>2. GroupInv /\ GroupInv' /\ [Next]_vars => [Group!Next]_(Group!vars)
  BY StepIsGroupStep
<1>3. [Next /\ (Captures => ~Flushing)]_vars => [Next]_vars
  OBVIOUS
<1> QED
  BY <1>1, <1>2, <1>3, Invariance, PTL DEF ShutdownSpec, ImplementsWaitGroup, Group!Spec
=============================================================================
