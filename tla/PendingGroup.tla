---------------------------- MODULE PendingGroup ----------------------------
(***************************************************************************)
(* p.pending of providers/duckbug/provider.go at the grain of sync.WaitGroup: *)
(* Provider takes Add, Done and Wait as atomic, and here they are what the *)
(* Go library makes of them, with the two panics it has for a group that   *)
(* is reused while a Wait is under way.  Events are tokens: nothing in     *)
(* this protocol depends on which one a goroutine holds.                   *)
(***************************************************************************)
EXTENDS Naturals, FiniteSets

CONSTANTS Callers,    \* goroutines that call CaptureEvent, once each
          Waiters,    \* the goroutines that wait() starts, one per Flush
          QueueSize

ASSUME PendingGroupAssumption ==
  /\ IsFiniteSet(Callers)
  /\ Callers \intersect Waiters = {}
  /\ "worker" \notin Callers \union Waiters
  /\ QueueSize \in Nat \ {0}

VARIABLES
  counter,    \* the high half of wg.state
  waiters,    \* its low half
  sema,       \* wakeups granted by runtime_Semrelease and not yet taken
  queued,     \* the number of events in p.queue
  at,         \* where every goroutine stands
  panicked    \* the message of the panic that ended the process, if any

vars == <<counter, waiters, sema, queued, at, panicked>>

Worker == "worker"
Goroutines == Callers \union Waiters \union {Worker}
Messages == {"none", "Add called concurrently with Wait",
             "reused before previous Wait has returned"}

Init ==
  /\ counter = 0 /\ waiters = 0 /\ sema = 0 /\ queued = 0
  /\ at = [g \in Goroutines |-> "start"]
  /\ panicked = "none"

Goto(g, label) == at' = [at EXCEPT ![g] = label]
Panics(message) == panicked' = message

(* A mutant: enqueue without Add. *)
AddsNothing(c) ==
  /\ at[c] = "start"
  /\ Goto(c, "select")
  /\ UNCHANGED <<counter, waiters, sema, queued, panicked>>

(* p.pending.Add(1) in enqueue. *)
Adds(c) ==
  /\ at[c] = "start"
  /\ counter' = counter + 1
  /\ IF waiters # 0 /\ counter = 0
       THEN Panics("Add called concurrently with Wait")
       ELSE UNCHANGED panicked
  /\ Goto(c, "select")
  /\ UNCHANGED <<waiters, sema, queued>>

(* The send case of the select in enqueue. *)
Enqueues(c) ==
  /\ at[c] = "select" /\ queued < QueueSize
  /\ queued' = queued + 1
  /\ Goto(c, "end")
  /\ UNCHANGED <<counter, waiters, sema, panicked>>

(* The first half of p.pending.Done(), for a dropped event or by the worker *)
(* after an event: the decrement, and the test for a waiter to be released. *)
Subtracts(g, next) ==
  /\ counter' = counter - 1
  /\ Goto(g, IF counter = 1 /\ waiters # 0 THEN "release" ELSE next)

(* The default case of that select, chosen because the channel is full. The *)
(* worker may well have emptied it when the goroutine comes to Done.        *)
Overflows(c) ==
  /\ at[c] = "select" /\ queued = QueueSize
  /\ Goto(c, "drop")
  /\ UNCHANGED <<counter, waiters, sema, queued, panicked>>

(* A mutant: enqueue forgets the Done of a dropped event. *)
DropsWithoutDone(c) ==
  /\ at[c] = "drop"
  /\ Goto(c, "end")
  /\ UNCHANGED <<counter, waiters, sema, queued, panicked>>

Drops(c) ==
  /\ at[c] = "drop"
  /\ Subtracts(c, "end")
  /\ UNCHANGED <<waiters, sema, queued, panicked>>

WorkerReceives ==
  /\ at[Worker] = "start" /\ queued > 0
  /\ queued' = queued - 1
  /\ Goto(Worker, "capture")
  /\ UNCHANGED <<counter, waiters, sema, panicked>>

WorkerDone ==
  /\ at[Worker] = "capture"
  /\ Subtracts(Worker, "start")
  /\ UNCHANGED <<waiters, sema, queued, panicked>>

(* The second half of Done(): the state must still be what the decrement    *)
(* left, it is reset, and every waiter gets a wakeup.                       *)
Releases(g) ==
  /\ at[g] = "release"
  /\ IF counter # 0
       THEN /\ Panics("Add called concurrently with Wait")
            /\ UNCHANGED <<waiters, sema>>
       ELSE /\ waiters' = 0
            /\ sema' = sema + waiters
            /\ UNCHANGED panicked
  /\ Goto(g, IF g = Worker THEN "start" ELSE "end")
  /\ UNCHANGED <<counter, queued>>

(* p.pending.Wait() in the goroutine of wait(). *)
Waits(w) ==
  /\ at[w] = "start"
  /\ IF counter = 0
       THEN Goto(w, "end") /\ UNCHANGED waiters
       ELSE Goto(w, "parked") /\ waiters' = waiters + 1
  /\ UNCHANGED <<counter, sema, queued, panicked>>

Wakes(w) ==
  /\ at[w] = "parked" /\ sema > 0
  /\ sema' = sema - 1
  /\ IF counter # 0 \/ waiters # 0
       THEN Panics("reused before previous Wait has returned")
       ELSE UNCHANGED panicked
  /\ Goto(w, "end")
  /\ UNCHANGED <<counter, waiters, queued>>

Next ==
  /\ panicked = "none"
  /\ \/ \E c \in Callers : Adds(c) \/ Enqueues(c) \/ Overflows(c) \/ Drops(c)
     \/ WorkerReceives \/ WorkerDone
     \/ \E g \in Callers \union {Worker} : Releases(g)
     \/ \E w \in Waiters : Waits(w) \/ Wakes(w)

Spec == Init /\ [][Next]_vars

(***************************************************************************)
(* The use the README asks for, "on graceful shutdown": no capture begins  *)
(* once a Flush has.  Every goroutine that can take a step takes one.      *)
(***************************************************************************)
Captures == \E c \in Callers : Adds(c)
Flushing == \E w \in Waiters : at[w] # "start"

CallerSteps(c) == Adds(c) \/ Enqueues(c) \/ Overflows(c) \/ Drops(c) \/ Releases(c)
WorkerSteps == WorkerReceives \/ WorkerDone \/ Releases(Worker)
WaiterSteps(w) == Waits(w) \/ Wakes(w)

ShutdownSpec ==
  /\ Init
  /\ [][Next /\ (Captures => ~Flushing)]_vars
  /\ \A c \in Callers : WF_vars(CallerSteps(c) /\ at[c] # "start")
  /\ WF_vars(WorkerSteps)
  /\ \A w \in Waiters : WF_vars(WaiterSteps(w) /\ at[w] # "start")

-----------------------------------------------------------------------------
(* README, "Runtime defaults": Flush waits for the provider queue.  So the  *)
(* goroutine that waits for it comes back from Wait, whatever is captured   *)
(* meanwhile, and neither it nor a capture ends the process.                *)
NeverPanics == panicked = "none"

(* A Wait that has come back has seen every earlier event through: none is  *)
(* at the select or past it, in the channel or with the worker.             *)
WaitIsABarrier ==
  \A w \in Waiters : at[w] = "end" =>
    /\ queued = 0 /\ at[Worker] # "capture"
    /\ \A c \in Callers : at[c] \notin {"select", "drop"}

(* No wakeup is lost between the counter and the semaphore: every goroutine *)
(* parked in Wait is one that wg.state still counts or one that a wakeup    *)
(* has been granted to, and while it counts any there is a goroutine whose  *)
(* Done is to come, for an event on its way or as the second half of the    *)
(* Done that reached zero.                                                  *)
Parked == {w \in Waiters : at[w] = "parked"}
Owed == \/ queued > 0
        \/ \E g \in Callers \union {Worker} : at[g] \in {"select", "drop", "capture", "release"}

NoLostWakeup ==
  /\ Cardinality(Parked) = waiters + sema
  /\ waiters # 0 => Owed

(* What Provider builds on: Add, Done and the return of a Wait take effect  *)
(* as if each were one step, a Wait returns at zero and only then, although *)
(* a Done is two steps and a wakeup a third, and no Done is one too many.   *)
Returned == {w \in Waiters : at[w] = "end"}
Running == panicked = "none"

Group == INSTANCE WaitGroup
  WITH Calls <- Waiters, pending <- counter, back <- Returned, running <- Running
ImplementsWaitGroup == Group!Spec

(* A Wait comes back: the Done that reaches zero wakes every waiter, also   *)
(* when it is the Done of a dropped event.                                  *)
WaitComesBack ==
  \A w \in Waiters : at[w] = "parked" ~> at[w] = "end"
=============================================================================
