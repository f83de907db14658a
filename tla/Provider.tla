------------------------------ MODULE Provider ------------------------------
(***************************************************************************)
(* The first-party provider, providers/duckbug/provider.go: the bounded    *)
(* queue in front of one worker goroutine, the batch buffers behind it,    *)
(* the ticker that empties them, and Flush.  Without Config.Async there is *)
(* neither queue nor worker, and the callers of CaptureEvent run the send  *)
(* path themselves.                                                        *)
(*                                                                         *)
(* Every goroutine has a program counter; a step is what it does between   *)
(* two points where another goroutine can intervene: an operation of the   *)
(* wait group, of the channel or of the mutex p.mu, or a call of the       *)
(* transport.  A transport call is the pair of the step that enters pc     *)
(* "send" and TransportReturns.                                            *)
(***************************************************************************)
EXTENDS Naturals, Sequences, FiniteSets, Functions

CONSTANTS Events,     \* payloads handed to CaptureEvent, each once
          TypeOf,     \* the event type of each
          Callers,    \* goroutines that call CaptureEvent
          Flushers,   \* goroutines that call Flush
          Deadlined,  \* the flushers whose context can expire
          Worker,     \* the goroutine of run()
          None,       \* no event
          BatchSize, QueueSize,  \* the Config fields
          Modes       \* the values of Config.Async to look at

BatchTypes == {"errors", "logs"}
EventTypes == BatchTypes \union {"transactions"}
Goroutines == Callers \union Flushers \union {Worker}

ASSUME ProviderAssumption ==
  /\ TypeOf \in [Events -> EventTypes]
  /\ Callers \intersect Flushers = {}
  /\ Worker \notin Callers \union Flushers
  /\ Deadlined \subseteq Flushers
  /\ None \notin Events
  /\ Modes \subseteq BOOLEAN
  /\ BatchSize \in Nat \ {0}
  /\ QueueSize \in Nat \ {0}
  /\ IsFiniteSet(Callers) /\ Callers # {}

VARIABLES
  async,      \* p.async, which New sets and nothing changes
  queue,      \* the channel p.queue
  pending,    \* the wait group p.pending
  buffers,    \* p.buffers, per batched type
  pc,         \* where each goroutine stands
  cur,        \* the event a goroutine is capturing
  todo,       \* the flushType calls it still has to make
  sending,    \* the items of its transport call
  before,     \* per Flush: the events whose CaptureEvent returned before it
  outcome     \* the fate of every event, as the failure handler learns it

vars == <<async, queue, pending, buffers, pc, cur, todo, sending, before, outcome>>

Labels == {"idle", "select", "wait", "drained",
           "prepared", "flush", "send", "return"}

Init ==
  /\ async \in Modes
  /\ queue = <<>>
  /\ pending = 0
  /\ buffers = [t \in BatchTypes |-> <<>>]
  /\ pc = [g \in Goroutines |-> "idle"]
  /\ cur = [g \in Goroutines |-> None]
  /\ todo = [g \in Goroutines |-> <<>>]
  /\ sending = [g \in Goroutines |-> <<>>]
  /\ before = [f \in Flushers |-> {}]
  /\ outcome = [e \in Events |-> "new"]

Goto(g, label) == pc' = [pc EXCEPT ![g] = label]

-----------------------------------------------------------------------------
(* CaptureEvent, on the goroutine of the caller. *)

(* An unknown type, an empty payload, or a beforeSend that says no. *)
CaptureDiscards(c, e) ==
  /\ pc[c] = "idle" /\ outcome[e] = "new"
  /\ outcome' = [outcome EXCEPT ![e] = "discarded"]
  /\ UNCHANGED <<async, queue, pending, buffers, pc, cur, todo, sending, before>>

(* enqueue() up to pending.Add(1), or the call of capturePrepared. *)
CaptureBegins(c, e) ==
  /\ pc[c] = "idle" /\ outcome[e] = "new"
  /\ outcome' = [outcome EXCEPT ![e] = "accepted"]
  /\ cur' = [cur EXCEPT ![c] = e]
  /\ \/ /\ async
        /\ pending' = pending + 1
        /\ Goto(c, "select")
     \/ /\ ~async
        /\ Goto(c, "prepared")
        /\ UNCHANGED pending
  /\ UNCHANGED <<async, queue, buffers, todo, sending, before>>

(* The send case of the select. *)
EnqueueSends(c) ==
  /\ pc[c] = "select"
  /\ Len(queue) < QueueSize
  /\ queue' = Append(queue, cur[c])
  /\ cur' = [cur EXCEPT ![c] = None]
  /\ Goto(c, "idle")
  /\ UNCHANGED <<async, pending, buffers, todo, sending, before, outcome>>

(* A mutant: the default case forgets pending.Done(). *)
EnqueueDropsWithoutDone(c) ==
  /\ pc[c] = "select"
  /\ Len(queue) = QueueSize
  /\ outcome' = [outcome EXCEPT ![cur[c]] = "dropped"]
  /\ cur' = [cur EXCEPT ![c] = None]
  /\ Goto(c, "idle")
  /\ UNCHANGED <<async, queue, pending, buffers, todo, sending, before>>

(* A mutant: an event is dropped with one place of the channel still free.  *)
EnqueueDropsEarly(c) ==
  /\ pc[c] = "select"
  /\ Len(queue) >= QueueSize - 1
  /\ pending' = pending - 1
  /\ outcome' = [outcome EXCEPT ![cur[c]] = "dropped"]
  /\ cur' = [cur EXCEPT ![c] = None]
  /\ Goto(c, "idle")
  /\ UNCHANGED <<async, queue, buffers, todo, sending, before>>

(* The default case: the failure handler is told of the drop. *)
EnqueueDrops(c) ==
  /\ pc[c] = "select"
  /\ Len(queue) = QueueSize
  /\ pending' = pending - 1
  /\ outcome' = [outcome EXCEPT ![cur[c]] = "dropped"]
  /\ cur' = [cur EXCEPT ![c] = None]
  /\ Goto(c, "idle")
  /\ UNCHANGED <<async, queue, buffers, todo, sending, before>>

CaptureReturns(c) ==
  /\ pc[c] = "return"
  /\ cur' = [cur EXCEPT ![c] = None]
  /\ Goto(c, "idle")
  /\ UNCHANGED <<async, queue, pending, buffers, todo, sending, before, outcome>>

-----------------------------------------------------------------------------
(* run(): the two cases of the select of the worker. *)

WorkerReceives ==
  /\ async /\ pc[Worker] = "idle" /\ queue # <<>>
  /\ cur' = [cur EXCEPT ![Worker] = Head(queue)]
  /\ queue' = Tail(queue)
  /\ Goto(Worker, "prepared")
  /\ UNCHANGED <<async, pending, buffers, todo, sending, before, outcome>>

(* A mutant: the tick empties one buffer only. *)
TickForgetsErrors ==
  /\ async /\ pc[Worker] = "idle"
  /\ todo' = [todo EXCEPT ![Worker] = <<"logs">>]
  /\ Goto(Worker, "flush")
  /\ UNCHANGED <<async, queue, pending, buffers, cur, sending, before, outcome>>

Tick ==
  /\ async /\ pc[Worker] = "idle"
  /\ todo' = [todo EXCEPT ![Worker] = <<"errors", "logs">>]
  /\ Goto(Worker, "flush")
  /\ UNCHANGED <<async, queue, pending, buffers, cur, sending, before, outcome>>

(* A mutant: pending.Done() after both cases of the select. *)
WorkerLoopsAlwaysDone ==
  /\ pc[Worker] = "return"
  /\ pending' = pending - 1
  /\ cur' = [cur EXCEPT ![Worker] = None]
  /\ Goto(Worker, "idle")
  /\ UNCHANGED <<async, queue, buffers, todo, sending, before, outcome>>

(* pending.Done() after an item; nothing after a tick. *)
WorkerLoops ==
  /\ pc[Worker] = "return"
  /\ pending' = IF cur[Worker] = None THEN pending ELSE pending - 1
  /\ cur' = [cur EXCEPT ![Worker] = None]
  /\ Goto(Worker, "idle")
  /\ UNCHANGED <<async, queue, buffers, todo, sending, before, outcome>>

-----------------------------------------------------------------------------
(* capturePrepared() and flushType(), on whichever goroutine calls them. *)

(* Immediate == batchSize <= 1 or a transaction: no buffering. *)
Immediate(e) == BatchSize = 1 \/ TypeOf[e] = "transactions"

SendsOne(g) ==
  /\ pc[g] = "prepared" /\ Immediate(cur[g])
  /\ sending' = [sending EXCEPT ![g] = <<cur[g]>>]
  /\ Goto(g, "send")
  /\ UNCHANGED <<async, queue, pending, buffers, cur, todo, before, outcome>>

(* The critical section of capturePrepared and the test of shouldFlush. *)
Buffers(g) ==
  /\ pc[g] = "prepared" /\ ~Immediate(cur[g])
  /\ LET t    == TypeOf[cur[g]]
         kept == Append(buffers[t], cur[g])
     IN  /\ buffers' = [buffers EXCEPT ![t] = kept]
         /\ \/ /\ Len(kept) >= BatchSize
               /\ todo' = [todo EXCEPT ![g] = <<t>>]
               /\ Goto(g, "flush")
            \/ /\ Len(kept) < BatchSize
               /\ Goto(g, "return")
               /\ UNCHANGED todo
  /\ UNCHANGED <<async, queue, pending, cur, sending, before, outcome>>

Rest(calls) == IF calls = <<>> THEN "return" ELSE "flush"

(* A mutant: flushType copies the buffer and does not reset it. *)
TakesBatchKeepsIt(g) ==
  /\ pc[g] = "flush"
  /\ LET t == Head(todo[g])
     IN  /\ sending' = [sending EXCEPT ![g] = buffers[t]]
         /\ todo' = [todo EXCEPT ![g] = Tail(@)]
         /\ Goto(g, IF buffers[t] = <<>> THEN Rest(Tail(todo[g])) ELSE "send")
  /\ UNCHANGED <<async, queue, pending, buffers, cur, before, outcome>>

(* The critical section of flushType: the buffer is taken as a whole. *)
TakesBatch(g) ==
  /\ pc[g] = "flush"
  /\ LET t == Head(todo[g])
     IN  /\ buffers' = [buffers EXCEPT ![t] = <<>>]
         /\ sending' = [sending EXCEPT ![g] = buffers[t]]
         /\ todo' = [todo EXCEPT ![g] = Tail(@)]
         /\ Goto(g, IF buffers[t] = <<>> THEN Rest(Tail(todo[g])) ELSE "send")
  /\ UNCHANGED <<async, queue, pending, cur, before, outcome>>

(* A mutant: handleTransportResult puts a failed batch back in its buffer. *)
TransportPutsBack(g) ==
  /\ pc[g] = "send"
  /\ LET t == TypeOf[Head(sending[g])]
     IN  \/ /\ outcome' = [e \in Events |->
                            IF e \in Range(sending[g]) THEN "delivered" ELSE outcome[e]]
            /\ UNCHANGED buffers
         \/ /\ t \in BatchTypes
            /\ buffers' = [buffers EXCEPT ![t] = @ \o sending[g]]
            /\ UNCHANGED outcome
  /\ sending' = [sending EXCEPT ![g] = <<>>]
  /\ Goto(g, Rest(todo[g]))
  /\ UNCHANGED <<async, queue, pending, cur, todo, before>>

(* Send or SendBatch returns and handleTransportResult runs: a failed      *)
(* request is reported with its items, and none of them is kept.           *)
TransportReturns(g) ==
  /\ pc[g] = "send"
  /\ \E fate \in {"delivered", "failed"} :
       outcome' = [e \in Events |->
                     IF e \in Range(sending[g]) THEN fate ELSE outcome[e]]
  /\ sending' = [sending EXCEPT ![g] = <<>>]
  /\ Goto(g, Rest(todo[g]))
  /\ UNCHANGED <<async, queue, pending, buffers, cur, todo, before>>

-----------------------------------------------------------------------------
(* Flush and wait. *)

(* The events whose CaptureEvent has returned and that are not settled. *)
Captured == {e \in Events : /\ outcome[e] = "accepted"
                            /\ \A c \in Callers : cur[c] # e}

FlushBegins(f) ==
  /\ pc[f] = "idle"
  /\ before' = [before EXCEPT ![f] = Captured]
  /\ \/ /\ async
        /\ Goto(f, "wait")
        /\ UNCHANGED todo
     \/ /\ ~async
        /\ todo' = [todo EXCEPT ![f] = <<"errors", "logs">>]
        /\ Goto(f, "flush")
  /\ UNCHANGED <<async, queue, pending, buffers, cur, sending, outcome>>

(* A mutant: wait() watches the channel and not the wait group. *)
WaitEndsOnEmptyChannel(f) ==
  /\ pc[f] = "wait" /\ queue = <<>>
  /\ Goto(f, "drained")
  /\ UNCHANGED <<async, queue, pending, buffers, cur, todo, sending, before, outcome>>

(* The goroutine of wait() sees the counter at zero and closes done. *)
WaitEnds(f) ==
  /\ pc[f] = "wait" /\ pending = 0
  /\ Goto(f, "drained")
  /\ UNCHANGED <<async, queue, pending, buffers, cur, todo, sending, before, outcome>>

(* The select of wait() picks done; by now pending may be positive again. *)
FlushProceeds(f) ==
  /\ pc[f] = "drained"
  /\ todo' = [todo EXCEPT ![f] = <<"errors", "logs">>]
  /\ Goto(f, "flush")
  /\ UNCHANGED <<async, queue, pending, buffers, cur, sending, before, outcome>>

(* It picks ctx.Done(), which it may do even when done is closed as well. *)
FlushGivesUp(f) ==
  /\ f \in Deadlined /\ pc[f] \in {"wait", "drained"}
  /\ before' = [before EXCEPT ![f] = {}]
  /\ Goto(f, "idle")
  /\ UNCHANGED <<async, queue, pending, buffers, cur, todo, sending, outcome>>

FlushReturns(f) ==
  /\ pc[f] = "return"
  /\ before' = [before EXCEPT ![f] = {}]
  /\ Goto(f, "idle")
  /\ UNCHANGED <<async, queue, pending, buffers, cur, todo, sending, outcome>>

-----------------------------------------------------------------------------
SendPath(g) == SendsOne(g) \/ Buffers(g) \/ TakesBatch(g) \/ TransportReturns(g)

CallerStep(c) == EnqueueSends(c) \/ EnqueueDrops(c) \/ CaptureReturns(c)

FlusherStep(f) == WaitEnds(f) \/ FlushProceeds(f) \/ FlushReturns(f)

Next ==
  \/ \E c \in Callers : \/ CallerStep(c)
                        \/ \E e \in Events : CaptureDiscards(c, e) \/ CaptureBegins(c, e)
  \/ \E f \in Flushers : FlusherStep(f) \/ FlushBegins(f) \/ FlushGivesUp(f)
  \/ WorkerReceives \/ Tick \/ WorkerLoops
  \/ \E g \in Goroutines : SendPath(g)

Spec == Init /\ [][Next]_vars

(***************************************************************************)
(* The Go scheduler runs every goroutine that can run, and a transport     *)
(* call ends: the client has a timeout.  The worker's select chooses at    *)
(* random among its ready cases, and its ticker keeps firing, so neither   *)
(* case is passed over for ever; the Done that reaches zero wakes every    *)
(* waiter.  Nobody is obliged to call CaptureEvent or Flush.               *)
(***************************************************************************)
Fairness ==
  /\ \A g \in Goroutines : WF_vars(SendPath(g))
  /\ \A c \in Callers : WF_vars(CallerStep(c))
  /\ \A f \in Flushers : SF_vars(FlusherStep(f))
  /\ WF_vars(WorkerLoops) /\ SF_vars(WorkerReceives) /\ SF_vars(Tick)

FairSpec == Spec /\ Fairness
-----------------------------------------------------------------------------
(* Properties. *)

(* Every variable of the provider keeps the shape its Go type gives it. *)
TypeOK ==
  /\ async \in BOOLEAN
  /\ queue \in Seq(Events)
  /\ pending \in Nat
  /\ buffers \in [BatchTypes -> Seq(Events)]
  /\ pc \in [Goroutines -> Labels]
  /\ cur \in [Goroutines -> Events \union {None}]
  /\ todo \in [Goroutines -> Seq(BatchTypes)]
  /\ sending \in [Goroutines -> Seq(Events)]
  /\ before \in [Flushers -> SUBSET Events]
  /\ outcome \in [Events -> {"new", "discarded", "accepted", "dropped",
                             "delivered", "failed"}]

(* The wait group counts the events between Add and Done, wherever they     *)
(* are: at the select of enqueue, in the channel, or with the worker.       *)
Enqueueing == {c \in Callers : pc[c] = "select"}
Holding(g) == IF cur[g] = None THEN 0 ELSE 1

PendingCounts ==
  pending = IF async THEN Len(queue) + Cardinality(Enqueueing) + Holding(Worker)
                     ELSE 0

(* An event captured before a Flush is past the queue and past the worker   *)
(* once wait() has seen zero: the flushType calls that follow find it in    *)
(* its buffer, or already in a request.                                     *)
Waited == {f \in Flushers : pc[f] \in {"drained", "flush", "send", "return"}}

FlushBarrier ==
  \A f \in Waited : \A e \in before[f] :
    async => /\ e \notin Range(queue)
             /\ cur[Worker] # e

(* When Flush returns, no event captured before it is left behind in the    *)
(* provider: each is settled, or in a request of another goroutine.         *)
FlushHandsOver ==
  \A f \in Flushers : pc[f] = "return" =>
    \A e \in before[f] : outcome[e] = "accepted" =>
      \E g \in Goroutines \ {f} : e \in Range(sending[g])

(* An accepted event is in exactly one place until it is settled or         *)
(* dropped, and nowhere afterwards: no lost event, and none sent twice.     *)
HeldAt(e) ==
  {<<"held", g, 0>> : g \in {h \in Goroutines : /\ pc[h] \in {"select", "prepared"}
                                              /\ cur[h] = e}}
QueuedAt(e) == {<<"queue", None, i>> : i \in {j \in DOMAIN queue : queue[j] = e}}
InBuffer(t, e) == {<<"buffer", t, i>> : i \in {j \in DOMAIN buffers[t] : buffers[t][j] = e}}
InRequest(g, e) == {<<"request", g, i>> : i \in {j \in DOMAIN sending[g] : sending[g][j] = e}}
BufferedAt(e) == UNION {InBuffer(t, e) : t \in BatchTypes}
RequestedAt(e) == UNION {InRequest(g, e) : g \in Goroutines}

Places(e) == HeldAt(e) \union QueuedAt(e) \union BufferedAt(e) \union RequestedAt(e)

InOnePlace ==
  \A e \in Events :
    Cardinality(Places(e)) = IF outcome[e] = "accepted" THEN 1 ELSE 0

(* A buffer outgrows BatchSize - 1 only by the events of goroutines that    *)
(* have appended one and not yet come to flushType; so no request holds     *)
(* more than MaxBatch events.                                               *)
Appenders == IF async THEN {Worker} ELSE Callers
Overdue(t) == {g \in Appenders : pc[g] = "flush" /\ cur[g] # None /\ todo[g] = <<t>>}
MaxBatch == BatchSize - 1 + Cardinality(Appenders)

BatchBound ==
  /\ \A t \in BatchTypes : Len(buffers[t]) <= BatchSize - 1 + Cardinality(Overdue(t))
  /\ \A g \in Goroutines : Len(sending[g]) <= MaxBatch

(* How far the events have come on their way from CaptureEvent to the       *)
(* transport.                                                               *)
Settled == {e \in Events : outcome[e] \notin {"new", "accepted"}}
InHand == {e \in Events : \E g \in Goroutines : pc[g] = "prepared" /\ cur[g] = e}

PastBuffers == Settled \union UNION {Range(sending[g]) : g \in Goroutines}
PastWorker == PastBuffers \union UNION {Range(buffers[t]) : t \in BatchTypes}
PastQueue == PastWorker \union InHand
PastCaller == PastQueue \union Range(queue)

(* An event only goes forward: what a request has taken is never buffered   *)
(* again, what the worker has received never back in the channel, and the   *)
(* fate that the failure handler was told of stands.                        *)
Advances ==
  /\ \A e \in Settled : outcome'[e] = outcome[e]
  /\ PastBuffers \subseteq PastBuffers'
  /\ PastWorker \subseteq PastWorker'
  /\ PastQueue \subseteq PastQueue'
  /\ PastCaller \subseteq PastCaller'

EventsOnlyAdvance == [][Advances]_vars

(* With the worker, events of one type reach the transport in the order in  *)
(* which the channel took them, whether the worker or a Flush sends them:   *)
(* of two that are in order, the later is in a request only when the        *)
(* earlier has been in one before, or is ahead of it in the same.           *)
Ahead(s, e, f) == \E i, j \in DOMAIN s : i < j /\ s[i] = e /\ s[j] = f

InOrder(e, f) ==
  \/ Ahead(queue, e, f)
  \/ e \in PastQueue /\ f \in Range(queue)
  \/ e \in PastWorker /\ f \in InHand
  \/ \E t \in BatchTypes : \/ Ahead(buffers[t], e, f)
                           \/ e \in PastBuffers /\ f \in Range(buffers[t])

StaysInOrder(e, f) ==
  \/ InOrder(e, f)'
  \/ e \in PastBuffers /\ f \in PastBuffers'
  \/ \E g \in Goroutines : Ahead(sending'[g], e, f)

KeepsOrder ==
  [][async => \A e, f \in Events :
       TypeOf[e] = TypeOf[f] /\ InOrder(e, f) => StaysInOrder(e, f)]_vars

(* The events at the select of enqueue. *)
Offered == {cur[c] : c \in Enqueueing}

(* The goroutines together do what the ledger promises: each request        *)
(* settles a batch of its own, whole, of one type, single-shot for          *)
(* transactions; an accepted event is dropped only by a provider with a     *)
(* worker, on a full queue, and not when the queue has once taken it.       *)
Ledger == INSTANCE EventLedger WITH limit <- MaxBatch, Capacity <- QueueSize,
                                    worker <- async, offered <- Offered,
                                    channel <- queue
ImplementsLedger == Ledger!Spec

(* An accepted event does not stay in the provider for ever.  Without the   *)
(* worker there is no ticker either, and a partial batch may: it waits for  *)
(* another capture of its type, or for a Flush.                             *)
Parked(e) == ~async /\ \E t \in BatchTypes : e \in Range(buffers[t])

EventuallySettled ==
  \A e \in Events : (outcome[e] = "accepted") ~> (outcome[e] # "accepted" \/ Parked(e))

(* Flush comes back, once the callers have no more events to capture.       *)
FlushComesBack ==
  \A f \in Flushers : (pc[f] # "idle") ~> (pc[f] = "idle")

(* What the README says of Flush, "Runtime defaults": it sends any buffered *)
(* log and error batches.  So an event captured before it is settled when   *)
(* it returns.                                                              *)
FlushSettles ==
  \A f \in Flushers : pc[f] = "return" =>
    \A e \in before[f] : outcome[e] # "accepted"
=============================================================================
