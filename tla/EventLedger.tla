----------------------------- MODULE EventLedger -----------------------------
(***************************************************************************)
(* What the first-party provider promises its callers, with every buffer,  *)
(* lock and program counter hidden: the fate of each captured event, and   *)
(* the bounded channel, whose room decides who is turned away.  An event   *)
(* is accepted once and leaves that state once.  With a worker it is       *)
(* offered to the channel, once: only then can it be dropped, and only if  *)
(* the channel is full.  Any other event leaves together with the other    *)
(* members of one request of the ingest API, which carries events of one   *)
(* type, never more than its limit and never two transactions.             *)
(***************************************************************************)
EXTENDS FiniteSets, Naturals, Sequences

CONSTANTS Events,     \* the payloads handed to CaptureEvent
          TypeOf,     \* the event type of each
          Capacity    \* the room of the channel

VARIABLES limit,      \* the largest request this provider may build
          worker,     \* whether there is a worker, and a channel to it
          offered,    \* the accepted events the channel has still to be tried for
          channel,    \* the accepted events the worker has not yet received
          outcome     \* the fate of every event

vars == <<limit, worker, offered, channel, outcome>>

BatchTypes == {"errors", "logs"}
EventTypes == BatchTypes \union {"transactions"}

Open    == {"new", "accepted"}
Settled == {"delivered", "failed"}
Outcomes == Open \union Settled \union {"discarded", "dropped"}

Waiting == {channel[i] : i \in DOMAIN channel}

Init == /\ limit \in Nat \ {0}
        /\ worker \in BOOLEAN
        /\ offered = {}
        /\ channel = <<>>
        /\ outcome = [e \in Events |-> "new"]

(* The hook, the privacy options or an empty payload filter the event out. *)
Discard(e) == /\ outcome[e] = "new"
              /\ outcome' = [outcome EXCEPT ![e] = "discarded"]
              /\ UNCHANGED <<offered, channel>>

Accept(e) == /\ outcome[e] = "new"
             /\ outcome' = [outcome EXCEPT ![e] = "accepted"]
             /\ offered' = IF worker THEN offered \union {e} ELSE offered
             /\ UNCHANGED channel

(* The two ways on for an event that is offered: the channel has room, or   *)
(* the event is lost.                                                       *)
Enter(e) == /\ e \in offered /\ Len(channel) < Capacity
            /\ channel' = Append(channel, e)
            /\ offered' = offered \ {e}
            /\ UNCHANGED outcome

Drop(e) == /\ e \in offered /\ Len(channel) = Capacity
           /\ outcome' = [outcome EXCEPT ![e] = "dropped"]
           /\ offered' = offered \ {e}
           /\ UNCHANGED channel

Receive == /\ channel # <<>>
           /\ channel' = Tail(channel)
           /\ UNCHANGED <<offered, outcome>>

(* One request: all of its events share one fate. *)
Settle(batch, fate) ==
  /\ batch # {}
  /\ Cardinality(batch) <= limit
  /\ \A e \in batch : outcome[e] = "accepted" /\ e \notin offered \union Waiting
  /\ \A e, d \in batch : /\ TypeOf[e] = TypeOf[d]
                         /\ TypeOf[e] = "transactions" => d = e
  /\ outcome' = [e \in Events |-> IF e \in batch THEN fate ELSE outcome[e]]
  /\ UNCHANGED <<offered, channel>>

Next == /\ \/ \E e \in Events : Discard(e) \/ Accept(e) \/ Enter(e) \/ Drop(e)
           \/ Receive
           \/ \E batch \in SUBSET Events, fate \in Settled : Settle(batch, fate)
        /\ UNCHANGED <<limit, worker>>

Spec == Init /\ [][Next]_vars
=============================================================================
