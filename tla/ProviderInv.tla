----------------------------- MODULE ProviderInv -----------------------------
(***************************************************************************)
(* The inductive invariant of Provider: its properties, and what has to be *)
(* known of every state besides them for a step to preserve them.          *)
(***************************************************************************)
EXTENDS Provider

(* Which labels a goroutine can be at, and what it has in hand there. *)
CallerLabels == IF async THEN {"idle", "select"}
                         ELSE {"idle", "prepared", "flush", "send", "return"}
FlusherLabels == {"idle", "flush", "send", "return"}
                   \union (IF async THEN {"wait", "drained"} ELSE {})
WorkerLabels == IF async THEN {"idle", "prepared", "flush", "send", "return"}
                         ELSE {"idle"}

Control ==
  /\ \A c \in Callers : /\ pc[c] \in CallerLabels
                        /\ pc[c] = "idle" <=> cur[c] = None
  /\ \A f \in Flushers : pc[f] \in FlusherLabels /\ cur[f] = None
  /\ pc[Worker] \in WorkerLabels
  /\ pc[Worker] = "idle" => cur[Worker] = None
  /\ pc[Worker] = "prepared" => cur[Worker] # None
  /\ ~async => queue = <<>>

(* What a goroutine still has to do: the type of the event it captures, for *)
(* a capture, and nothing outside flushType.                                *)
Agenda ==
  \A g \in Goroutines :
    /\ pc[g] = "flush" => todo[g] # <<>>
    /\ pc[g] \notin {"flush", "send"} => todo[g] = <<>>
    /\ pc[g] = "send" <=> sending[g] # <<>>
    /\ pc[g] = "flush" /\ cur[g] # None => Len(todo[g]) = 1
    /\ pc[g] = "send" /\ cur[g] # None => todo[g] = <<>>

(* The events a Flush answers for were captured before it began. *)
BeforeIsPast ==
  \A f \in Flushers : \A e \in before[f] :
    /\ outcome[e] # "new"
    /\ \A c \in Callers : cur[c] # e

(* An accepted event is somewhere. *)
Located ==
  \A e \in Events : outcome[e] = "accepted" =>
    \/ \E g \in Goroutines : pc[g] \in {"select", "prepared"} /\ cur[g] = e
    \/ e \in Range(queue)
    \/ \E t \in BatchTypes : e \in Range(buffers[t])
    \/ \E g \in Goroutines : e \in Range(sending[g])

(* Of the events a Flush answers for, the buffers hold only those of the    *)
(* types it has still to empty.                                             *)
StillToTake ==
  \A f \in Flushers : pc[f] \in {"flush", "send", "return"} =>
    \A t \in BatchTypes : \A e \in before[f] :
      e \in Range(buffers[t]) => t \in Range(todo[f])

IndInv ==
  /\ TypeOK
  /\ Control
  /\ Agenda
  /\ PendingCounts
  /\ BatchBound
  /\ BeforeIsPast
  /\ FlushBarrier
  /\ Located
  /\ StillToTake

-----------------------------------------------------------------------------
(* What the places of events need besides. *)

(* Nothing is in two places, or twice in one. *)
Sole == \A e \in Events : \A x, y \in Places(e) : x = y

(* What is settled, dropped or not yet captured is nowhere. *)
Gone == \A e \in Events : outcome[e] # "accepted" => Places(e) = {}

(* A buffer holds events of its type, a request those of one type, and a    *)
(* transaction goes alone.                                                  *)
OfOneType ==
  /\ \A t \in BatchTypes : \A i \in DOMAIN buffers[t] : TypeOf[buffers[t][i]] = t
  /\ \A g \in Goroutines :
       \/ \E t \in BatchTypes : \A i \in DOMAIN sending[g] : TypeOf[sending[g][i]] = t
       \/ Len(sending[g]) = 1

PlaceInv ==
  /\ IndInv
  /\ Sole
  /\ Gone
  /\ OfOneType
=============================================================================
