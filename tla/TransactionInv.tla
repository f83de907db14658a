---------------------------- MODULE TransactionInv ----------------------------
(* The inductive invariant of Transaction. *)
EXTENDS Transaction

(* What is listed has been started; what the fields refer to is their own.  *)
ListIsStarted ==
  /\ start[Root] \in Times
  /\ \A i \in DOMAIN spans : start[spans[i]] \in Times

OwnMaps == \A o \in Objects : data[o] = "own" \/ (data[o] = "nil" /\ own[o] = None)

(* How many of the payloads are begun, and what is left of the list.        *)
Position ==
  /\ stage = "idle" => report = << >>
  /\ stage # "idle" =>
       /\ Len(report) = Len(spans) - Len(todo) + (IF stage = "status" THEN 2 ELSE 1)
       /\ Len(todo) <= Len(spans)
       /\ report[1].of = Root
       /\ \A i \in DOMAIN todo : todo[i] = spans[Len(spans) - Len(todo) + i]
       /\ \A i \in DOMAIN report : i > 1 => report[i].of = spans[i - 1]
       /\ todo = << >> <=> stage = "built"

(* The entry that is being read; only its end is final.                     *)
Current(i) == stage = "status" /\ i = Len(report)

Faithful ==
  \A i \in DOMAIN report :
    /\ report[i].duration = Duration(report[i].start, report[i].end)
    /\ report[i].of \notin raced =>
         IF Current(i) THEN report[i].end = EndOrStart(report[i].of)
                       ELSE AsLeft(report[i])

TransactionInvariant ==
  /\ TypeOK
  /\ ListIsStarted
  /\ OwnMaps
  /\ Position
  /\ Faithful
=============================================================================
