------------------------- MODULE GRPCInterceptorInv -------------------------
(* The inductive invariant of GRPCInterceptor. *)
EXTENDS GRPCInterceptor

(* What is known of the call at each stage. *)
Progress ==
  /\ code = IF err = "none" THEN "none" ELSE StatusCode(err)
  /\ stage = "handler" => code = "none" /\ hookPanics = 0
  /\ stage \in {"error", "transaction"} => code \in Codes /\ hookPanics = 0
  /\ stage \in {"recovered", "internal"} =>
       hookPanics = IF code = "none" THEN 0 ELSE 1
  /\ stage # "end" => outcome = "none"

(* The incident of a call none of whose captures panicked. *)
Incident ==
  IF code = "none"
    THEN IF config.panics THEN <<Report("panic", "none", "unhandled")>> ELSE <<>>
    ELSE IF code \in config.capture
           THEN <<Report("error", code, "handled")>> ELSE <<>>

(* The code of its transaction. *)
Answered == IF code = "none" THEN "Internal" ELSE code

(* What the interceptor hands on, unless it panics. *)
HandedOn == IF err = "none" THEN "Internal" ELSE err

Told ==
  hookPanics = 0 =>
    /\ stage \in {"handler", "error", "recovered"} => reports = <<>>
    /\ stage \in {"transaction", "internal"} => reports = Incident
    /\ stage = "end" =>
         /\ \/ /\ reports = Incident
               /\ config.tx => code \in Codes /\ code \notin config.capture
            \/ reports = Append(Incident, Transaction(Answered))
         /\ outcome = HandedOn \/ (outcome = "panic" /\ code = "none")

InterceptorInv ==
  /\ TypeOK
  /\ Progress
  /\ AnswerStands
  /\ Told

(* What reaches a provider, and the order in which one run of the           *)
(* interceptor and its deferred function would report it.                   *)
Event == [kind : {"error", "transaction", "panic"}, code : Codes \union {"none"},
          result : {"handled", "unhandled", "ok", "internal_error", "invalid_argument"}]

Rank(kind) == IF kind = "error" THEN 1 ELSE IF kind = "transaction" THEN 2 ELSE 3

Ascending(n) ==
  \A i, j \in 1..n : i < j => Rank(reports[i].kind) < Rank(reports[j].kind)
UpTo(r) == \A i \in DOMAIN reports : Rank(reports[i].kind) <= r

Entries ==
  /\ reports \in Seq(Event)
  /\ \A i \in DOMAIN reports : reports[i].kind = "transaction" => config.tx

SoFar ==
  /\ stage \in {"handler", "error"} => reports = <<>>
  /\ stage = "transaction" => UpTo(1)
  /\ stage = "recovered" => UpTo(2)

(* One of each kind in the order of the ranks; after that only the          *)
(* transaction of the deferred function.                                    *)
InOrder ==
  \/ Ascending(Len(reports))
  \/ /\ stage = "end"
     /\ reports # <<>> /\ reports[Len(reports)].kind = "transaction"
     /\ Ascending(Len(reports) - 1)

PanicListed ==
  stage = "internal" \/ (stage = "end" /\ Recovered) =>
    (config.panics => "panic" \in Kinds)

TransactionLast ==
  stage = "end" /\ Recovered /\ config.tx =>
    reports # <<>> /\ reports[Len(reports)] = Transaction("Internal")

(* The reports also of a call whose captures panic. *)
Chronicle == Entries /\ SoFar /\ InOrder /\ PanicListed /\ TransactionLast
=============================================================================
