-------------------------- MODULE HTTPMiddlewareInv --------------------------
(* The inductive invariant of HTTPMiddleware. *)
EXTENDS HTTPMiddleware

(* No body without a status line. *)
BodyAfterHeader == sent > 0 => status # 0

(* What the server adds at the end is all the observer does not know. *)
ServerCompletes ==
  stage = "end" =>
    /\ status = IF wroteHeader \/ hijacked THEN statusCode ELSE 200
    /\ wroteHeader <=> statusCode # 0
    /\ hijacked <=> taken
    /\ acceptedBytes = sent

(* A handler that panicked is past its normal way out, and the fallback has *)
(* seen to it that there is an answer.                                      *)
Panicking == {"recovered", "fallback", "forced", "repanic"}
Answering ==
  /\ stage \in {"arrives", "handler", "handled5xx", "transaction"} => ~panicked
  /\ stage = "forced" => wroteHeader \/ hijacked
  /\ stage \in {"served", "end"} /\ panicked => wroteHeader \/ hijacked
  /\ stage = "aborted" /\ ~hookPanicked => panicked

(* What has been reported by the time the request is at its stage. *)
Incident ==
  IF panicked
    THEN IF config.panics THEN <<Report("panic", 0, "unhandled")>> ELSE <<>>
    ELSE IF config.handled5xx /\ statusCode >= 500
           THEN <<Report("5xx", statusCode, "handled")>> ELSE <<>>

Final == ResponseStatus(~panicked)

Told ==
  ~hookPanicked =>
    /\ stage \in {"arrives", "handler", "handled5xx", "recovered"} => reports = <<>>
    /\ stage \in Panicking => panicked
    /\ stage \in {"transaction", "fallback", "forced", "repanic"} => reports = Incident
    /\ stage \in {"served", "end", "aborted"} =>
         \/ /\ reports = Incident
            /\ config.tx => ~panicked /\ Final < 500
         \/ reports = Append(Incident, Report("transaction", Final, StatusName(Final)))

MiddlewareInv ==
  /\ TypeOK
  /\ ObservedIsSent
  /\ SnippetIsPrefix
  /\ BodyAfterHeader
  /\ ServerCompletes
  /\ Answering
  /\ Told

(* What reaches a provider, and the order in which one run of the closure   *)
(* and its deferred function would report it.                               *)
Event == [kind : {"5xx", "transaction", "panic"}, status : Statuses,
          result : {"handled", "unhandled", "unknown_error", "internal_error",
                    "invalid_argument", "ok"}]

Rank(kind) == IF kind = "5xx" THEN 1 ELSE IF kind = "transaction" THEN 2 ELSE 3

Ascending(n) ==
  \A i, j \in 1..n : i < j => Rank(reports[i].kind) < Rank(reports[j].kind)
UpTo(r) == \A i \in DOMAIN reports : Rank(reports[i].kind) <= r

(* A 5xx is reported of a response that has begun, so that no fallback      *)
(* changes its status any more.                                             *)
Entry(event) ==
  /\ event.kind = "5xx" => wroteHeader /\ event = Report("5xx", statusCode, "handled")
  /\ event.kind = "transaction" => config.tx
Entries == reports \in Seq(Event) /\ \A i \in DOMAIN reports : Entry(reports[i])

SoFar ==
  /\ stage \in {"arrives", "handler", "handled5xx"} => reports = <<>> /\ ~hookPanicked
  /\ stage = "transaction" => UpTo(1) /\ ~hookPanicked
  /\ stage = "recovered" => UpTo(2)

(* One of each kind in the order of the ranks; after that only the          *)
(* transaction of the deferred function.                                    *)
InOrder ==
  \/ Ascending(Len(reports))
  \/ /\ stage \in {"served", "end", "aborted"}
     /\ reports # <<>> /\ reports[Len(reports)].kind = "transaction"
     /\ Ascending(Len(reports) - 1)

PanicListed ==
  stage \in {"fallback", "repanic", "forced", "served", "end"} =>
    ((panicked \/ hookPanicked) /\ config.panics => "panic" \in Kinds)

EndsWithTransaction ==
  /\ reports # <<>>
  /\ reports[Len(reports)] = Report("transaction", statusCode, StatusName(statusCode))

TransactionLast ==
  stage \in {"served", "end"} /\ hookPanicked =>
    /\ wroteHeader \/ hijacked
    /\ config.tx => EndsWithTransaction

(* The reports also of a request whose captures panic. *)
Chronicle == Entries /\ SoFar /\ InOrder /\ PanicListed /\ TransactionLast

(* The request has what the client sent, and nobody has read of it before   *)
(* the middleware.                                                          *)
RequestInv ==
  /\ HandlerReadsTheBody
  /\ request \in Requests
  /\ rest \in Seq(Nat) /\ got \in Seq(Nat)
  /\ stage = "arrives" => got = <<>> /\ rest = Bytes(0, request.arriving)
=============================================================================
