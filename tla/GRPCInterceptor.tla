--------------------------- MODULE GRPCInterceptor ---------------------------
(***************************************************************************)
(* One call through integrations/grpc/interceptor.go: a handler that       *)
(* returns an error of some code or panics, what the interceptor reports,  *)
(* and what it hands on to the server.  The unary and the stream           *)
(* interceptor have the same deferred function and the same captures, and  *)
(* are one specification.  A method that shouldIgnoreMethod lets pass      *)
(* meets none of this.                                                     *)
(*                                                                         *)
(* An error is read twice: by the interceptor, with status.Code, and by    *)
(* the gRPC server, which turns it into the code that goes to the caller.  *)
(* For the error of a context, returned as it is, they do not agree.       *)
(***************************************************************************)
EXTENDS Naturals, Sequences

CONSTANTS Codes,         \* the codes of the status errors handlers return
          HookMayPanic   \* whether ShouldCapture, a beforeSend or a provider may

(* What ctx.Err() says when the call is cancelled or out of time, and a     *)
(* handler may return without wrapping it into a status.                    *)
ContextErrors == {"context canceled", "context deadline exceeded"}

(* An error with a status is its code here, and no error is OK.             *)
Errors == Codes \union ContextErrors

ASSUME GRPCInterceptorAssumption ==
  /\ {"OK", "Unknown", "Internal"} \subseteq Codes
  /\ ContextErrors \intersect Codes = {}
  /\ "panic" \notin Codes /\ "none" \notin Codes
  /\ HookMayPanic \in BOOLEAN

VARIABLES
  config,      \* the options that matter here
  stage,       \* where the call stands in the interceptor
  err,         \* what the handler returned
  code,        \* what status.Code reads in it
  hookPanics,  \* how many captures have panicked
  reports,     \* what reached a provider, in order
  outcome      \* what the server gets: an error, or a panic

vars == <<config, stage, err, code, hookPanics, reports, outcome>>

(* status.Code: an error without a status is Unknown.                       *)
StatusCode(e) == IF e \in ContextErrors THEN "Unknown" ELSE e

(* The code that the server sends to the caller for an error: it looks for  *)
(* a status first, and for the error of a context next.                     *)
ServedCode(e) ==
  IF e = "context canceled" THEN "Canceled"
  ELSE IF e = "context deadline exceeded" THEN "DeadlineExceeded"
  ELSE e

Stages == {"handler", "error", "transaction", "recovered", "internal", "end"}

(* codes that ShouldCapture says are worth a report. *)
Configs == [panics : BOOLEAN, repanic : BOOLEAN, tx : BOOLEAN,
            capture : SUBSET Codes, rate : {"none", "some", "all"}]

Init ==
  /\ config \in Configs
  /\ stage = "handler"
  /\ err = "none" /\ code = "none" /\ outcome = "none"
  /\ hookPanics = 0
  /\ reports = <<>>

-----------------------------------------------------------------------------
(* The captures. *)

Report(kind, c, result) == [kind |-> kind, code |-> c, result |-> result]

(* A panic of user code inside a capture unwinds it, and another provider   *)
(* may already have the event.                                              *)
Unwinds(events, next) ==
  /\ HookMayPanic
  /\ reports' \in {reports} \union {Append(reports, event) : event \in events}
  /\ hookPanics' = hookPanics + 1
  /\ stage' = next

Reports(event, next) ==
  /\ reports' = Append(reports, event)
  /\ stage' = next
  /\ UNCHANGED hookPanics

ReportsNothing(next) == stage' = next /\ UNCHANGED <<reports, hookPanics>>

StatusFromCode(c) ==
  IF c = "OK" THEN "ok"
  ELSE IF c \in {"Unknown", "Internal", "DataLoss", "Unavailable",
                 "DeadlineExceeded", "Unimplemented"} THEN "internal_error"
  ELSE "invalid_argument"

(* What rand.Float64() may say at each TransactionSampleRate. *)
Sampled == CASE config.rate = "none" -> {FALSE}
             [] config.rate = "some" -> {FALSE, TRUE}
             [] OTHER -> {TRUE}

(* The possible verdicts of shouldCaptureTransaction. *)
ShouldCapture(c) == IF c \in config.capture THEN {TRUE} ELSE Sampled

Transaction(c) == Report("transaction", c, StatusFromCode(c))
-----------------------------------------------------------------------------
(* The handler and the way out of a call it has answered. *)

HandlerReturns(e) ==
  /\ stage = "handler"
  /\ err' = e
  /\ code' = StatusCode(e)
  /\ stage' = "error"
  /\ UNCHANGED <<config, hookPanics, reports, outcome>>

HandlerPanics ==
  /\ stage = "handler"
  /\ stage' = "recovered"
  /\ UNCHANGED <<config, err, code, hookPanics, reports, outcome>>

(* captureError, in which ShouldCapture is user code too. *)
CapturesError ==
  /\ stage = "error"
  /\ LET event == Report("error", code, "handled")
     IN  \/ /\ code \in config.capture
            /\ Reports(event, "transaction")
         \/ /\ code \notin config.capture
            /\ ReportsNothing("transaction")
         \/ Unwinds(IF code \in config.capture THEN {event} ELSE {}, "recovered")
  /\ UNCHANGED <<config, err, code, outcome>>

(* captureTransaction with force = false, and the return of the handler's   *)
(* own answer.                                                              *)
CapturesTransaction ==
  /\ stage = "transaction"
  /\ \/ /\ \E capture \in ShouldCapture(code) :
             IF config.tx /\ capture THEN Reports(Transaction(code), "end")
                                     ELSE ReportsNothing("end")
        /\ outcome' = err
     \/ /\ config.tx
        /\ Unwinds(IF TRUE \in ShouldCapture(code) THEN {Transaction(code)} ELSE {},
                   "recovered")
        /\ UNCHANGED outcome
  /\ UNCHANGED <<config, err, code>>

-----------------------------------------------------------------------------
(* The deferred function, after a panic of the handler or of a capture. *)

(* A mutant: the error of a recovered panic is reported besides the panic.  *)
RecoversTwice ==
  /\ stage = "recovered"
  /\ reports' = reports \o <<Report("panic", "none", "unhandled"),
                             Report("error", "Internal", "handled")>>
  /\ stage' = "internal"
  /\ UNCHANGED <<config, err, code, hookPanics, outcome>>

Recovers ==
  /\ stage = "recovered"
  /\ LET event == Report("panic", "none", "unhandled")
     IN  \/ /\ IF config.panics THEN Reports(event, "internal")
                                ELSE ReportsNothing("internal")
            /\ UNCHANGED outcome
         \/ /\ config.panics
            /\ Unwinds({event}, "end")
            /\ outcome' = "panic"
  /\ UNCHANGED <<config, err, code>>

(* A mutant: the panic is raised again before the transaction is captured.  *)
RepanicsFirst ==
  /\ stage = "internal"
  /\ IF config.repanic
       THEN ReportsNothing("end") /\ outcome' = "panic"
       ELSE /\ IF config.tx THEN Reports(Transaction("Internal"), "end")
                            ELSE ReportsNothing("end")
            /\ outcome' = "Internal"
  /\ UNCHANGED <<config, err, code>>

(* A mutant: a recovered panic leaves the error of the handler in place.    *)
AnswersAsHandler ==
  /\ stage = "internal"
  /\ IF config.tx THEN Reports(Transaction("Internal"), "end")
                  ELSE ReportsNothing("end")
  /\ outcome' = IF config.repanic THEN "panic"
                ELSE IF err = "none" THEN "OK" ELSE err
  /\ UNCHANGED <<config, err, code>>

(* captureTransaction with force = true; then the panic again, or an error  *)
(* of code Internal.                                                        *)
Answers ==
  /\ stage = "internal"
  /\ \/ /\ IF config.tx THEN Reports(Transaction("Internal"), "end")
                        ELSE ReportsNothing("end")
        /\ outcome' = IF config.repanic THEN "panic" ELSE "Internal"
     \/ /\ config.tx
        /\ Unwinds({Transaction("Internal")}, "end")
        /\ outcome' = "panic"
  /\ UNCHANGED <<config, err, code>>

-----------------------------------------------------------------------------
Next ==
  \/ \E e \in Errors : HandlerReturns(e)
  \/ HandlerPanics
  \/ CapturesError \/ CapturesTransaction
  \/ Recovers \/ Answers

Spec == Init /\ [][Next]_vars
-----------------------------------------------------------------------------
(* Properties. *)

(* The variables keep their types, and at most two captures panic: the one  *)
(* that unwinds into the deferred function, and one inside it.              *)
TypeOK ==
  /\ config \in Configs
  /\ stage \in Stages
  /\ err \in Errors \union {"none"}
  /\ code \in Codes \union {"none"}
  /\ hookPanics \in 0..2
  /\ outcome \in Errors \union {"none", "panic"}

Kinds == {reports[i].kind : i \in DOMAIN reports}

(* A call whose one panic, of the handler or of a capture, the deferred     *)
(* function has dealt with.                                                 *)
Recovered == hookPanics = IF code = "none" THEN 0 ELSE 1

(* A panic is reported, of the handler or of a capture, and so is an error  *)
(* of a code that ShouldCapture names; either has its transaction, whatever *)
(* the sample rate, and a panic has it also when it is raised again.        *)
FailuresReported ==
  stage = "end" =>
    /\ Recovered /\ config.panics => "panic" \in Kinds
    /\ hookPanics = 0 /\ code \in config.capture => "error" \in Kinds
    /\ Recovered \/ (hookPanics = 0 /\ code \in config.capture) =>
         (config.tx => "transaction" \in Kinds)

(* A call is one incident at most and one transaction at most.  A capture   *)
(* that panics adds a panic to the incident, never a second one of a kind,  *)
(* and if it was that of the transaction, one more that comes last.         *)
ReportedOnce ==
  \A i, j \in DOMAIN reports :
    i < j =>
      /\ hookPanics = 0 => (reports[i].kind = "transaction") # (reports[j].kind = "transaction")
      /\ reports[i].kind = reports[j].kind =>
           hookPanics > 0 /\ reports[j].kind = "transaction" /\ j = Len(reports)

(* A report has the code that status.Code reads in the error handed on, and *)
(* that is the code the server sends to the caller but for one case: the    *)
(* bare error of a context is reported as Unknown, a fault of the server,   *)
(* where the caller gets Canceled or DeadlineExceeded.  A transaction that  *)
(* ended well is one of a call that did.  After a capture that panicked the *)
(* last transaction has the code.                                           *)
CarriesCode(i) ==
  \/ hookPanics = 0 /\ reports[i].kind # "panic"
  \/ Recovered /\ reports[i].kind = "transaction" /\ i = Len(reports)

ReportedCodeIsAnswered ==
  stage = "end" =>
    \A i \in DOMAIN reports : CarriesCode(i) =>
      /\ outcome # "panic" =>
           /\ reports[i].code = StatusCode(outcome)
           /\ reports[i].code = ServedCode(outcome) <=> outcome \notin ContextErrors
      /\ reports[i].result = "ok" <=>
           ServedCode(outcome) = "OK" /\ reports[i].kind = "transaction"

(* The answer of a handler stands, unless a capture panics: then the call   *)
(* fails as Internal.  The process is at risk only if the application asked *)
(* for the panic back, or if a capture panics on the way out of a panic.    *)
AnswerStands ==
  stage = "end" =>
    /\ hookPanics = 0 /\ code # "none" => outcome = err
    /\ code = "none" \/ hookPanics > 0 => outcome \in {"Internal", "panic"}
    /\ outcome = "panic" =>
         \/ config.repanic /\ (code = "none" \/ hookPanics > 0)
         \/ hookPanics = IF code = "none" THEN 1 ELSE 2
=============================================================================
