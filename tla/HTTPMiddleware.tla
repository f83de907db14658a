--------------------------- MODULE HTTPMiddleware ---------------------------
(***************************************************************************)
(* One request through integrations/nethttp: a handler that uses its       *)
(* ResponseWriter as it likes and returns or panics, the observer around   *)
(* that writer (response_writer.go), and what the middleware then reports  *)
(* and writes itself (middleware.go).  The response of net/http is         *)
(* external, and so is the body of the request, which the middleware may   *)
(* read before the handler does.  A request that shouldIgnoreRequest lets  *)
(* pass meets none of this.  Bytes are numbered: those of the request in   *)
(* the order of the client, those of the response in the order in which it *)
(* takes them.                                                             *)
(***************************************************************************)
EXTENDS Naturals, Sequences

CONSTANTS Codes,         \* the statuses handlers use
          MaxBody,       \* Handled5xxMaxBodyBytes
          MaxSent,       \* bound of the model: bytes of one response
          MaxBodyBytes,  \* of the request, the option
          MaxRequest,    \* bound of the model: bytes of one request
          HookMayPanic   \* whether a beforeSend or a provider may panic

ASSUME HTTPMiddlewareAssumption ==
  /\ Codes \subseteq 100..999
  /\ MaxBody \in Nat
  /\ MaxSent \in Nat \ {0}
  /\ MaxBodyBytes \in Nat /\ MaxRequest \in Nat
  /\ HookMayPanic \in BOOLEAN

VARIABLES
  config,        \* the options that matter here
  status, sent, taken,   \* the response: status line, body bytes, hijacked
  statusCode, wroteHeader, hijacked, acceptedBytes, body, truncated,
                 \* the fields of responseWriterTracker
  request,       \* the body the client sends
  rest,          \* what r.Body has left for the handler
  got,           \* what the handler has read of it
  params,        \* what the middleware has read of it for the request context
  stage,         \* where the request stands in the closure of Middleware
  panicked,      \* whether the handler did
  hookPanicked,  \* whether a capture did
  reports        \* what reached a provider, in order

response == <<status, sent, taken>>
tracker == <<statusCode, wroteHeader, hijacked, acceptedBytes, body, truncated>>
incoming == <<request, rest, got, params>>
closure == <<config, incoming, stage, panicked, hookPanicked, reports>>
vars == <<config, incoming, response, tracker, stage, panicked, hookPanicked, reports>>

Stages == {"arrives", "handler", "handled5xx", "transaction", "served", "end",
           "recovered", "fallback", "forced", "repanic", "aborted"}

(* tx: CaptureTransactions, for a request that is not a websocket upgrade. *)
Configs == [panics : BOOLEAN, handled5xx : BOOLEAN, repanic : BOOLEAN, tx : BOOLEAN,
            rate : {"none", "some", "all"}, readBody : BOOLEAN]

(* A body, whether its length was declared, and how much of it arrives.     *)
Requests == {r \in [length : 0..MaxRequest, declared : BOOLEAN, arriving : 0..MaxRequest] :
               r.arriving <= r.length}

Bytes(from, n) == [i \in 1..n |-> from + i]

Init ==
  /\ config \in Configs
  /\ status = 0 /\ sent = 0 /\ taken = FALSE
  /\ statusCode = 0 /\ wroteHeader = FALSE /\ hijacked = FALSE
  /\ acceptedBytes = 0 /\ body = <<>> /\ truncated = FALSE
  /\ request \in Requests
  /\ rest = Bytes(0, request.arriving) /\ got = <<>> /\ params = <<>>
  /\ stage = "arrives"
  /\ panicked = FALSE /\ hookPanicked = FALSE
  /\ reports = <<>>

-----------------------------------------------------------------------------
(* The response of net/http: the first final status stands, 101 included;  *)
(* a write or a flush before it is a 200; no body after a 1xx, 204 or 304; *)
(* nothing at all once the connection is hijacked.                         *)
Answered(code) == IF status # 0 \/ taken \/ code \in 100..199 \ {101} THEN status ELSE code
Implied == Answered(200)
BodyAllowed == Implied >= 200 /\ Implied \notin {204, 304} /\ ~taken

-----------------------------------------------------------------------------
(* The hooks of the observer. *)

(* A mutant: every 1xx is informational. *)
InformationalAll(code) == code >= 100 /\ code < 200

Informational(code) == code >= 100 /\ code < 200 /\ code # 101

CommitsTo(code) ==
  IF wroteHeader \/ hijacked
    THEN UNCHANGED <<statusCode, wroteHeader>>
    ELSE statusCode' = code /\ wroteHeader' = TRUE

CountsWrite(n) ==
  acceptedBytes' = IF hijacked THEN acceptedBytes ELSE acceptedBytes + n

Room == MaxBody - Len(body)

(* captureBody, of the n bytes the response takes next. *)
CaptureBody(n) ==
  IF ~config.handled5xx \/ n = 0 \/ truncated
    THEN UNCHANGED <<body, truncated>>
    ELSE /\ body' = body \o Bytes(sent, IF n <= Room THEN n ELSE Room)
         /\ truncated' = (n > Room)

(* A mutant: the hook of WriteString leaves truncation to captureBody. *)
CaptureStringNeverTruncates(n) == CaptureBody(IF n <= Room THEN n ELSE Room)

(* The hook of WriteString, which cuts before it copies. *)
CaptureString(n) ==
  IF ~config.handled5xx \/ n = 0 \/ truncated
    THEN UNCHANGED <<body, truncated>>
    ELSE LET cut == IF n <= Room THEN n ELSE Room
         IN  /\ body' = IF cut = 0 THEN body ELSE body \o Bytes(sent, cut)
             /\ truncated' = (n > Room)

(* A mutant: a request that is over has been answered, hijacked or not. *)
ResponseStatusOfHijacked(finished) ==
  IF ~wroteHeader /\ finished THEN 200 ELSE statusCode

ResponseStatus(finished) ==
  IF ~wroteHeader /\ finished /\ ~hijacked THEN 200 ELSE statusCode
-----------------------------------------------------------------------------
(* The request context: bodyParams, before the handler runs. *)

(* The guards of bodyParams. *)
WantsBody == /\ config.readBody
             /\ request.declared /\ request.length \in 1..MaxBodyBytes
BreaksOff == request.arriving < request.length

(* A mutant: r.Body is read and not put back. *)
ReadsAllOnce == params' = rest /\ rest' = <<>>

(* ReadAll, and a new r.Body of what it has read; one that breaks off is    *)
(* not put back.                                                            *)
ReadsAll ==
  IF BreaksOff THEN rest' = <<>> /\ UNCHANGED params
               ELSE params' = rest /\ UNCHANGED rest

BuildsContext ==
  /\ stage = "arrives"
  /\ IF WantsBody THEN ReadsAll ELSE UNCHANGED <<rest, params>>
  /\ stage' = "handler"
  /\ UNCHANGED <<config, request, got, response, tracker, panicked, hookPanicked, reports>>

-----------------------------------------------------------------------------
(* The handler.  WriteHeader with an invalid code panics before the hook    *)
(* records it, which is HandlerPanics.                                      *)

(* Read of r.Body, which a handler can rely on until it writes.             *)
HandlerReads(n) ==
  /\ stage = "handler" /\ status = 0 /\ ~taken
  /\ n <= Len(rest)
  /\ got' = got \o SubSeq(rest, 1, n)
  /\ rest' = SubSeq(rest, n + 1, Len(rest))
  /\ UNCHANGED <<config, request, params, response, tracker>>
  /\ UNCHANGED <<stage, panicked, hookPanicked, reports>>

HandlerWritesHeader(code) ==
  /\ stage = "handler"
  /\ status' = IF wroteHeader \/ hijacked THEN status ELSE Answered(code)
  /\ IF Informational(code) THEN UNCHANGED <<statusCode, wroteHeader>> ELSE CommitsTo(code)
  /\ UNCHANGED <<sent, taken, hijacked, acceptedBytes, body, truncated, closure>>

(* Write, WriteString or a chunk of ReadFrom, of which n bytes are taken.   *)
HandlerWrites(n) ==
  /\ stage = "handler"
  /\ n > 0 => BodyAllowed /\ sent + n <= MaxSent
  /\ status' = Implied
  /\ sent' = sent + n
  /\ CommitsTo(200) /\ CountsWrite(n)
  /\ CaptureBody(n) \/ CaptureString(n)
  /\ UNCHANGED <<taken, hijacked, closure>>

(* Flush and FlushError, where the response supports them. *)
HandlerFlushes ==
  /\ stage = "handler"
  /\ status' = Implied
  /\ CommitsTo(200)
  /\ UNCHANGED <<sent, taken, hijacked, acceptedBytes, body, truncated, closure>>

HandlerHijacks ==
  /\ stage = "handler" /\ ~taken
  /\ taken' = TRUE
  /\ hijacked' = TRUE
  /\ UNCHANGED <<status, sent, statusCode, wroteHeader, acceptedBytes, body, truncated, closure>>

HandlerReturns ==
  /\ stage = "handler"
  /\ stage' = "handled5xx"
  /\ UNCHANGED <<config, incoming, response, tracker, panicked, hookPanicked, reports>>

HandlerPanics ==
  /\ stage = "handler"
  /\ stage' = "recovered" /\ panicked' = TRUE
  /\ UNCHANGED <<config, incoming, response, tracker, hookPanicked, reports>>

-----------------------------------------------------------------------------
(* What the middleware reports.  A beforeSend hook or a provider that      *)
(* panics unwinds the capture, and other providers may have the event.     *)

Report(kind, code, result) == [kind |-> kind, status |-> code, result |-> result]

Reports(event, next, unwound) ==
  \/ /\ reports' = Append(reports, event)
     /\ stage' = next
     /\ UNCHANGED hookPanicked
  \/ /\ HookMayPanic
     /\ reports' \in {reports, Append(reports, event)}
     /\ stage' = unwound
     /\ hookPanicked' = TRUE

ReportsNothing(next) == stage' = next /\ UNCHANGED <<reports, hookPanicked>>

CapturesHandled5xx ==
  /\ stage = "handled5xx"
  /\ IF config.handled5xx /\ statusCode >= 500
       THEN Reports(Report("5xx", statusCode, "handled"), "transaction", "recovered")
       ELSE ReportsNothing("transaction")
  /\ UNCHANGED <<config, incoming, response, tracker, panicked>>

(* What rand.Float64() may say at each TransactionSampleRate. *)
Sampled == CASE config.rate = "none" -> {FALSE}
             [] config.rate = "some" -> {FALSE, TRUE}
             [] OTHER -> {TRUE}

(* A mutant: the sample rate decides alone. *)
ShouldCaptureSampled(code) == Sampled

(* The possible verdicts of shouldCaptureTransaction. *)
ShouldCapture(code) == IF code >= 500 THEN {TRUE} ELSE Sampled

StatusName(code) == IF code = 0 THEN "unknown_error"
                    ELSE IF code >= 500 THEN "internal_error"
                    ELSE IF code >= 400 THEN "invalid_argument"
                    ELSE "ok"

(* The measurement, which a status of 0 does not set: it leaves the 200 of  *)
(* an earlier capture of this transaction, one that panicked.               *)
Measured(code) == IF code = 0 /\ hookPanicked /\ ~hijacked THEN 200 ELSE code

CaptureTransaction(code, verdicts, next, unwound) ==
  \E capture \in verdicts :
    IF config.tx /\ capture
      THEN Reports(Report("transaction", Measured(code), StatusName(code)), next, unwound)
      ELSE ReportsNothing(next)

CapturesTransaction ==
  /\ stage = "transaction"
  /\ CaptureTransaction(ResponseStatus(TRUE), ShouldCapture(ResponseStatus(TRUE)),
                        "served", "recovered")
  /\ UNCHANGED <<config, incoming, response, tracker, panicked>>
-----------------------------------------------------------------------------
(* The deferred function, after a panic of the handler or of a capture. *)

Recovers ==
  /\ stage = "recovered"
  /\ LET next == IF config.repanic THEN "repanic" ELSE "fallback"
     IN  IF config.panics
           THEN Reports(Report("panic", 0, "unhandled"), next, "aborted")
           ELSE ReportsNothing(next)
  /\ UNCHANGED <<config, incoming, response, tracker, panicked>>

Repanics ==
  /\ stage = "repanic"
  /\ CaptureTransaction(ResponseStatus(FALSE), {TRUE}, "aborted", "aborted")
  /\ UNCHANGED <<config, incoming, response, tracker, panicked>>

(* http.Error, through the observer: a header, and a body of n bytes. *)
WritesError(n) ==
  /\ status' = Answered(500)
  /\ sent' = sent + n
  /\ CommitsTo(500) /\ CountsWrite(n) /\ CaptureBody(n)
  /\ UNCHANGED hijacked

(* A mutant: the 500 is written whatever the handler has written. *)
FallsBackAlways ==
  /\ stage = "fallback"
  /\ \E n \in {0, 1} : WritesError(n)
  /\ stage' = "forced"
  /\ UNCHANGED <<config, incoming, taken, panicked, hookPanicked, reports>>

(* A mutant: after the fallback the request goes on as a handled one. *)
FallsBackAsHandled ==
  /\ stage = "fallback"
  /\ IF wroteHeader \/ hijacked
       THEN UNCHANGED <<response, tracker>>
       ELSE \E n \in {0, 1} : WritesError(n)
  /\ stage' = "handled5xx"
  /\ UNCHANGED <<config, incoming, taken, panicked, hookPanicked, reports>>

FallsBack ==
  /\ stage = "fallback"
  /\ IF wroteHeader \/ hijacked
       THEN UNCHANGED <<response, tracker>>
       ELSE \E n \in {0, 1} : WritesError(n)
  /\ stage' = "forced"
  /\ UNCHANGED <<config, incoming, taken, panicked, hookPanicked, reports>>

CapturesForced ==
  /\ stage = "forced"
  /\ CaptureTransaction(ResponseStatus(FALSE), {TRUE}, "served", "aborted")
  /\ UNCHANGED <<config, incoming, response, tracker, panicked>>

(* net/http, once the closure has returned: an answer nobody wrote is 200. *)
ServerFinishes ==
  /\ stage = "served"
  /\ status' = Implied
  /\ stage' = "end"
  /\ UNCHANGED <<config, incoming, sent, taken, tracker, panicked, hookPanicked, reports>>

-----------------------------------------------------------------------------
HandlerStep ==
  \/ \E n \in 1..MaxRequest : HandlerReads(n)
  \/ \E code \in Codes : HandlerWritesHeader(code)
  \/ \E n \in 0..MaxSent : HandlerWrites(n)
  \/ HandlerFlushes \/ HandlerHijacks \/ HandlerReturns \/ HandlerPanics

MiddlewareStep ==
  \/ BuildsContext
  \/ CapturesHandled5xx \/ CapturesTransaction
  \/ Recovers \/ Repanics \/ FallsBack \/ CapturesForced

Next == HandlerStep \/ MiddlewareStep \/ ServerFinishes

Spec == Init /\ [][Next]_vars
-----------------------------------------------------------------------------
(* Properties. *)

(* The observer and the middleware keep the types of their fields, and the  *)
(* count of accepted bytes is one the response can have taken.              *)
Statuses == {0, 200, 500} \union Codes

TypeOK ==
  /\ config \in Configs
  /\ status \in Statuses
  /\ sent \in 0..MaxSent
  /\ taken \in BOOLEAN
  /\ statusCode \in Statuses
  /\ wroteHeader \in BOOLEAN
  /\ hijacked \in BOOLEAN
  /\ acceptedBytes \in 0..MaxSent
  /\ body \in Seq(1..MaxSent)
  /\ truncated \in BOOLEAN
  /\ stage \in Stages
  /\ panicked \in BOOLEAN
  /\ hookPanicked \in BOOLEAN

(* What the handler has read and what is left for it are together the body  *)
(* of the request, as far as it arrives, although the middleware may have   *)
(* read it first.  Only a body that breaks off under the middleware is gone *)
(* as a whole; the handler never finds the middle of one.  And the request  *)
(* context has all of a body or nothing.                                    *)
HandlerReadsTheBody ==
  /\ \/ got \o rest = Bytes(0, request.arriving)
     \/ WantsBody /\ BreaksOff /\ got = <<>> /\ rest = <<>>
  /\ params = <<>> \/ params = Bytes(0, request.length)

(* What the observer believes of the response is what the response is, up   *)
(* to the moment when the server writes what the handler left out.          *)
ObservedIsSent ==
  stage # "end" =>
    /\ statusCode = status
    /\ wroteHeader <=> status # 0
    /\ hijacked <=> taken
    /\ acceptedBytes = sent

(* The body kept for a 5xx report is the beginning of what the response     *)
(* took, as much of it as the limit allows, and it is marked as truncated   *)
(* exactly when there was more.                                             *)
SnippetIsPrefix ==
  config.handled5xx =>
    /\ body = Bytes(0, IF sent <= MaxBody THEN sent ELSE MaxBody)
    /\ truncated <=> sent > MaxBody

(* The middleware adds nothing to a response the handler has begun or       *)
(* taken over: its own 500 is for a response nobody has written.            *)
LeavesResponseAlone ==
  [][stage # "handler" /\ (status # 0 \/ taken) => UNCHANGED response]_vars

Over == stage \in {"end", "aborted"}
Kinds == {reports[i].kind : i \in DOMAIN reports}

(* A panic is reported, of the handler or of a capture, and so is a 5xx of  *)
(* a handler that returned; and each has its transaction, whatever the      *)
(* sample rate.  Only a second panic, out of the deferred function, ends    *)
(* the request before that.                                                 *)
FailuresReported ==
  stage = "end" \/ (Over /\ ~hookPanicked) =>
    /\ (panicked \/ hookPanicked) /\ config.panics => "panic" \in Kinds
    /\ ~(panicked \/ hookPanicked) /\ status >= 500 /\ config.handled5xx => "5xx" \in Kinds
    /\ (panicked \/ hookPanicked \/ status >= 500) /\ config.tx => "transaction" \in Kinds

(* A request is one incident at most and one transaction at most: the       *)
(* fallback of a panic is not a handled 5xx on top of it.  A capture that   *)
(* panics adds a panic to the incident, never a second one of a kind, and   *)
(* if it was that of the transaction, one more transaction that comes last. *)
ReportedOnce ==
  \A i, j \in DOMAIN reports :
    i < j =>
      /\ ~hookPanicked => (reports[i].kind = "transaction") # (reports[j].kind = "transaction")
      /\ reports[i].kind = reports[j].kind =>
           hookPanicked /\ reports[j].kind = "transaction" /\ j = Len(reports)

(* The status that goes into a transaction or a 5xx report is the one the   *)
(* client was sent, and 0 only if it was sent none.  After a capture that   *)
(* panicked the last transaction has it.                                    *)
CarriesStatus(i) ==
  \/ reports[i].kind = "5xx"
  \/ reports[i].kind = "transaction" /\ (hookPanicked => stage = "end" /\ i = Len(reports))

ReportedStatusIsSent ==
  Over =>
    \A i \in DOMAIN reports : CarriesStatus(i) =>
      /\ reports[i].status = status
      /\ reports[i].result = "ok" => status \in 100..399
=============================================================================
