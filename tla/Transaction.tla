----------------------------- MODULE Transaction -----------------------------
(***************************************************************************)
(* core/transaction.go: a transaction and its spans, and the payload that  *)
(* buildTransactionPayload (core/duck.go) makes of them.                   *)
(*                                                                         *)
(* Nothing here has a lock.  The transaction belongs to one goroutine, its *)
(* owner, which starts the spans and captures; each span belongs to a      *)
(* goroutine that need not have come to its end when the owner captures.   *)
(* A read that races with a write of one word, a pointer, gets the old or  *)
(* the new one; the two words of a string may get mixed (Torn).  That is   *)
(* for a machine which keeps stores in order, as amd64 does.               *)
(***************************************************************************)
EXTENDS Integers, Sequences

CONSTANTS Spans,      \* the spans there can be
          Started,    \* when the transaction was started
          Root,       \* the transaction itself
          None,       \* no value: a nil pointer or map, an empty string
          Torn,       \* a string of which only a part is written
          Statuses,   \* what Finish may be told
          Contents,   \* of the maps of the application
          MaxTime     \* bound: the last millisecond of the clock

Objects == Spans \union {Root}
Times == 0..MaxTime

ASSUME TransactionAssumption ==
  /\ Root \notin Spans
  /\ None \notin Spans \union Statuses \union Contents \union {Root, Torn}
  /\ Torn \notin Statuses
  /\ MaxTime \in Nat /\ Started \in Times
  /\ None \notin Times

VARIABLES
  start, end, status,   \* the fields of a transaction or span
  data,     \* context or data: whose map the field refers to
  own,      \* the content, when it was given, of what SetData was given
  app,      \* the content now of the map the application gives
  call,     \* how far the goroutine of each span is in its Finish
  spans,    \* Transaction.spans
  stage,    \* how far the owner is in buildTransactionPayload
  todo,     \* the spans it has still to read
  report,   \* the payloads of those it has read, the transaction's first
  raced     \* history: the spans used since the capture began

fields == <<start, end, status, data, own>>
vars == <<fields, app, call, spans, stage, todo, report, raced>>

Stages == {"idle", "end", "status", "built"}

Init ==
  /\ start = [o \in Objects |-> IF o = Root THEN Started ELSE None]
  /\ end = [o \in Objects |-> None]
  /\ status = [o \in Objects |-> None]
  /\ data = [o \in Objects |-> "nil"]
  /\ own = [o \in Objects |-> None]
  /\ app \in Contents
  /\ call = [s \in Spans |-> "idle"]
  /\ spans = << >>
  /\ stage = "idle" /\ todo = << >> /\ report = << >>
  /\ raced = {}

-----------------------------------------------------------------------------
(* What the application does. *)

(* It goes on to use the map that it passed to SetData or SetContext. *)
AppWrites(c) ==
  /\ app' = c
  /\ UNCHANGED <<fields, call, spans, stage, todo, report, raced>>

(* The owner, between captures. *)
StartChild(s) ==
  /\ stage = "idle" /\ start[s] = None
  /\ \E t \in Times : start' = [start EXCEPT ![s] = t]
  /\ spans' = Append(spans, s)
  /\ UNCHANGED <<end, status, data, own, app, call, stage, todo, report, raced>>

(* Transaction.Finish: a blank status leaves what is there; the end is the  *)
(* time now, or one that is passed, which may be any.                       *)
Finish ==
  /\ stage = "idle"
  /\ \E st \in Statuses \union {status[Root]} : status' = [status EXCEPT ![Root] = st]
  /\ \E t \in Times : end' = [end EXCEPT ![Root] = t]
  /\ UNCHANGED <<start, data, own, app, call, spans, stage, todo, report, raced>>

(* A mutant: the map is kept as it was given. *)
KeepsMap(o) ==
  /\ data' = [data EXCEPT ![o] = "app"]
  /\ own' = [own EXCEPT ![o] = app]

(* normalizeValue and normalizeStringMap build every container anew,        *)
(* whatever its type.                                                       *)
Normalizes(o) ==
  /\ data' = [data EXCEPT ![o] = "own"]
  /\ own' = [own EXCEPT ![o] = app]

(* SetContext and AddMeasurement, whose field stands for both. *)
SetContext ==
  /\ stage = "idle"
  /\ Normalizes(Root)
  /\ UNCHANGED <<start, end, status, app, call, spans, stage, todo, report, raced>>

(* The goroutine of a span, at any time.  A bound: it begins at most one    *)
(* call during a capture.                                                   *)
Free(s) == start[s] # None /\ call[s] = "idle" /\ s \notin raced

SpanCall(s) ==
  /\ raced' = IF stage = "idle" THEN raced ELSE raced \union {s}
  /\ UNCHANGED <<start, app, spans, stage, todo, report>>

SetData(s) ==
  /\ Free(s)
  /\ Normalizes(s)
  /\ SpanCall(s)
  /\ UNCHANGED <<end, status, call>>

(* Span.Finish, in three steps. *)
FinishBegins(s) ==
  /\ Free(s)
  /\ \/ call' = [call EXCEPT ![s] = "end"] /\ UNCHANGED status
     \/ /\ call' = [call EXCEPT ![s] = "status"]
        /\ status' = [status EXCEPT ![s] = Torn]
  /\ SpanCall(s)
  /\ UNCHANGED <<end, data, own>>

FinishSetsStatus(s) ==
  /\ call[s] = "status"
  /\ \E st \in Statuses : status' = [status EXCEPT ![s] = st]
  /\ call' = [call EXCEPT ![s] = "end"]
  /\ SpanCall(s)
  /\ UNCHANGED <<end, data, own>>

FinishSetsEnd(s) ==
  /\ call[s] = "end"
  /\ \E t \in Times : end' = [end EXCEPT ![s] = t]
  /\ call' = [call EXCEPT ![s] = "idle"]
  /\ SpanCall(s)
  /\ UNCHANGED <<status, data, own>>

-----------------------------------------------------------------------------
(* The capture. *)

(* DurationMs, maxInt64. *)
Duration(from, to) == IF to < from THEN 0 ELSE to - from

EndOrStart(o) == IF end[o] = None THEN start[o] ELSE end[o]

(* The content of a map, when it is copied. *)
Copied(o) == CASE data[o] = "own" -> own[o]
               [] data[o] = "app" -> app
               [] OTHER -> None

(* What is known of an object before its status and data are read. *)
Timed(o) ==
  [of |-> o, start |-> start[o], end |-> EndOrStart(o),
   duration |-> Duration(start[o], EndOrStart(o)), status |-> None, data |-> None]

(* The transaction's own part, which only its owner can change.             *)
Begins ==
  /\ stage = "idle"
  /\ report' = << [Timed(Root) EXCEPT !.status = status[Root], !.data = Copied(Root)] >>
  /\ todo' = spans
  /\ stage' = IF spans = << >> THEN "built" ELSE "end"
  /\ raced' = {s \in Spans : call[s] # "idle"}
  /\ UNCHANGED <<fields, app, call, spans>>

(* A mutant: a span that has not been finished is left out. *)
ReadsEndIfFinished ==
  /\ stage = "end"
  /\ IF end[Head(todo)] = None
       THEN /\ todo' = Tail(todo)
            /\ stage' = IF Tail(todo) = << >> THEN "built" ELSE "end"
            /\ UNCHANGED report
       ELSE /\ report' = Append(report, Timed(Head(todo)))
            /\ stage' = "status"
            /\ UNCHANGED todo
  /\ UNCHANGED <<fields, app, call, spans, raced>>

(* Span.payload, from its first line on. *)
ReadsEnd ==
  /\ stage = "end"
  /\ report' = Append(report, Timed(Head(todo)))
  /\ stage' = "status"
  /\ UNCHANGED <<fields, app, call, spans, todo, raced>>

ReadsOn(duration) ==
  /\ stage = "status"
  /\ LET s == Head(todo)
     IN  report' = [report EXCEPT ![Len(report)].duration = duration,
                                  ![Len(report)].status = status[s],
                                  ![Len(report)].data = Copied(s)]
  /\ todo' = Tail(todo)
  /\ stage' = IF Tail(todo) = << >> THEN "built" ELSE "end"
  /\ UNCHANGED <<fields, app, call, spans, raced>>

(* A mutant: the end is read once for itself and once for the duration.     *)
ReadsDurationAgain == ReadsOn(Duration(start[Head(todo)], EndOrStart(Head(todo))))

(* Status and data, between which no property tells a step.                 *)
ReadsRest == ReadsOn(report[Len(report)].duration)

(* CaptureTransactionContext hands the payload on, and returns. *)
Dispatches ==
  /\ stage = "built"
  /\ stage' = "idle" /\ report' = << >> /\ raced' = {}
  /\ UNCHANGED <<fields, app, call, spans, todo>>

-----------------------------------------------------------------------------
Next ==
  \/ \E c \in Contents : AppWrites(c)
  \/ Finish \/ SetContext
  \/ \E s \in Spans :
       \/ StartChild(s) \/ SetData(s)
       \/ FinishBegins(s) \/ FinishSetsStatus(s) \/ FinishSetsEnd(s)
  \/ Begins \/ ReadsEnd \/ ReadsRest \/ Dispatches

Spec == Init /\ [][Next]_vars

-----------------------------------------------------------------------------
(* Properties. *)

Entry == [of : Objects, start : Times, end : Times, duration : Times,
          status : Statuses \union {None, Torn}, data : Contents \union {None}]

(* The shape of the state. *)
TypeOK ==
  /\ start \in [Objects -> Times \union {None}]
  /\ end \in [Objects -> Times \union {None}]
  /\ status \in [Objects -> Statuses \union {None, Torn}]
  /\ data \in [Objects -> {"nil", "own", "app"}]
  /\ own \in [Objects -> Contents \union {None}]
  /\ app \in Contents
  /\ call \in [Spans -> {"idle", "status", "end"}]
  /\ spans \in Seq(Spans) /\ todo \in Seq(Spans)
  /\ stage \in Stages
  /\ report \in Seq(Entry)
  /\ raced \subseteq Spans

(* The end and the duration that are reported belong together, also for a   *)
(* span that is finished, or finished again, while it is being read; and    *)
(* none is negative, whatever the clock and the callers of Finish say.      *)
TimesAgree ==
  \A i \in DOMAIN report :
    \/ /\ report[i].start <= report[i].end
       /\ report[i].start + report[i].duration = report[i].end
    \/ report[i].end < report[i].start /\ report[i].duration = 0

(* The spans reported are those that were started before the capture, in    *)
(* their order, the unfinished ones too.                                    *)
SpansReported ==
  stage = "built" =>
    /\ Len(report) = Len(spans) + 1
    /\ report[1].of = Root
    /\ \A i \in DOMAIN spans : report[i + 1].of = spans[i]

(* A span whose calls had all returned when the capture began is reported   *)
(* with the status and the end of its Finish, and with its data as it was   *)
(* when SetData got it, whatever the application did with its map since.    *)
AsLeft(entry) ==
  /\ entry.end = EndOrStart(entry.of)
  /\ entry.status = status[entry.of]
  /\ entry.data = own[entry.of]

ReportedAsLeft ==
  stage = "built" => \A i \in DOMAIN report : report[i].of \notin raced => AsLeft(report[i])
=============================================================================
