------------------------- MODULE HTTPMiddlewareProofs -------------------------
(***************************************************************************)
(* Theorems of HTTPMiddleware, for any set of statuses, any body limit and *)
(* any length of a response.                                               *)
(***************************************************************************)
EXTENDS HTTPMiddlewareInv, SequenceTheorems, TLAPS

USE HTTPMiddlewareAssumption

-----------------------------------------------------------------------------
(* The bytes a response takes, and what the observer keeps of them. *)

(* Consecutive bytes join. *)
LEMMA BytesJoin ==
  ASSUME NEW a \in Nat, NEW b \in Nat
  PROVE  Bytes(0, a) \o Bytes(a, b) = Bytes(0, a + b)
<1>1. Bytes(0, a) \in Seq(Nat) /\ Len(Bytes(0, a)) = a
  BY DEF Bytes
<1>2. Bytes(a, b) \in Seq(Nat) /\ Len(Bytes(a, b)) = b
  BY DEF Bytes
<1> QED
  BY <1>1, <1>2 DEF Bytes

LEMMA BytesType ==
  ASSUME NEW a \in Nat, a <= MaxSent
  PROVE  Bytes(0, a) \in Seq(1..MaxSent) /\ Len(Bytes(0, a)) = a
BY DEF Bytes

(* The hook of WriteString keeps of a string what the hook of Write keeps   *)
(* of the same bytes: the two places that cut the body agree.               *)
THEOREM WriteStringCapturesAlike ==
  ASSUME TypeOK, NEW n \in Nat, Len(body) <= MaxBody
  PROVE  CaptureString(n) <=> CaptureBody(n)
<1>1. Room \in Nat /\ sent \in Nat
  BY DEF TypeOK, Room
<1>2. CASE Room = 0
  <2>1. Bytes(sent, Room) = << >> /\ (n <= Room => n = 0)
    BY <1>1, <1>2 DEF Bytes
  <2>2. body \o Bytes(sent, Room) = body
    BY <2>1 DEF TypeOK
  <2> QED
    BY <1>2, <2>1, <2>2 DEF CaptureString, CaptureBody
<1>3. CASE Room # 0
  BY <1>1, <1>3 DEF CaptureString, CaptureBody
<1> QED
  BY <1>2, <1>3

(* A capture of the next n bytes keeps the snippet a prefix. *)
LEMMA CaptureKeepsPrefix ==
  ASSUME TypeOK, SnippetIsPrefix, config' = config,
         NEW n \in Nat, sent + n <= MaxSent, sent' = sent + n, CaptureBody(n)
  PROVE  SnippetIsPrefix' /\ body' \in Seq(1..MaxSent) /\ truncated' \in BOOLEAN
<1>0. sent \in Nat /\ sent <= MaxSent
  BY DEF TypeOK
<1>1. CASE ~config.handled5xx
  BY <1>1 DEF TypeOK, SnippetIsPrefix, CaptureBody
<1>2. CASE config.handled5xx /\ truncated
  <2>1. body' = body /\ truncated' = truncated /\ sent > MaxBody
    BY <1>2 DEF CaptureBody, SnippetIsPrefix
  <2>2. sent' > MaxBody /\ ~(sent <= MaxBody) /\ ~(sent' <= MaxBody)
    BY <1>0, <2>1
  <2> QED
    BY <1>2, <2>1, <2>2 DEF TypeOK, SnippetIsPrefix
<1>3. CASE config.handled5xx /\ ~truncated /\ n = 0
  <2>1. body' = body /\ truncated' = truncated /\ sent' = sent
    BY <1>0, <1>3 DEF CaptureBody
  <2> QED
    BY <2>1 DEF TypeOK, SnippetIsPrefix
<1>4. CASE config.handled5xx /\ ~truncated /\ n # 0
  <2>1. sent <= MaxBody
    BY <1>0, <1>4 DEF SnippetIsPrefix
  <2>2. body = Bytes(0, sent)
    BY <1>4, <2>1 DEF SnippetIsPrefix
  <2>3. Room = MaxBody - sent
    <3>1. Len(Bytes(0, sent)) = sent
      BY <1>0, BytesType
    <3> QED
      BY <2>2, <3>1 DEF Room
  <2>4. body' = body \o Bytes(sent, IF n <= Room THEN n ELSE Room)
    BY <1>4 DEF CaptureBody
  <2>t. truncated' = (n > Room)
    BY <1>4 DEF CaptureBody
  <2>5. CASE n <= Room
    <3>1. sent' <= MaxBody /\ sent' \in Nat /\ ~(sent' > MaxBody) /\ ~(n > Room)
      BY <1>0, <2>3, <2>5
    <3>2. ~truncated' /\ truncated' \in BOOLEAN
      <4>1. truncated' \in BOOLEAN
        BY <2>t
      <4>2. truncated' <=> n > Room
        BY <2>t
      <4> QED
        BY <3>1, <4>1, <4>2
    <3>3. body' = Bytes(0, sent')
      BY <1>0, <2>2, <2>4, <2>5, BytesJoin
    <3>4. body' \in Seq(1..MaxSent)
      BY <3>1, <3>3, BytesType
    <3> QED
      BY <3>1, <3>2, <3>3, <3>4 DEF SnippetIsPrefix
  <2>6. CASE ~(n <= Room)
    <3>1. /\ Room \in Nat /\ sent + Room = MaxBody /\ n > Room
          /\ sent' > MaxBody /\ ~(sent' <= MaxBody) /\ MaxBody <= MaxSent
      BY <1>0, <2>1, <2>3, <2>6
    <3>2. truncated' = TRUE
      BY <2>t, <3>1
    <3>3. body' = Bytes(0, MaxBody)
      BY <1>0, <2>2, <2>4, <2>6, <3>1, BytesJoin
    <3>4. body' \in Seq(1..MaxSent)
      BY <3>1, <3>3, BytesType
    <3> QED
      BY <3>1, <3>2, <3>3, <3>4 DEF SnippetIsPrefix
  <2> QED
    BY <2>5, <2>6
<1> QED
  BY <1>1, <1>2, <1>3, <1>4 DEF TypeOK

LEMMA AnyCaptureKeepsPrefix ==
  ASSUME TypeOK, SnippetIsPrefix, config' = config,
         NEW n \in Nat, sent + n <= MaxSent, sent' = sent + n,
         CaptureBody(n) \/ CaptureString(n)
  PROVE  SnippetIsPrefix' /\ body' \in Seq(1..MaxSent) /\ truncated' \in BOOLEAN
<1>1. CaptureBody(n)
  <2>1. CASE ~config.handled5xx
    BY <2>1 DEF CaptureBody, CaptureString
  <2>2. CASE config.handled5xx
    <3>1. sent \in Nat /\ sent <= MaxSent
      BY DEF TypeOK
    <3>2. CASE sent <= MaxBody
      <4>1. Len(body) = sent
        BY <2>2, <3>1, <3>2, BytesType DEF SnippetIsPrefix
      <4> QED
        BY <3>1, <3>2, <4>1, WriteStringCapturesAlike
    <3>3. CASE ~(sent <= MaxBody)
      <4>1. Len(body) = MaxBody
        BY <2>2, <3>1, <3>3, BytesType DEF SnippetIsPrefix
      <4> QED
        BY <4>1, WriteStringCapturesAlike
    <3> QED
      BY <3>2, <3>3
  <2> QED
    BY <2>1, <2>2
<1> QED
  BY <1>1, CaptureKeepsPrefix

-----------------------------------------------------------------------------
(* The inductive invariant. *)

LEMMA InitInv == Init => MiddlewareInv
<1> SUFFICES ASSUME Init PROVE MiddlewareInv
  OBVIOUS
<1>1. TypeOK
  <2>1. << >> \in Seq(1..MaxSent)
    OBVIOUS
  <2>2. body \in Seq(1..MaxSent)
    BY <2>1 DEF Init
  <2>3. acceptedBytes \in 0..MaxSent /\ sent \in 0..MaxSent
    BY DEF Init
  <2> QED
    BY <2>2, <2>3 DEF Init, TypeOK, Statuses, Stages
<1>2. SnippetIsPrefix
  <2>1. Bytes(0, 0) = << >>
    BY DEF Bytes
  <2> QED
    BY <2>1 DEF Init, SnippetIsPrefix
<1>3. Told
  BY DEF Init, Told, Panicking
<1> QED
  BY <1>1, <1>2, <1>3
     DEF Init, MiddlewareInv, ObservedIsSent, BodyAfterHeader, ServerCompletes, Answering

(* While the handler runs, nothing is reported. *)
LEMMA HandlerGoesOn ==
  ASSUME MiddlewareInv, stage = "handler", closure' = closure,
         TypeOK', ObservedIsSent', SnippetIsPrefix', BodyAfterHeader'
  PROVE  MiddlewareInv'
<1>1. /\ config' = config /\ stage' = "handler" /\ panicked' = panicked
      /\ hookPanicked' = hookPanicked /\ reports' = reports
  BY DEF closure
<1>2. Told'
  BY <1>1 DEF MiddlewareInv, Told, Panicking
<1> QED
  BY <1>1, <1>2 DEF MiddlewareInv, ServerCompletes, Answering

(* A step that reports, or only moves on, leaves response and observer alone. *)
LEMMA QuietStep ==
  ASSUME MiddlewareInv, stage # "end", stage' \in Stages \ {"end"},
         UNCHANGED <<config, response, tracker>>,
         panicked' \in BOOLEAN, hookPanicked' \in BOOLEAN
  PROVE  /\ TypeOK' /\ ObservedIsSent' /\ SnippetIsPrefix'
         /\ BodyAfterHeader' /\ ServerCompletes'
<1> USE DEF MiddlewareInv, response, tracker
<1>1. TypeOK'
  BY DEF TypeOK
<1> QED
  BY <1>1 DEF ObservedIsSent, SnippetIsPrefix, BodyAfterHeader, ServerCompletes

LEMMA BuildsContextInv ==
  ASSUME MiddlewareInv, BuildsContext
  PROVE  MiddlewareInv'
<1> USE DEF MiddlewareInv, BuildsContext
<1>1. TypeOK' /\ ObservedIsSent' /\ SnippetIsPrefix' /\ BodyAfterHeader' /\ ServerCompletes'
  BY QuietStep DEF TypeOK, Stages
<1>2. Answering' /\ Told'
  BY DEF Answering, Told, Panicking
<1> QED
  BY <1>1, <1>2

LEMMA ReadsInv ==
  ASSUME MiddlewareInv, NEW n \in 1..MaxRequest, HandlerReads(n)
  PROVE  MiddlewareInv'
<1> USE DEF MiddlewareInv, HandlerReads
<1>1. TypeOK' /\ ObservedIsSent' /\ SnippetIsPrefix' /\ BodyAfterHeader' /\ ServerCompletes'
  BY QuietStep DEF TypeOK, Stages
<1>2. Answering' /\ Told'
  BY DEF Answering, Told, Panicking
<1> QED
  BY <1>1, <1>2

LEMMA WritesHeaderInv ==
  ASSUME MiddlewareInv, NEW code \in Codes, HandlerWritesHeader(code)
  PROVE  MiddlewareInv'
<1> USE DEF MiddlewareInv, HandlerWritesHeader
<1>1. code \in Statuses /\ code \in 100..999 /\ stage' = stage /\ closure' = closure
  BY DEF Statuses, closure
<1>2. UNCHANGED <<sent, taken, hijacked, acceptedBytes, body, truncated, config>>
  BY DEF closure
<1>3. /\ statusCode = status /\ (wroteHeader <=> status # 0)
      /\ (hijacked <=> taken) /\ acceptedBytes = sent
  BY DEF ObservedIsSent
<1>4. CASE wroteHeader \/ hijacked \/ Informational(code)
  <2>1. status' = status /\ statusCode' = statusCode /\ wroteHeader' = wroteHeader
    BY <1>1, <1>3, <1>4 DEF CommitsTo, Answered, Informational
  <2>2. TypeOK' /\ ObservedIsSent' /\ SnippetIsPrefix' /\ BodyAfterHeader'
    BY <1>1, <1>2, <1>3, <2>1
       DEF TypeOK, ObservedIsSent, SnippetIsPrefix, BodyAfterHeader, closure
  <2> QED
    BY <1>1, <2>2, HandlerGoesOn
<1>5. CASE ~(wroteHeader \/ hijacked \/ Informational(code))
  <2>1. status' = code /\ statusCode' = code /\ wroteHeader' = TRUE
    BY <1>1, <1>3, <1>5 DEF CommitsTo, Answered, Informational
  <2>2. TypeOK' /\ ObservedIsSent' /\ SnippetIsPrefix' /\ BodyAfterHeader'
    BY <1>1, <1>2, <1>3, <2>1
       DEF TypeOK, ObservedIsSent, SnippetIsPrefix, BodyAfterHeader, closure
  <2> QED
    BY <1>1, <2>2, HandlerGoesOn
<1> QED
  BY <1>4, <1>5

(* What a write, a flush or http.Error commits on both sides. *)
LEMMA CommitAgrees ==
  ASSUME TypeOK, stage # "end", ObservedIsSent, NEW code \in {200, 500},
         CommitsTo(code), status' = Answered(code)
  PROVE  /\ statusCode' = status' /\ (wroteHeader' <=> status' # 0)
         /\ status' \in Statuses /\ wroteHeader' \in BOOLEAN
         /\ status # 0 => status' = status
         /\ ~taken => status' # 0
<1>1. /\ statusCode = status /\ (wroteHeader <=> status # 0)
      /\ (hijacked <=> taken)
  BY DEF ObservedIsSent
<1>2. CASE wroteHeader \/ hijacked
  BY <1>1, <1>2 DEF CommitsTo, Answered, TypeOK
<1>3. CASE ~(wroteHeader \/ hijacked)
  <2>1. status' = code /\ statusCode' = code /\ wroteHeader' = TRUE
    BY <1>1, <1>3 DEF CommitsTo, Answered
  <2> QED
    BY <1>1, <1>3, <2>1 DEF Statuses
<1> QED
  BY <1>2, <1>3

LEMMA WritesInv ==
  ASSUME MiddlewareInv, NEW n \in 0..MaxSent, HandlerWrites(n)
  PROVE  MiddlewareInv'
<1> USE DEF MiddlewareInv
<1>1. /\ stage = "handler" /\ closure' = closure /\ config' = config /\ stage' = stage
      /\ taken' = taken /\ hijacked' = hijacked /\ panicked' = panicked
      /\ hookPanicked' = hookPanicked /\ sent' = sent + n
      /\ CommitsTo(200) /\ CountsWrite(n) /\ status' = Answered(200)
      /\ CaptureBody(n) \/ CaptureString(n)
  BY DEF HandlerWrites, closure, Implied
<1>2. n \in Nat /\ sent \in Nat /\ sent + n <= MaxSent
  BY DEF HandlerWrites, TypeOK
<1>3. n > 0 => ~taken
  BY DEF HandlerWrites, BodyAllowed
<1>4. SnippetIsPrefix' /\ body' \in Seq(1..MaxSent) /\ truncated' \in BOOLEAN
  BY <1>1, <1>2, AnyCaptureKeepsPrefix
<1>5. /\ statusCode' = status' /\ (wroteHeader' <=> status' # 0)
      /\ status' \in Statuses /\ wroteHeader' \in BOOLEAN
      /\ status # 0 => status' = status
      /\ ~taken => status' # 0
  BY <1>1, CommitAgrees
<1>6. acceptedBytes' = sent' /\ sent' \in 0..MaxSent
  BY <1>1, <1>2, <1>3 DEF CountsWrite, ObservedIsSent
<1>7. TypeOK' /\ ObservedIsSent' /\ BodyAfterHeader'
  BY <1>1, <1>2, <1>3, <1>4, <1>5, <1>6 DEF TypeOK, ObservedIsSent, BodyAfterHeader
<1> QED
  BY <1>1, <1>4, <1>7, HandlerGoesOn

LEMMA FlushesInv ==
  ASSUME MiddlewareInv, HandlerFlushes
  PROVE  MiddlewareInv'
<1> USE DEF MiddlewareInv
<1>1. /\ stage = "handler" /\ closure' = closure /\ config' = config /\ stage' = stage
      /\ taken' = taken /\ hijacked' = hijacked /\ panicked' = panicked
      /\ hookPanicked' = hookPanicked /\ sent' = sent /\ acceptedBytes' = acceptedBytes
      /\ body' = body /\ truncated' = truncated
      /\ CommitsTo(200) /\ status' = Answered(200)
  BY DEF HandlerFlushes, closure, Implied
<1>2. /\ statusCode' = status' /\ (wroteHeader' <=> status' # 0)
      /\ status' \in Statuses /\ wroteHeader' \in BOOLEAN
      /\ status # 0 => status' = status
  BY <1>1, CommitAgrees
<1>3. TypeOK' /\ ObservedIsSent' /\ SnippetIsPrefix' /\ BodyAfterHeader'
  BY <1>1, <1>2 DEF TypeOK, ObservedIsSent, SnippetIsPrefix, BodyAfterHeader
<1> QED
  BY <1>1, <1>3, HandlerGoesOn

LEMMA HijacksInv ==
  ASSUME MiddlewareInv, HandlerHijacks
  PROVE  MiddlewareInv'
<1> USE DEF MiddlewareInv, HandlerHijacks
<1>1. stage' = stage /\ closure' = closure /\ config' = config
  BY DEF closure
<1>2. TypeOK' /\ ObservedIsSent' /\ SnippetIsPrefix' /\ BodyAfterHeader'
  BY DEF TypeOK, ObservedIsSent, SnippetIsPrefix, BodyAfterHeader, closure
<1> QED
  BY <1>1, <1>2, HandlerGoesOn

LEMMA SameStory ==
  ASSUME UNCHANGED <<config, tracker, panicked>>
  PROVE  Incident' = Incident /\ Final' = Final
BY DEF tracker, Incident, Final, ResponseStatus

LEMMA ReturnsInv ==
  ASSUME MiddlewareInv, HandlerReturns \/ HandlerPanics
  PROVE  MiddlewareInv'
<1> USE DEF MiddlewareInv, HandlerReturns, HandlerPanics
<1>1. TypeOK' /\ ObservedIsSent' /\ SnippetIsPrefix' /\ BodyAfterHeader' /\ ServerCompletes'
  BY QuietStep DEF TypeOK, Stages
<1>2. Answering' /\ Told'
  BY DEF Answering, Told, Panicking
<1> QED
  BY <1>1, <1>2

LEMMA CapturesHandled5xxInv ==
  ASSUME MiddlewareInv, CapturesHandled5xx
  PROVE  MiddlewareInv'
<1> USE DEF MiddlewareInv
<1> DEFINE event == Report("5xx", statusCode, "handled")
<1>0. stage = "handled5xx" /\ UNCHANGED <<config, response, tracker, panicked>>
  BY DEF CapturesHandled5xx
<1>1. \/ stage' = "transaction" /\ hookPanicked' = hookPanicked
      \/ stage' = "recovered" /\ hookPanicked' = TRUE
  BY DEF CapturesHandled5xx, Reports, ReportsNothing
<1>2. TypeOK' /\ ObservedIsSent' /\ SnippetIsPrefix' /\ BodyAfterHeader' /\ ServerCompletes'
  BY <1>0, <1>1, QuietStep DEF TypeOK, Stages
<1>3. Answering'
  BY <1>0, <1>1 DEF Answering
<1>4. Told'
  <2> SUFFICES ASSUME ~hookPanicked' PROVE Told'
    BY DEF Told
  <2>1. ~hookPanicked /\ stage' = "transaction" /\ ~panicked /\ reports = << >>
    BY <1>0, <1>1 DEF Told, Answering
  <2>2. reports' = IF config.handled5xx /\ statusCode >= 500
                     THEN Append(reports, event) ELSE reports
    BY <1>0, <2>1 DEF CapturesHandled5xx, Reports, ReportsNothing
  <2>3. reports' = Incident
    BY <2>1, <2>2 DEF Incident
  <2>4. Incident' = Incident
    BY <1>0, SameStory
  <2> QED
    BY <1>0, <2>1, <2>3, <2>4 DEF Told, Panicking
<1> QED
  BY <1>2, <1>3, <1>4

LEMMA TransactionMoves ==
  ASSUME NEW code, NEW verdicts, NEW next, NEW unwound,
         CaptureTransaction(code, verdicts, next, unwound)
  PROVE  \/ stage' = next /\ hookPanicked' = hookPanicked
         \/ stage' = unwound /\ hookPanicked' = TRUE
<1>1. PICK capture \in verdicts :
        IF config.tx /\ capture
          THEN Reports(Report("transaction", Measured(code), StatusName(code)), next, unwound)
          ELSE ReportsNothing(next)
  BY DEF CaptureTransaction
<1>2. CASE config.tx /\ capture
  BY <1>1, <1>2 DEF Reports
<1>3. CASE ~(config.tx /\ capture)
  BY <1>1, <1>3 DEF ReportsNothing
<1> QED
  BY <1>2, <1>3

(* One transaction at most is added to the incident, and a forced verdict   *)
(* or a 5xx adds it.                                                        *)
LEMMA TransactionTold ==
  ASSUME NEW code \in Nat, NEW verdicts, NEW next, NEW unwound, reports = Incident, code = Final,
         CaptureTransaction(code, verdicts, next, unwound), ~hookPanicked, ~hookPanicked',
         \/ verdicts = {TRUE}
         \/ ~panicked /\ verdicts = ShouldCapture(code),
         UNCHANGED <<config, tracker, panicked>>
  PROVE  \/ /\ reports' = Incident'
            /\ config'.tx => ~panicked' /\ Final' < 500
         \/ reports' = Append(Incident', Report("transaction", Final', StatusName(Final')))
<1>1. Incident' = Incident /\ Final' = Final
  BY SameStory
<1>2. PICK capture \in verdicts :
        IF config.tx /\ capture
          THEN Reports(Report("transaction", Measured(code), StatusName(code)), next, unwound)
          ELSE ReportsNothing(next)
  BY DEF CaptureTransaction
<1>3. CASE config.tx /\ capture
  BY <1>1, <1>2, <1>3 DEF Reports, Measured
<1>4. CASE ~(config.tx /\ capture)
  <2>1. reports' = reports
    BY <1>2, <1>4 DEF ReportsNothing
  <2>2. config.tx => ~panicked /\ code < 500
    <3>1. CASE verdicts = {TRUE}
      <4>1. capture = TRUE
        BY <3>1
      <4> QED
        BY <1>4, <4>1
    <3>2. CASE ~panicked /\ verdicts = ShouldCapture(code)
      <4>1. code >= 500 => capture = TRUE
        BY <3>2 DEF ShouldCapture
      <4>2. config.tx => ~(code >= 500)
        BY <1>4, <4>1
      <4> QED
        BY <3>2, <4>2
    <3> QED
      BY <3>1, <3>2
  <2> QED
    BY <1>1, <2>1, <2>2
<1> QED
  BY <1>3, <1>4

LEMMA StatusCodeNat == TypeOK => statusCode \in Nat /\ status \in Nat
BY DEF TypeOK, Statuses

LEMMA CapturesTransactionInv ==
  ASSUME MiddlewareInv, CapturesTransaction
  PROVE  MiddlewareInv'
<1> USE DEF MiddlewareInv
<1> DEFINE code == ResponseStatus(TRUE)
<1>0. /\ stage = "transaction" /\ UNCHANGED <<config, response, tracker, panicked>>
      /\ CaptureTransaction(code, ShouldCapture(code), "served", "recovered")
  BY DEF CapturesTransaction
<1>1. \/ stage' = "served" /\ hookPanicked' = hookPanicked
      \/ stage' = "recovered" /\ hookPanicked' = TRUE
  BY <1>0, TransactionMoves
<1>2. TypeOK' /\ ObservedIsSent' /\ SnippetIsPrefix' /\ BodyAfterHeader' /\ ServerCompletes'
  BY <1>0, <1>1, QuietStep DEF TypeOK, Stages
<1>3. Told'
  <2> SUFFICES ASSUME ~hookPanicked' PROVE Told'
    BY DEF Told
  <2>1. ~hookPanicked /\ stage' = "served" /\ ~panicked /\ reports = Incident
    BY <1>0, <1>1 DEF Told, Answering
  <2>2. code = Final /\ code \in Nat
    BY <2>1, StatusCodeNat DEF Final, ResponseStatus
  <2> HIDE DEF code
  <2> QED
    BY <1>0, <2>1, <2>2, TransactionTold DEF Told, Panicking
<1>4. Answering'
  BY <1>0, <1>1 DEF Answering
<1> QED
  BY <1>2, <1>3, <1>4

LEMMA RecoversInv ==
  ASSUME MiddlewareInv, Recovers
  PROVE  MiddlewareInv'
<1> USE DEF MiddlewareInv
<1> DEFINE event == Report("panic", 0, "unhandled")
<1>0. stage = "recovered" /\ UNCHANGED <<config, response, tracker, panicked>>
  BY DEF Recovers
<1>1. \/ stage' \in {"repanic", "fallback"} /\ hookPanicked' = hookPanicked
      \/ stage' = "aborted" /\ hookPanicked' = TRUE
  BY DEF Recovers, Reports, ReportsNothing
<1>2. TypeOK' /\ ObservedIsSent' /\ SnippetIsPrefix' /\ BodyAfterHeader' /\ ServerCompletes'
  BY <1>0, <1>1, QuietStep DEF TypeOK, Stages
<1>3. Answering'
  BY <1>0, <1>1 DEF Answering
<1>4. Told'
  <2> SUFFICES ASSUME ~hookPanicked' PROVE Told'
    BY DEF Told
  <2>1. /\ ~hookPanicked /\ stage' \in {"repanic", "fallback"}
        /\ panicked /\ reports = << >>
    BY <1>0, <1>1 DEF Told, Panicking
  <2>2. reports' = IF config.panics THEN Append(reports, event) ELSE reports
    BY <1>0, <2>1 DEF Recovers, Reports, ReportsNothing
  <2>3. reports' = Incident
    BY <2>1, <2>2 DEF Incident
  <2>4. Incident' = Incident
    BY <1>0, SameStory
  <2> QED
    BY <1>0, <2>1, <2>3, <2>4 DEF Told, Panicking
<1> QED
  BY <1>2, <1>3, <1>4

LEMMA ForcedInv ==
  ASSUME MiddlewareInv, Repanics \/ CapturesForced
  PROVE  MiddlewareInv'
<1> USE DEF MiddlewareInv
<1> DEFINE code == ResponseStatus(FALSE)
<1>0. /\ stage \in {"repanic", "forced"}
      /\ UNCHANGED <<config, response, tracker, panicked>>
  BY DEF Repanics, CapturesForced
<1>1. PICK next \in {"served", "aborted"} :
        /\ CaptureTransaction(code, {TRUE}, next, "aborted")
        /\ next = "served" => stage = "forced"
  BY DEF Repanics, CapturesForced
<1>2. \/ stage' = next /\ hookPanicked' = hookPanicked
      \/ stage' = "aborted" /\ hookPanicked' = TRUE
  BY <1>1, TransactionMoves
<1>3. TypeOK' /\ ObservedIsSent' /\ SnippetIsPrefix' /\ BodyAfterHeader' /\ ServerCompletes'
  <2>1. stage # "end" /\ stage' \in Stages \ {"end"}
    BY <1>0, <1>2 DEF Stages
  <2>2. panicked' \in BOOLEAN /\ hookPanicked' \in BOOLEAN
    BY <1>0, <1>2 DEF TypeOK
  <2> QED
    BY <1>0, <2>1, <2>2, QuietStep
<1>4. Told'
  <2> SUFFICES ASSUME ~hookPanicked' PROVE Told'
    BY DEF Told
  <2>1. ~hookPanicked /\ stage' \in {"served", "aborted"} /\ panicked /\ reports = Incident
    BY <1>0, <1>2 DEF Told, Panicking
  <2>2. code = Final /\ code \in Nat
    BY <2>1, StatusCodeNat DEF Final, ResponseStatus
  <2> HIDE DEF code
  <2> QED
    BY <1>0, <1>1, <2>1, <2>2, TransactionTold DEF Told, Panicking
<1>5. Answering'
  <2>1. ~hookPanicked' => panicked'
    BY <1>0, <1>2 DEF Told, Panicking
  <2>2. stage' = "served" => wroteHeader' \/ hijacked'
    BY <1>0, <1>1, <1>2 DEF Answering, tracker
  <2> QED
    BY <1>0, <1>2, <2>1, <2>2 DEF Answering
<1> QED
  BY <1>3, <1>4, <1>5

LEMMA FallsBackInv ==
  ASSUME MiddlewareInv, FallsBack
  PROVE  MiddlewareInv'
<1> USE DEF MiddlewareInv
<1>0. /\ stage = "fallback" /\ stage' = "forced"
      /\ UNCHANGED <<config, taken, panicked, hookPanicked, reports>>
  BY DEF FallsBack
<1>1. Told'
  BY <1>0 DEF Told, Panicking, Incident
<1>2. CASE wroteHeader \/ hijacked
  <2>1. UNCHANGED <<response, tracker>>
    BY <1>2 DEF FallsBack
  <2>2. TypeOK' /\ ObservedIsSent' /\ SnippetIsPrefix' /\ BodyAfterHeader' /\ ServerCompletes'
    BY <1>0, <2>1, QuietStep DEF TypeOK, Stages
  <2>3. Answering'
    BY <1>0, <1>2, <2>1 DEF Answering, tracker
  <2> QED
    BY <1>1, <2>2, <2>3
<1>3. CASE ~(wroteHeader \/ hijacked)
  <2>1. PICK n \in {0, 1} : WritesError(n)
    BY <1>3 DEF FallsBack
  <2>2. /\ status' = Answered(500) /\ sent' = sent + n /\ hijacked' = hijacked
        /\ CommitsTo(500) /\ CountsWrite(n) /\ CaptureBody(n)
    BY <2>1 DEF WritesError
  <2>3. status = 0 /\ sent = 0 /\ ~taken /\ acceptedBytes = 0
    BY <1>0, <1>3 DEF ObservedIsSent, BodyAfterHeader, TypeOK
  <2>4. n \in Nat /\ sent + n <= MaxSent
    BY <2>3
  <2>5. SnippetIsPrefix' /\ body' \in Seq(1..MaxSent) /\ truncated' \in BOOLEAN
    BY <1>0, <2>2, <2>4, CaptureKeepsPrefix
  <2>6. /\ statusCode' = status' /\ (wroteHeader' <=> status' # 0)
        /\ status' \in Statuses /\ wroteHeader' \in BOOLEAN
        /\ status' # 0
    BY <1>0, <2>2, <2>3, CommitAgrees
  <2>7. acceptedBytes' = sent' /\ sent' \in 0..MaxSent
    BY <1>3, <2>2, <2>3, <2>4 DEF CountsWrite
  <2>8. TypeOK' /\ ObservedIsSent' /\ BodyAfterHeader'
    BY <1>0, <2>2, <2>3, <2>5, <2>6, <2>7
       DEF TypeOK, ObservedIsSent, BodyAfterHeader, Stages
  <2>9. ServerCompletes' /\ Answering'
    BY <1>0, <2>6 DEF ServerCompletes, Answering
  <2> QED
    BY <1>1, <2>5, <2>8, <2>9
<1> QED
  BY <1>2, <1>3

LEMMA ServerFinishesInv ==
  ASSUME MiddlewareInv, ServerFinishes
  PROVE  MiddlewareInv'
<1> USE DEF MiddlewareInv
<1>0. /\ stage = "served" /\ stage' = "end" /\ status' = Answered(200)
      /\ UNCHANGED <<config, sent, taken, tracker, panicked, hookPanicked, reports>>
  BY DEF ServerFinishes, Implied
<1>1. /\ statusCode = status /\ (wroteHeader <=> status # 0)
      /\ (hijacked <=> taken) /\ acceptedBytes = sent
  BY <1>0 DEF ObservedIsSent
<1>2. status' = IF wroteHeader \/ hijacked THEN statusCode ELSE 200
  BY <1>0, <1>1 DEF Answered
<1>3. TypeOK'
  BY <1>0, <1>2 DEF TypeOK, tracker, Stages, Statuses
<1>4. ObservedIsSent' /\ SnippetIsPrefix' /\ Answering'
  BY <1>0 DEF ObservedIsSent, SnippetIsPrefix, Answering, tracker
<1>5. ServerCompletes' /\ BodyAfterHeader'
  BY <1>0, <1>1, <1>2, StatusCodeNat DEF ServerCompletes, BodyAfterHeader, tracker
<1>6. Told'
  BY <1>0, SameStory DEF Told, Panicking
<1> QED
  BY <1>3, <1>4, <1>5, <1>6

LEMMA StepInv == MiddlewareInv /\ [Next]_vars => MiddlewareInv'
<1> SUFFICES ASSUME MiddlewareInv, [Next]_vars PROVE MiddlewareInv'
  OBVIOUS
<1>1. CASE HandlerStep
  BY <1>1, ReadsInv, WritesHeaderInv, WritesInv, FlushesInv, HijacksInv, ReturnsInv DEF HandlerStep
<1>2. CASE MiddlewareStep
  BY <1>2, BuildsContextInv, CapturesHandled5xxInv, CapturesTransactionInv, RecoversInv, ForcedInv, FallsBackInv
     DEF MiddlewareStep
<1>3. CASE ServerFinishes
  BY <1>3, ServerFinishesInv
<1>4. CASE UNCHANGED vars
  <2>1. /\ UNCHANGED <<config, stage, panicked, hookPanicked, reports>>
        /\ UNCHANGED <<status, sent, taken>>
        /\ UNCHANGED <<statusCode, wroteHeader, hijacked, acceptedBytes, body, truncated>>
    BY <1>4 DEF vars, response, tracker
  <2>2. TypeOK' /\ ObservedIsSent' /\ SnippetIsPrefix'
    BY <2>1 DEF MiddlewareInv, TypeOK, ObservedIsSent, SnippetIsPrefix
  <2>3. BodyAfterHeader' /\ ServerCompletes' /\ Answering'
    BY <2>1 DEF MiddlewareInv, BodyAfterHeader, ServerCompletes, Answering
  <2>4. Told'
    BY <2>1, SameStory DEF MiddlewareInv, Told, tracker
  <2> QED
    BY <2>2, <2>3, <2>4 DEF MiddlewareInv
<1> QED
  BY <1>1, <1>2, <1>3, <1>4 DEF Next

(* Every reachable state of a request satisfies the inductive invariant.    *)
THEOREM Invariance == Spec => []MiddlewareInv
BY InitInv, StepInv, PTL DEF Spec

-----------------------------------------------------------------------------
(* The reports, whatever a capture does. *)

LEMMA NothingTold ==
  ASSUME reports = <<>>
  PROVE  Entries /\ Ascending(Len(reports)) /\ UpTo(1) /\ UpTo(2)
<1>1. DOMAIN reports = {} /\ Len(reports) = 0 /\ reports \in Seq(Event)
  OBVIOUS
<1> QED
  BY <1>1 DEF Entries, Ascending, UpTo

LEMMA EmptyChronicle ==
  ASSUME reports = <<>>, ~hookPanicked,
         stage \in {"arrives", "handler", "handled5xx", "transaction", "recovered"}
  PROVE  Chronicle
BY NothingTold DEF Chronicle, SoFar, InOrder, PanicListed, TransactionLast

LEMMA InitChronicle == Init => Chronicle
BY EmptyChronicle DEF Init

LEMMA EntryStays ==
  ASSUME NEW event \in Event, Entry(event), wroteHeader => wroteHeader',
         wroteHeader => statusCode' = statusCode, config' = config
  PROVE  Entry(event)'
<1>1. CASE event.kind = "5xx"
  <2>1. wroteHeader /\ event = Report("5xx", statusCode, "handled")
    BY <1>1 DEF Entry
  <2>2. wroteHeader' /\ statusCode' = statusCode
    BY <2>1
  <2>3. event.kind # "transaction"
    BY <1>1
  <2> QED
    BY <2>1, <2>2, <2>3 DEF Entry, Report
<1>2. CASE event.kind # "5xx"
  <2>1. event.kind = "transaction" => config'.tx
    BY DEF Entry
  <2> QED
    BY <1>2, <2>1 DEF Entry
<1> QED
  BY <1>1, <1>2

(* A report that ranks above the others comes after them. *)
LEMMA AddsReport ==
  ASSUME Entries, NEW event \in Event, Entry(event),
         UNCHANGED <<config, wroteHeader, statusCode>>, reports' = Append(reports, event)
  PROVE  /\ Entries'
         /\ Len(reports') = Len(reports) + 1 /\ Len(reports) \in Nat
         /\ reports' # <<>> /\ reports'[Len(reports')] = event
         /\ Ascending(Len(reports)) => Ascending(Len(reports) - 1)'
         /\ event.kind \in Kinds' /\ Kinds \subseteq Kinds'
<1>1. /\ reports' \in Seq(Event)
      /\ Len(reports) \in Nat /\ Len(reports') = Len(reports) + 1
      /\ DOMAIN reports = 1..Len(reports) /\ DOMAIN reports' = 1..Len(reports')
      /\ \A i \in DOMAIN reports : reports'[i] = reports[i]
      /\ reports'[Len(reports')] = event
  BY DEF Entries
<1>2. \A i \in DOMAIN reports' : i \in DOMAIN reports \/ i = Len(reports')
  BY <1>1
<1>4. \A i \in DOMAIN reports' : reports'[i] = event \/ (reports'[i] = reports[i] /\ i \in DOMAIN reports)
  BY <1>1, <1>2
<1>5. Entries'
  <2> SUFFICES ASSUME NEW i \in DOMAIN reports' PROVE Entry(reports[i])'
    BY <1>1 DEF Entries
  <2> DEFINE e == reports'[i]
  <2>1. e \in Event /\ Entry(e)
    BY <1>1, <1>4 DEF Entries
  <2>2. (wroteHeader => wroteHeader') /\ (wroteHeader => statusCode' = statusCode)
    OBVIOUS
  <2>3. e.kind = "5xx" => wroteHeader /\ e = Report("5xx", statusCode, "handled")
    BY <2>1 DEF Entry
  <2>4. e.kind = "5xx" => wroteHeader' /\ e = Report("5xx", statusCode', "handled")
    BY <2>2, <2>3
  <2>5. e.kind = "transaction" => config'.tx
    BY <2>1 DEF Entry
  <2> QED
    BY <2>4, <2>5 DEF Entry, Report
<1>6. Ascending(Len(reports)) => Ascending(Len(reports) - 1)'
  BY <1>1 DEF Ascending, Rank
<1>7. event.kind \in Kinds'
  <2>1. Len(reports') \in DOMAIN reports'
    BY <1>1
  <2> QED
    BY <1>1, <2>1 DEF Kinds
<1>8. Kinds \subseteq Kinds'
  <2>1. \A i \in DOMAIN reports : i \in DOMAIN reports' /\ reports'[i] = reports[i]
    BY <1>1
  <2> QED
    BY <2>1 DEF Kinds
<1> QED
  BY <1>1, <1>5, <1>6, <1>7, <1>8

LEMMA AddsHigher ==
  ASSUME Entries, NEW event \in Event, Entry(event),
         UNCHANGED <<config, wroteHeader, statusCode>>, reports' = Append(reports, event),
         Ascending(Len(reports)), UpTo(Rank(event.kind) - 1)
  PROVE  Ascending(Len(reports))' /\ UpTo(Rank(event.kind))'
<1>1. /\ Len(reports) \in Nat /\ Len(reports') = Len(reports) + 1
      /\ DOMAIN reports = 1..Len(reports) /\ DOMAIN reports' = 1..Len(reports')
      /\ \A i \in DOMAIN reports : reports'[i] = reports[i]
      /\ reports'[Len(reports')] = event
  BY DEF Entries
<1>2. Rank(event.kind) \in Nat /\ \A i \in DOMAIN reports : Rank(reports[i].kind) \in Nat
  BY DEF Rank
<1>3. \A i \in DOMAIN reports : Rank(reports'[i].kind) < Rank(event.kind)
  BY <1>1, <1>2 DEF UpTo
<1>4. UpTo(Rank(event.kind))'
  <2> SUFFICES ASSUME NEW i \in DOMAIN reports'
               PROVE  Rank(reports'[i].kind) <= Rank(event.kind)
    BY DEF UpTo, Rank
  <2>1. i \in DOMAIN reports \/ i = Len(reports')
    BY <1>1
  <2> QED
    BY <1>1, <1>2, <1>3, <2>1
<1>5. Ascending(Len(reports))'
  <2> SUFFICES ASSUME NEW i \in 1..Len(reports'), NEW j \in 1..Len(reports'), i < j
               PROVE  Rank(reports'[i].kind) < Rank(reports'[j].kind)
    BY DEF Ascending, Rank
  <2>1. i \in DOMAIN reports
    BY <1>1
  <2>2. CASE j = Len(reports')
    BY <1>1, <1>3, <2>1, <2>2
  <2>3. CASE j # Len(reports')
    <3>1. j \in 1..Len(reports) /\ i \in 1..Len(reports)
      BY <1>1, <2>1, <2>3
    <3> QED
      BY <1>1, <3>1 DEF Ascending
  <2> QED
    BY <2>2, <2>3
<1> QED
  BY <1>4, <1>5

(* A capture that may panic leaves the reports or adds its own. *)
LEMMA ReportsAdd ==
  ASSUME NEW event, NEW next, NEW unwound, Reports(event, next, unwound)
  PROVE  /\ reports' = reports \/ reports' = Append(reports, event)
         /\ \/ stage' = next /\ reports' = Append(reports, event) /\ hookPanicked' = hookPanicked
            \/ stage' = unwound /\ hookPanicked' = TRUE
BY DEF Reports

LEMMA TransactionAdds ==
  ASSUME NEW code, NEW verdicts, NEW next, NEW unwound, NEW event,
         event = Report("transaction", Measured(code), StatusName(code)),
         CaptureTransaction(code, verdicts, next, unwound), reports' # reports
  PROVE  reports' = Append(reports, event) /\ config.tx
<1>1. PICK capture \in verdicts :
        IF config.tx /\ capture THEN Reports(event, next, unwound) ELSE ReportsNothing(next)
  BY DEF CaptureTransaction
<1>2. config.tx /\ capture
  BY <1>1 DEF ReportsNothing
<1>3. Reports(event, next, unwound)
  BY <1>1, <1>2
<1>4. reports' = Append(reports, event)
  BY <1>3, ReportsAdd
<1> QED
  BY <1>2, <1>4

LEMMA TransactionIsAdded ==
  ASSUME NEW code, NEW next, NEW unwound, NEW event,
         event = Report("transaction", Measured(code), StatusName(code)),
         CaptureTransaction(code, {TRUE}, next, unwound),
         config.tx, next # unwound, stage' = next
  PROVE  reports' = Append(reports, event)
<1>1. Reports(event, next, unwound)
  BY DEF CaptureTransaction
<1> QED
  BY <1>1, ReportsAdd

LEMMA QuietEntries ==
  ASSUME Entries, UNCHANGED <<config, reports>>,
         wroteHeader => wroteHeader' /\ statusCode' = statusCode
  PROVE  Entries'
<1> SUFFICES ASSUME NEW i \in DOMAIN reports PROVE Entry(reports[i])'
  BY DEF Entries
<1>1. reports[i] \in Event /\ Entry(reports[i])
  BY DEF Entries
<1>2. \A event \in Event : Entry(event) => Entry(event)'
  BY EntryStays
<1> QED
  BY <1>1, <1>2 DEF Entry

LEMMA CapturesHandled5xxTells ==
  ASSUME MiddlewareInv, Chronicle, CapturesHandled5xx
  PROVE  Chronicle'
<1>0. PICK event : event = Report("5xx", statusCode, "handled")
  OBVIOUS
<1>1. /\ reports = <<>> /\ ~hookPanicked
      /\ UNCHANGED <<config, tracker, panicked>> /\ UNCHANGED <<wroteHeader, statusCode>>
  BY DEF Chronicle, SoFar, CapturesHandled5xx, tracker
<1>2. /\ reports' = reports \/ (reports' = Append(reports, event) /\ statusCode >= 500)
      /\ \/ stage' = "transaction" /\ hookPanicked' = hookPanicked
         \/ stage' = "recovered" /\ hookPanicked' = TRUE
  BY <1>0 DEF CapturesHandled5xx, Reports, ReportsNothing
<1>3. Entries' /\ Ascending(Len(reports))' /\ UpTo(1)'
  <2>1. CASE reports' = reports
    BY <1>1, <2>1, NothingTold, QuietEntries DEF Ascending, UpTo, Rank
  <2>2. CASE reports' = Append(reports, event) /\ statusCode >= 500
    <3>1. wroteHeader /\ statusCode \in Statuses
      BY <2>2 DEF MiddlewareInv, ObservedIsSent, CapturesHandled5xx, TypeOK
    <3>2. event \in Event /\ Entry(event) /\ event.kind = "5xx"
      BY <1>0, <3>1 DEF Event, Entry, Report
    <3>3. Rank(event.kind) = 1
      BY <3>2 DEF Rank
    <3>4. Ascending(Len(reports)) /\ UpTo(Rank(event.kind) - 1)
      BY <1>1, NothingTold DEF UpTo
    <3>5. Ascending(Len(reports))' /\ UpTo(Rank(event.kind))'
      BY <1>1, <2>2, <3>2, <3>4, AddsHigher DEF Chronicle
    <3> QED
      BY <1>1, <2>2, <3>2, <3>3, <3>5, AddsReport DEF Chronicle
  <2> QED
    BY <1>2, <2>1, <2>2
<1>4. UpTo(2)'
  BY <1>3 DEF UpTo, Rank
<1> QED
  BY <1>1, <1>2, <1>3, <1>4 DEF Chronicle, SoFar, InOrder, PanicListed, TransactionLast

LEMMA TransactionTyped ==
  ASSUME TypeOK, NEW finished \in BOOLEAN
  PROVE  Report("transaction", Measured(ResponseStatus(finished)),
                StatusName(ResponseStatus(finished)))
           \in [kind : {"transaction"}, status : Statuses,
               result : {"unknown_error", "internal_error", "invalid_argument", "ok"}]
BY DEF TypeOK, Report, Measured, ResponseStatus, StatusName, Statuses

LEMMA CapturesTransactionTells ==
  ASSUME MiddlewareInv, Chronicle, CapturesTransaction
  PROVE  Chronicle'
<1>0. PICK event : event = Report("transaction", Measured(ResponseStatus(TRUE)),
                                  StatusName(ResponseStatus(TRUE)))
  OBVIOUS
<1>1. /\ UpTo(1) /\ ~hookPanicked /\ ~panicked /\ Ascending(Len(reports)) /\ Entries
      /\ UNCHANGED <<config, tracker, panicked>> /\ UNCHANGED <<wroteHeader, statusCode>>
  BY DEF Chronicle, SoFar, InOrder, CapturesTransaction, tracker, MiddlewareInv, Answering
<1>2. \/ stage' = "served" /\ hookPanicked' = hookPanicked
      \/ stage' = "recovered" /\ hookPanicked' = TRUE
  BY TransactionMoves DEF CapturesTransaction
<1>3. reports' = reports \/ (reports' = Append(reports, event) /\ config.tx)
  BY <1>0, TransactionAdds DEF CapturesTransaction
<1>4. Entries' /\ Ascending(Len(reports))' /\ UpTo(2)'
  <2>1. CASE reports' = reports
    BY <1>1, <2>1, QuietEntries DEF Ascending, UpTo, Rank
  <2>2. CASE reports' = Append(reports, event) /\ config.tx
    <3>1. event \in Event /\ Entry(event) /\ event.kind = "transaction"
      BY <1>0, <2>2, TransactionTyped DEF MiddlewareInv, Entry, Event
    <3>2. Rank(event.kind) = 2
      BY <3>1 DEF Rank
    <3>3. Ascending(Len(reports))' /\ UpTo(Rank(event.kind))'
      BY <1>1, <2>2, <3>1, <3>2, AddsHigher
    <3> QED
      BY <1>1, <2>2, <3>1, <3>2, <3>3, AddsReport
  <2> QED
    BY <1>3, <2>1, <2>2
<1> QED
  BY <1>1, <1>2, <1>4 DEF Chronicle, SoFar, InOrder, PanicListed, TransactionLast

LEMMA RecoversTells ==
  ASSUME MiddlewareInv, Chronicle, Recovers
  PROVE  Chronicle'
<1>0. PICK event : event = Report("panic", 0, "unhandled")
  OBVIOUS
<1>1. /\ UpTo(2) /\ Ascending(Len(reports)) /\ Entries
      /\ UNCHANGED <<config, tracker, panicked>> /\ UNCHANGED <<wroteHeader, statusCode>>
  BY DEF Chronicle, SoFar, InOrder, Recovers, tracker
<1>2. /\ \/ stage' \in {"repanic", "fallback"} /\ hookPanicked' = hookPanicked
         \/ stage' = "aborted" /\ hookPanicked' = TRUE
      /\ reports' = reports \/ reports' = Append(reports, event)
      /\ stage' \in {"repanic", "fallback"} /\ config.panics => reports' = Append(reports, event)
  BY <1>0 DEF Recovers, Reports, ReportsNothing
<1>3. /\ Entries' /\ Ascending(Len(reports))'
      /\ reports' = Append(reports, event) => "panic" \in Kinds'
  <2>1. CASE reports' = reports
    <3>1. Entries' /\ Ascending(Len(reports))'
      BY <1>1, <2>1, QuietEntries DEF Ascending, UpTo, Rank
    <3>2. reports' # Append(reports, event)
      <4>1. Len(Append(reports, event)) = Len(reports) + 1 /\ Len(reports) \in Nat
        BY <1>1 DEF Entries
      <4> QED
        BY <2>1, <4>1
    <3> QED
      BY <3>1, <3>2
  <2>2. CASE reports' = Append(reports, event)
    <3>1. event \in Event /\ Entry(event) /\ event.kind = "panic"
      BY <1>0 DEF Event, Entry, Report, Statuses
    <3>2. Rank(event.kind) = 3
      BY <3>1 DEF Rank
    <3>3. Ascending(Len(reports))' /\ UpTo(Rank(event.kind))'
      BY <1>1, <2>2, <3>1, <3>2, AddsHigher
    <3>4. Entries' /\ event.kind \in Kinds'
      BY <1>1, <2>2, <3>1, AddsReport
    <3> QED
      BY <3>1, <3>3, <3>4
  <2> QED
    BY <1>2, <2>1, <2>2
<1>4. PanicListed'
  BY <1>1, <1>2, <1>3 DEF PanicListed
<1> QED
  BY <1>2, <1>3, <1>4 DEF Chronicle, SoFar, InOrder, TransactionLast

(* The transaction of the deferred function may be a second one. *)
LEMMA ForcedTells ==
  ASSUME MiddlewareInv, Chronicle, Repanics \/ CapturesForced
  PROVE  Chronicle'
<1>0. PICK code, event : /\ code = ResponseStatus(FALSE)
                         /\ event = Report("transaction", Measured(code), StatusName(code))
  OBVIOUS
<1>1. /\ stage \in {"repanic", "forced"} /\ Ascending(Len(reports)) /\ Entries
      /\ UNCHANGED <<config, tracker, panicked>> /\ UNCHANGED <<wroteHeader, statusCode, hijacked>>
  BY DEF Chronicle, InOrder, Repanics, CapturesForced, tracker
<1>2. PICK next \in {"served", "aborted"} :
        /\ CaptureTransaction(code, {TRUE}, next, "aborted")
        /\ next = "served" => stage = "forced"
  BY <1>0 DEF Repanics, CapturesForced
<1>3. \/ stage' = next /\ hookPanicked' = hookPanicked
      \/ stage' = "aborted" /\ hookPanicked' = TRUE
  BY <1>2, TransactionMoves
<1>4. reports' # reports => reports' = Append(reports, event) /\ config.tx
  <2> SUFFICES ASSUME reports' # reports PROVE reports' = Append(reports, event) /\ config.tx
    OBVIOUS
  <2>1. CaptureTransaction(code, {TRUE}, next, "aborted")
    BY <1>2
  <2>2. \A verdicts : CaptureTransaction(code, verdicts, next, "aborted")
                       => reports' = Append(reports, event) /\ config.tx
    BY <1>0, TransactionAdds
  <2> QED
    BY <2>1, <2>2
<1>a. ASSUME config.tx, stage' = "served" PROVE reports' = Append(reports, event)
  <2>1. next = "served"
    BY <1>3, <1>a
  <2> QED
    BY <1>0, <1>2, <1>a, <2>1, TransactionIsAdded
<1>5. event \in Event /\ event.kind = "transaction" /\ (config.tx => Entry(event))
  BY <1>0, TransactionTyped DEF MiddlewareInv, Entry, Event
<1>6. Entries' /\ Kinds \subseteq Kinds' /\ InOrder'
  <2>1. stage' \in {"served", "aborted"}
    BY <1>3
  <2>2. CASE reports' = reports
    BY <1>1, <2>2, QuietEntries DEF Ascending, Rank, Kinds, InOrder
  <2>3. CASE reports' = Append(reports, event) /\ config.tx
    <3>1. /\ Entries' /\ Kinds \subseteq Kinds'
          /\ Len(reports') = Len(reports) + 1 /\ Len(reports) \in Nat
          /\ reports' # <<>> /\ reports'[Len(reports')] = event
          /\ Ascending(Len(reports) - 1)'
      BY <1>1, <1>5, <2>3, AddsReport
    <3> QED
      BY <1>5, <2>1, <3>1 DEF InOrder
  <2> QED
    BY <1>4, <2>2, <2>3
<1>7. PanicListed'
  BY <1>1, <1>3, <1>6 DEF Chronicle, PanicListed
<1>8. TransactionLast'
  <2> SUFFICES ASSUME stage' = "served" PROVE TransactionLast'
    BY <1>3 DEF TransactionLast
  <2>1. wroteHeader' \/ hijacked'
    BY <1>1, <1>2, <1>3 DEF MiddlewareInv, Answering
  <2>2. ASSUME config.tx PROVE EndsWithTransaction'
    <3>1. reports' # <<>> /\ reports'[Len(reports')] = event
      BY <1>1, <1>a, <1>5, <2>2, AddsReport
    <3>2. event = Report("transaction", statusCode', StatusName(statusCode'))
      <4>1. code = statusCode /\ statusCode' = statusCode
        BY <1>0, <1>1 DEF ResponseStatus
      <4>2. Measured(code) = code
        BY <1>1, <2>1, <4>1 DEF Measured, MiddlewareInv, ObservedIsSent
      <4> QED
        BY <1>0, <4>1, <4>2
    <3> QED
      BY <3>1, <3>2 DEF EndsWithTransaction, Report, StatusName
  <2> QED
    BY <1>1, <2>1, <2>2 DEF TransactionLast
<1> QED
  BY <1>3, <1>6, <1>7, <1>8 DEF Chronicle, SoFar

(* What leaves the reports as they are, and a status once it is written. *)
LEMMA KeepsTheRecord ==
  ASSUME Chronicle, UNCHANGED <<config, panicked, hookPanicked, reports>>,
         wroteHeader => wroteHeader' /\ statusCode' = statusCode
  PROVE  /\ Entries' /\ Kinds' = Kinds
         /\ UpTo(1) => UpTo(1)'
         /\ UpTo(2) => UpTo(2)'
         /\ Ascending(Len(reports)) => Ascending(Len(reports))'
         /\ Ascending(Len(reports) - 1) => Ascending(Len(reports) - 1)'
<1>1. Entries'
  BY QuietEntries DEF Chronicle
<1> QED
  BY <1>1 DEF Kinds, UpTo, Ascending, Rank

LEMMA FallsBackTells ==
  ASSUME MiddlewareInv, Chronicle, FallsBack
  PROVE  Chronicle'
<1>1. /\ stage = "fallback" /\ stage' = "forced"
      /\ UNCHANGED <<config, panicked, hookPanicked, reports>>
  BY DEF FallsBack
<1>2. wroteHeader => wroteHeader' /\ statusCode' = statusCode
  BY DEF FallsBack, tracker
<1>3. Entries' /\ Kinds' = Kinds /\ Ascending(Len(reports))'
  BY <1>1, <1>2, KeepsTheRecord DEF Chronicle, InOrder
<1> QED
  BY <1>1, <1>3 DEF Chronicle, SoFar, InOrder, PanicListed, TransactionLast

(* The server, or nobody, moves. *)
LEMMA RestTells ==
  ASSUME MiddlewareInv, Chronicle, ServerFinishes \/ UNCHANGED vars
  PROVE  Chronicle'
<1>1. /\ stage' = stage \/ (stage = "served" /\ stage' = "end")
      /\ UNCHANGED <<config, panicked, hookPanicked, reports>>
      /\ UNCHANGED <<wroteHeader, statusCode, hijacked>>
  BY DEF ServerFinishes, vars, tracker
<1>2. Entries' /\ Kinds' = Kinds
  BY <1>1, KeepsTheRecord
<1>3. SoFar' /\ InOrder'
  BY <1>1, KeepsTheRecord DEF Chronicle, SoFar, InOrder
<1>4. PanicListed' /\ TransactionLast'
  BY <1>1, <1>2
     DEF Chronicle, PanicListed, TransactionLast, EndsWithTransaction, Report, StatusName
<1> QED
  BY <1>2, <1>3, <1>4 DEF Chronicle

(* Until the handler is done nothing has been reported. *)
LEMMA HandlerTells ==
  ASSUME MiddlewareInv, Chronicle, HandlerStep \/ BuildsContext
  PROVE  Chronicle'
<1>1. /\ stage \in {"arrives", "handler"} /\ stage' \in {"handler", "handled5xx", "recovered"}
      /\ UNCHANGED <<hookPanicked, reports>>
  <2>1. CASE HandlerStep
    BY <2>1
       DEF HandlerStep, HandlerReads, HandlerWritesHeader, HandlerWrites, HandlerFlushes,
           HandlerHijacks, HandlerReturns, HandlerPanics, closure
  <2>2. CASE BuildsContext
    BY <2>2 DEF BuildsContext
  <2> QED
    BY <2>1, <2>2
<1>2. reports' = <<>> /\ ~hookPanicked'
  BY <1>1 DEF Chronicle, SoFar
<1>3. Entries' /\ Ascending(Len(reports))' /\ UpTo(2)'
  BY <1>2 DEF Entries, Ascending, UpTo
<1> QED
  BY <1>1, <1>2, <1>3 DEF Chronicle, SoFar, InOrder, PanicListed, TransactionLast

LEMMA StepChronicle == MiddlewareInv /\ Chronicle /\ [Next]_vars => Chronicle'
<1> SUFFICES ASSUME MiddlewareInv, Chronicle, [Next]_vars PROVE Chronicle'
  OBVIOUS
<1>1. CASE MiddlewareStep
  BY <1>1, HandlerTells, CapturesHandled5xxTells, CapturesTransactionTells, RecoversTells,
     ForcedTells, FallsBackTells DEF MiddlewareStep
<1> QED
  BY <1>1, HandlerTells, RestTells DEF Next

THEOREM ChronicleHolds == Spec => []Chronicle
BY InitInv, StepInv, InitChronicle, StepChronicle, PTL DEF Spec

-----------------------------------------------------------------------------
(* The properties. *)

(* The variables keep their types.                                          *)
THEOREM TypeCorrect == Spec => []TypeOK
<1>1. MiddlewareInv => TypeOK
  BY DEF MiddlewareInv
<1> QED
  BY <1>1, Invariance, PTL

(* The observer knows the response: newResponseWriterTracker and its hooks. *)
THEOREM ObserverAgrees == Spec => []ObservedIsSent
<1>1. MiddlewareInv => ObservedIsSent
  BY DEF MiddlewareInv
<1> QED
  BY <1>1, Invariance, PTL

(* The kept body is the beginning of the response body, for any limit.      *)
THEOREM BodyIsKept == Spec => []SnippetIsPrefix
<1>1. MiddlewareInv => SnippetIsPrefix
  BY DEF MiddlewareInv
<1> QED
  BY <1>1, Invariance, PTL

(* The middleware does not touch a response the handler has begun or taken. *)
THEOREM HandlerOwnsResponse == Spec => LeavesResponseAlone
<1>1. MiddlewareInv /\ [Next]_vars =>
        [stage # "handler" /\ (status # 0 \/ taken) => UNCHANGED response]_vars
  <2> SUFFICES ASSUME MiddlewareInv, Next, stage # "handler", status # 0 \/ taken
               PROVE  UNCHANGED response
    OBVIOUS
  <2>1. CASE HandlerStep
    BY <2>1 DEF HandlerStep, HandlerReads, HandlerWritesHeader, HandlerWrites, HandlerFlushes,
                HandlerHijacks, HandlerReturns, HandlerPanics
  <2>2. CASE FallsBack
    <3>1. wroteHeader \/ hijacked
      BY <2>2 DEF FallsBack, MiddlewareInv, ObservedIsSent
    <3> QED
      BY <2>2, <3>1 DEF FallsBack
  <2>3. CASE MiddlewareStep /\ ~FallsBack
    BY <2>3 DEF MiddlewareStep, BuildsContext, CapturesHandled5xx, CapturesTransaction, Recovers,
                Repanics, CapturesForced
  <2>4. CASE ServerFinishes
    BY <2>4 DEF ServerFinishes, Implied, Answered, response
  <2> QED
    BY <2>1, <2>2, <2>3, <2>4 DEF Next
<1> QED
  BY <1>1, Invariance, PTL DEF Spec, LeavesResponseAlone

(* What a finished request has told, when no capture panicked.              *)
LEMMA IncidentCases ==
  ASSUME config \in Configs
  PROVE  /\ panicked /\ config.panics => Incident = <<Report("panic", 0, "unhandled")>>
         /\ ~panicked /\ config.handled5xx /\ statusCode >= 500 =>
              Incident = <<Report("5xx", statusCode, "handled")>>
         /\ \/ Incident = << >>
            \/ Incident = <<Report("panic", 0, "unhandled")>>
            \/ Incident = <<Report("5xx", statusCode, "handled")>>
BY DEF Incident

(* The status of a finished request and what ResponseStatus made of it.     *)
LEMMA FinalIsSent ==
  ASSUME MiddlewareInv, Over, ~hookPanicked
  PROVE  /\ Final = status
         /\ statusCode >= 500 => statusCode = status
         /\ ~panicked /\ status >= 500 => statusCode = status
<1>1. statusCode \in Nat /\ status \in Nat
  BY StatusCodeNat DEF MiddlewareInv
<1>2. CASE stage = "end"
  <2>1. /\ status = IF wroteHeader \/ hijacked THEN statusCode ELSE 200
        /\ wroteHeader <=> statusCode # 0
    BY <1>2 DEF MiddlewareInv, ServerCompletes
  <2>2. panicked => wroteHeader \/ hijacked
    BY <1>2 DEF MiddlewareInv, Answering
  <2> QED
    BY <1>1, <2>1, <2>2 DEF Final, ResponseStatus
<1>3. CASE stage = "aborted"
  <2>1. panicked /\ statusCode = status
    BY <1>3 DEF MiddlewareInv, Answering, ObservedIsSent
  <2> QED
    BY <1>1, <2>1 DEF Final, ResponseStatus
<1> QED
  BY <1>2, <1>3 DEF Over

(* At most one report precedes the transaction.                             *)
LEMMA IncidentIsShort ==
  /\ Len(Incident) \in {0, 1}
  /\ DOMAIN Incident = 1..Len(Incident)
  /\ \A i \in DOMAIN Incident : Incident[i].kind \in {"panic", "5xx"}
  /\ \A event : /\ Append(Incident, event)[Len(Incident) + 1] = event
                /\ DOMAIN Append(Incident, event) = 1..(Len(Incident) + 1)
                /\ \A i \in DOMAIN Incident : Append(Incident, event)[i] = Incident[i]
<1>1. PICK a, b : /\ a.kind = "panic" /\ b.kind = "5xx"
                  /\ Incident \in {<< >>, <<a>>, <<b>>}
  <2>1. /\ Report("panic", 0, "unhandled").kind = "panic"
        /\ Report("5xx", statusCode, "handled").kind = "5xx"
    BY DEF Report
  <2>2. Incident \in {<< >>, <<Report("panic", 0, "unhandled")>>,
                      <<Report("5xx", statusCode, "handled")>>}
    BY DEF Incident
  <2> QED
    BY <2>1, <2>2
<1>2. CASE Incident = << >>
  BY <1>2
<1>3. CASE Incident = <<a>>
  BY <1>1, <1>3
<1>4. CASE Incident = <<b>>
  BY <1>1, <1>4
<1> QED
  BY <1>1, <1>2, <1>3, <1>4

(* The report of a transaction, and its place.                              *)
TransactionReport == Report("transaction", Final, StatusName(Final))

(* The kinds of a told request.                                             *)
LEMMA KindsTold ==
  ASSUME NEW event, reports = Incident \/ reports = Append(Incident, event)
  PROVE  /\ \A i \in DOMAIN Incident : Incident[i].kind \in Kinds
         /\ reports = Append(Incident, event) => event.kind \in Kinds
<1>1. ASSUME reports = Append(Incident, event)
      PROVE  /\ event.kind \in Kinds
             /\ \A i \in DOMAIN Incident : Incident[i].kind \in Kinds
  <2>1. Len(Incident) + 1 \in DOMAIN reports /\ DOMAIN Incident \subseteq DOMAIN reports
    BY <1>1, IncidentIsShort
  <2>2. /\ reports[Len(Incident) + 1] = event
        /\ \A i \in DOMAIN Incident : reports[i] = Incident[i]
    BY <1>1, IncidentIsShort
  <2> QED
    BY <2>1, <2>2 DEF Kinds
<1>2. reports = Incident => \A i \in DOMAIN Incident : Incident[i].kind \in Kinds
  BY DEF Kinds
<1> QED
  BY <1>1, <1>2, Zenon

(* What a request has reported that is over and had no capture panic.       *)
LEMMA ToldInTheEnd ==
  ASSUME MiddlewareInv, Over, ~hookPanicked
  PROVE  \/ reports = Incident /\ (config.tx => ~panicked /\ Final < 500)
         \/ reports = Append(Incident, TransactionReport)
BY DEF MiddlewareInv, Told, Over, TransactionReport

(* A panic, of the handler or of a capture, and a 5xx of a handler that     *)
(* returned, are reported, and have their transaction at any sample rate.   *)
THEOREM FailuresAreReported == Spec => []FailuresReported
<1>1. MiddlewareInv /\ Chronicle /\ ~hookPanicked => FailuresReported
  <2> SUFFICES ASSUME MiddlewareInv, Over, ~hookPanicked
               PROVE  /\ panicked /\ config.panics => "panic" \in Kinds
                      /\ ~panicked /\ status >= 500 /\ config.handled5xx => "5xx" \in Kinds
                      /\ (panicked \/ status >= 500) /\ config.tx => "transaction" \in Kinds
    BY DEF FailuresReported, Over
  <2>1. \/ reports = Incident /\ (config.tx => ~panicked /\ Final < 500)
        \/ reports = Append(Incident, TransactionReport)
    BY ToldInTheEnd
  <2>2. /\ \A i \in DOMAIN Incident : Incident[i].kind \in Kinds
        /\ reports = Append(Incident, TransactionReport) => TransactionReport.kind \in Kinds
    BY <2>1, KindsTold
  <2>3. config \in Configs
    BY DEF MiddlewareInv, TypeOK
  <2>4. panicked /\ config.panics => "panic" \in Kinds
    <3> SUFFICES ASSUME panicked, config.panics PROVE "panic" \in Kinds
      OBVIOUS
    <3>1. Incident = <<Report("panic", 0, "unhandled")>>
      BY <2>3, IncidentCases
    <3>2. Incident[1].kind = "panic" /\ 1 \in DOMAIN Incident
      BY <3>1 DEF Report
    <3> QED
      BY <3>2, <2>2
  <2>5. ~panicked /\ status >= 500 /\ config.handled5xx => "5xx" \in Kinds
    <3> SUFFICES ASSUME ~panicked, status >= 500, config.handled5xx PROVE "5xx" \in Kinds
      OBVIOUS
    <3>1. statusCode >= 500
      BY FinalIsSent
    <3>2. Incident = <<Report("5xx", statusCode, "handled")>>
      BY <2>3, <3>1, IncidentCases
    <3>3. Incident[1].kind = "5xx" /\ 1 \in DOMAIN Incident
      BY <3>2 DEF Report
    <3> QED
      BY <3>3, <2>2
  <2>6. (panicked \/ status >= 500) /\ config.tx => "transaction" \in Kinds
    <3> SUFFICES ASSUME panicked \/ status >= 500, config.tx PROVE "transaction" \in Kinds
      OBVIOUS
    <3>1. Final = status /\ status \in Nat
      BY FinalIsSent, StatusCodeNat DEF MiddlewareInv
    <3>2. reports = Append(Incident, TransactionReport)
      BY <2>1, <3>1
    <3>3. TransactionReport.kind = "transaction"
      BY DEF TransactionReport, Report
    <3> QED
      BY <2>2, <3>2, <3>3
  <2> QED
    BY <2>4, <2>5, <2>6
<1>2. MiddlewareInv /\ Chronicle /\ hookPanicked => FailuresReported
  <2> SUFFICES ASSUME Chronicle, hookPanicked, stage = "end"
               PROVE  /\ config.panics => "panic" \in Kinds
                      /\ config.tx => "transaction" \in Kinds
    BY DEF FailuresReported
  <2>1. config.panics => "panic" \in Kinds
    BY DEF Chronicle, PanicListed
  <2>2. ASSUME config.tx PROVE "transaction" \in Kinds
    <3>1. /\ reports # <<>> /\ reports \in Seq(Event)
          /\ reports[Len(reports)] = Report("transaction", statusCode, StatusName(statusCode))
      BY <2>2 DEF Chronicle, TransactionLast, EndsWithTransaction, Entries
    <3>2. Len(reports) \in DOMAIN reports /\ reports[Len(reports)].kind = "transaction"
      BY <3>1 DEF Report
    <3> QED
      BY <3>2 DEF Kinds
  <2> QED
    BY <2>1, <2>2
<1>3. MiddlewareInv /\ Chronicle => FailuresReported
  BY <1>1, <1>2
<1> QED
  BY <1>3, Invariance, ChronicleHolds, PTL

(* A request reports one incident and one transaction at most, and after a  *)
(* capture that panicked a panic and a last transaction on top of them.     *)
THEOREM ReportsAreSingle == Spec => []ReportedOnce
<1>1. MiddlewareInv /\ ~hookPanicked => ReportedOnce
  <2> SUFFICES ASSUME MiddlewareInv, ~hookPanicked, NEW i \in DOMAIN reports,
                      NEW j \in DOMAIN reports, i < j
               PROVE  (reports[i].kind = "transaction") # (reports[j].kind = "transaction")
    BY DEF ReportedOnce
  <2>1. stage \in Stages
    BY DEF MiddlewareInv, TypeOK
  <2>2. \/ reports = << >> \/ reports = Incident
        \/ reports = Append(Incident, TransactionReport)
    BY <2>1 DEF MiddlewareInv, Told, Stages, TransactionReport
  <2>3. reports = Append(Incident, TransactionReport) /\ Len(Incident) = 1
    BY <2>2, IncidentIsShort
  <2>4. DOMAIN reports = {1, 2} /\ DOMAIN Incident = {1}
    BY <2>3, IncidentIsShort
  <2>5. reports[2].kind = "transaction" /\ reports[1].kind # "transaction"
    BY <2>3, <2>4, IncidentIsShort DEF TransactionReport, Report
  <2> QED
    BY <2>4, <2>5
<1>2. Chronicle /\ hookPanicked => ReportedOnce
  <2> SUFFICES ASSUME Chronicle, hookPanicked, NEW i \in DOMAIN reports,
                      NEW j \in DOMAIN reports, i < j, reports[i].kind = reports[j].kind
               PROVE  reports[j].kind = "transaction" /\ j = Len(reports)
    BY DEF ReportedOnce
  <2>1. DOMAIN reports = 1..Len(reports) /\ Len(reports) \in Nat
    BY DEF Chronicle, Entries
  <2>2. \A n \in Nat : Ascending(n) => ~(i \in 1..n /\ j \in 1..n)
    BY DEF Ascending, Rank
  <2>3. ~Ascending(Len(reports))
    BY <2>1, <2>2
  <2>4. /\ reports[Len(reports)].kind = "transaction" /\ reports # <<>>
        /\ Ascending(Len(reports) - 1)
    BY <2>3 DEF Chronicle, InOrder
  <2>5. j = Len(reports)
    <3> SUFFICES ASSUME j # Len(reports) PROVE FALSE
      OBVIOUS
    <3>1. Len(reports) - 1 \in Nat /\ i \in 1..(Len(reports) - 1) /\ j \in 1..(Len(reports) - 1)
      BY <2>1
    <3> QED
      BY <2>2, <2>4, <3>1
  <2> QED
    BY <2>4, <2>5
<1>3. MiddlewareInv /\ Chronicle => ReportedOnce
  BY <1>1, <1>2
<1> QED
  BY <1>3, Invariance, ChronicleHolds, PTL

(* A status the client was sent is not called ok unless it is.              *)
LEMMA OkIsOk ==
  ASSUME TypeOK, StatusName(status) = "ok"
  PROVE  status \in 100..399
<1>1. status \in Nat /\ (status = 0 \/ status >= 100)
  BY StatusCodeNat, HTTPMiddlewareAssumption DEF TypeOK, Statuses
<1> QED
  BY <1>1 DEF StatusName

(* A transaction and a 5xx report carry the status the client was sent,     *)
(* and after a capture that panicked the last transaction still does.       *)
THEOREM StatusIsTheClients == Spec => []ReportedStatusIsSent
<1>1. MiddlewareInv /\ ~hookPanicked => ReportedStatusIsSent
  <2> SUFFICES ASSUME MiddlewareInv, Over, ~hookPanicked, NEW i \in DOMAIN reports,
                      reports[i].kind \in {"5xx", "transaction"}
               PROVE  /\ reports[i].status = status
                      /\ reports[i].result = "ok" => status \in 100..399
    BY DEF ReportedStatusIsSent, CarriesStatus
  <2>2. \/ reports = Incident
        \/ reports = Append(Incident, TransactionReport)
    BY ToldInTheEnd
  <2>3. CASE i \in DOMAIN Incident
    <3>1. reports[i] = Incident[i]
      BY <2>2, <2>3, IncidentIsShort
    <3>2. Incident = <<Report("5xx", statusCode, "handled")>>
          /\ statusCode >= 500
      BY <3>1, <2>3 DEF Incident, Report
    <3>3. reports[i] = Report("5xx", statusCode, "handled")
      BY <3>1, <3>2, <2>3
    <3> QED
      BY <3>2, <3>3, FinalIsSent DEF Report
  <2>4. CASE i \notin DOMAIN Incident
    <3>1. reports[i] = TransactionReport
      BY <2>2, <2>4, IncidentIsShort
    <3>2. TransactionReport.status = status /\ TransactionReport.result = StatusName(status)
      BY FinalIsSent DEF TransactionReport, Report
    <3> QED
      BY <3>1, <3>2, OkIsOk DEF MiddlewareInv
  <2> QED
    BY <2>3, <2>4
<1>2. MiddlewareInv /\ Chronicle /\ hookPanicked => ReportedStatusIsSent
  <2> SUFFICES ASSUME MiddlewareInv, Chronicle, hookPanicked, Over,
                      NEW i \in DOMAIN reports, CarriesStatus(i)
               PROVE  /\ reports[i].status = status
                      /\ reports[i].result = "ok" => status \in 100..399
    BY DEF ReportedStatusIsSent
  <2>1. stage \in {"end", "aborted"}
    BY DEF Over
  <2>2. wroteHeader \/ hijacked => status = statusCode \/ stage = "aborted"
    BY DEF MiddlewareInv, ServerCompletes, ObservedIsSent
  <2>3. stage = "aborted" => status = statusCode
    BY DEF MiddlewareInv, ObservedIsSent
  <2>4. CASE reports[i].kind = "5xx"
    <3>1. wroteHeader /\ reports[i] = Report("5xx", statusCode, "handled")
      BY <2>4 DEF Chronicle, Entries, Entry
    <3>2. status = statusCode
      BY <2>1, <2>2, <2>3, <3>1
    <3> QED
      BY <3>1, <3>2 DEF Report
  <2>5. CASE reports[i].kind = "transaction" /\ stage = "end" /\ i = Len(reports)
    <3>1. wroteHeader \/ hijacked
      BY <2>5 DEF Chronicle, TransactionLast
    <3>2. config.tx
      BY <2>5 DEF Chronicle, Entries, Entry
    <3>3. reports[i] = Report("transaction", statusCode, StatusName(statusCode))
      BY <2>5, <3>2 DEF Chronicle, TransactionLast, EndsWithTransaction
    <3>4. status = statusCode
      BY <2>5, <2>2, <3>1
    <3> QED
      BY <3>3, <3>4, OkIsOk DEF Report, MiddlewareInv
  <2> QED
    BY <2>4, <2>5 DEF CarriesStatus
<1>3. MiddlewareInv /\ Chronicle => ReportedStatusIsSent
  BY <1>1, <1>2
<1> QED
  BY <1>3, Invariance, ChronicleHolds, PTL

-----------------------------------------------------------------------------
(* The body of the request. *)

(* A sequence is what has been read of it and what is left.                 *)
LEMMA ReadsJoin ==
  ASSUME NEW S, NEW s \in Seq(S), NEW n \in Nat, n <= Len(s)
  PROVE  /\ SubSeq(s, 1, n) \in Seq(S) /\ SubSeq(s, n + 1, Len(s)) \in Seq(S)
         /\ SubSeq(s, 1, n) \o SubSeq(s, n + 1, Len(s)) = s
<1>1. Len(s) \in Nat /\ \A i \in 1..Len(s) : s[i] \in S
  OBVIOUS
<1>2. SubSeq(s, 1, n) \in Seq(S)
  BY <1>1, SubSeqProperties
<1>3. SubSeq(s, n + 1, Len(s)) \in Seq(S)
  BY <1>1, SubSeqProperties
<1>4. 1 \in 1..Len(s) + 1 /\ n \in 1 - 1..Len(s) /\ Len(s) \in n..Len(s)
  BY <1>1
<1>5. SubSeq(s, 1, n) \o SubSeq(s, n + 1, Len(s)) = SubSeq(s, 1, Len(s))
  BY <1>4, ConcatAdjacentSubSeq
<1> QED
  BY <1>2, <1>3, <1>5, SubSeqFull

(* Reading on takes from what is left. *)
LEMMA ReadsOn ==
  ASSUME NEW S, NEW r \in Seq(S), NEW s \in Seq(S), NEW n \in Nat, n <= Len(s)
  PROVE  /\ r \o SubSeq(s, 1, n) \in Seq(S) /\ SubSeq(s, n + 1, Len(s)) \in Seq(S)
         /\ (r \o SubSeq(s, 1, n)) \o SubSeq(s, n + 1, Len(s)) = r \o s
<1>1. \A a, b \in Seq(S) : a \o b = s => r \o a \in Seq(S) /\ (r \o a) \o b = r \o s
  <2>1. SUFFICES ASSUME NEW a \in Seq(S), NEW b \in Seq(S), a \o b = s
                 PROVE  r \o a \in Seq(S) /\ (r \o a) \o b = r \o s
    OBVIOUS
  <2>2. r \o a \in Seq(S)
    BY ConcatProperties
  <2>3. (r \o a) \o b = r \o (a \o b)
    BY ConcatAssociative
  <2> QED
    BY <2>1, <2>2, <2>3
<1>2. /\ SubSeq(s, 1, n) \in Seq(S) /\ SubSeq(s, n + 1, Len(s)) \in Seq(S)
      /\ SubSeq(s, 1, n) \o SubSeq(s, n + 1, Len(s)) = s
  BY ReadsJoin
<1> QED
  BY <1>1, <1>2, Zenon

LEMMA InitRequest == Init => RequestInv
<1> SUFFICES ASSUME Init PROVE RequestInv
  OBVIOUS
<1>1. request.arriving \in Nat
  BY DEF Init, Requests
<1>2. Bytes(0, request.arriving) \in Seq(Nat)
  BY <1>1 DEF Bytes
<1>3. << >> \o Bytes(0, request.arriving) = Bytes(0, request.arriving) /\ << >> \in Seq(Nat)
  BY <1>2
<1> QED
  BY <1>2, <1>3 DEF Init, RequestInv, HandlerReadsTheBody

LEMMA StepRequest == RequestInv /\ [Next]_vars => RequestInv'
<1> SUFFICES ASSUME RequestInv, [Next]_vars PROVE RequestInv'
  OBVIOUS
<1> USE DEF RequestInv
<1>1. CASE BuildsContext
  <2> USE DEF BuildsContext
  <2>1. stage' = "handler" /\ request' = request /\ got' = << >>
        /\ rest = Bytes(0, request.arriving) /\ config' = config
        /\ WantsBody' = WantsBody /\ BreaksOff' = BreaksOff
    BY <1>1 DEF WantsBody, BreaksOff
  <2>2. << >> \o rest = rest /\ << >> \in Seq(Nat)
    OBVIOUS
  <2>3. CASE ~WantsBody
    BY <1>1, <2>1, <2>2, <2>3 DEF HandlerReadsTheBody
  <2>4. CASE WantsBody /\ BreaksOff
    BY <1>1, <2>1, <2>2, <2>4 DEF HandlerReadsTheBody, ReadsAll
  <2>5. CASE WantsBody /\ ~BreaksOff
    <3>1. request.arriving = request.length
      BY <2>5 DEF BreaksOff, Requests
    <3>2. params' = Bytes(0, request.length) /\ rest' = rest
      BY <1>1, <2>1, <2>5, <3>1 DEF ReadsAll
    <3> QED
      BY <2>1, <2>2, <3>2 DEF HandlerReadsTheBody
  <2> QED
    BY <2>3, <2>4, <2>5
<1>2. ASSUME NEW n \in 1..MaxRequest, HandlerReads(n)
      PROVE  RequestInv'
  <2>1. /\ got' = got \o SubSeq(rest, 1, n) /\ rest' = SubSeq(rest, n + 1, Len(rest))
        /\ n <= Len(rest) /\ n \in Nat
        /\ stage' = "handler" /\ UNCHANGED <<request, params, config>>
    BY <1>2 DEF HandlerReads
  <2>2. rest \in Seq(Nat) /\ got \in Seq(Nat)
    OBVIOUS
  <2>3. got' \in Seq(Nat) /\ rest' \in Seq(Nat) /\ got' \o rest' = got \o rest
    <3>1. /\ got \o SubSeq(rest, 1, n) \in Seq(Nat)
          /\ SubSeq(rest, n + 1, Len(rest)) \in Seq(Nat)
          /\ (got \o SubSeq(rest, 1, n)) \o SubSeq(rest, n + 1, Len(rest)) = got \o rest
      <4>1. \A r, s \in Seq(Nat), k \in Nat :
              k <= Len(s) =>
                /\ r \o SubSeq(s, 1, k) \in Seq(Nat) /\ SubSeq(s, k + 1, Len(s)) \in Seq(Nat)
                /\ (r \o SubSeq(s, 1, k)) \o SubSeq(s, k + 1, Len(s)) = r \o s
        BY ReadsOn
      <4>2. n \in Nat /\ n <= Len(rest)
        BY <2>1
      <4>3. \A k \in Nat :
              k <= Len(rest) =>
                /\ got \o SubSeq(rest, 1, k) \in Seq(Nat)
                /\ SubSeq(rest, k + 1, Len(rest)) \in Seq(Nat)
                /\ (got \o SubSeq(rest, 1, k)) \o SubSeq(rest, k + 1, Len(rest)) = got \o rest
        <5> HIDE DEF RequestInv
        <5> QED
          BY <2>2, <4>1, ZenonT(60)
      <4> HIDE DEF RequestInv
      <4> QED
        BY <4>2, <4>3, ZenonT(60)
    <3>2. got' \o rest' = (got \o SubSeq(rest, 1, n)) \o SubSeq(rest, n + 1, Len(rest))
      BY <2>1
    <3> QED
      BY <2>1, <3>1, <3>2
  <2>4. rest # << >>
    <3>1. n >= 1 /\ Len(rest) \in Nat
      BY <1>2
    <3>2. Len(rest) # 0
      BY <2>1, <3>1
    <3>3. Len(<< >>) = 0
      OBVIOUS
    <3> QED
      BY <3>2, <3>3, Zenon
  <2>5. got \o rest = Bytes(0, request.arriving)
    BY <2>4 DEF HandlerReadsTheBody
  <2>6. HandlerReadsTheBody'
    BY <2>1, <2>3, <2>5 DEF HandlerReadsTheBody
  <2> QED
    BY <2>1, <2>3, <2>6
<1>3. CASE ~BuildsContext /\ ~(\E n \in 1..MaxRequest : HandlerReads(n))
  <2>1. incoming' = incoming /\ config' = config /\ (stage' = "arrives" => stage = "arrives")
    <3>1. CASE HandlerStep
      BY <1>3, <3>1
         DEF HandlerStep, HandlerWritesHeader, HandlerWrites, HandlerFlushes,
             HandlerHijacks, HandlerReturns, HandlerPanics, closure
    <3>2. CASE MiddlewareStep
      <4>1. CASE CapturesHandled5xx \/ Recovers
        BY <4>1 DEF CapturesHandled5xx, Recovers, Reports, ReportsNothing
      <4>2. CASE CapturesTransaction \/ CapturesForced
        <5>1. CASE CapturesTransaction
          BY <5>1 DEF CapturesTransaction, CaptureTransaction, Reports, ReportsNothing
        <5>2. CASE CapturesForced
          BY <5>2 DEF CapturesForced, CaptureTransaction, Reports, ReportsNothing
        <5> QED
          BY <4>2, <5>1, <5>2
      <4>3. CASE FallsBack
        BY <4>3 DEF FallsBack
      <4>4. CASE Repanics
        BY <4>4 DEF Repanics, CaptureTransaction, Reports, ReportsNothing
      <4> QED
        BY <1>3, <3>2, <4>1, <4>2, <4>3, <4>4 DEF MiddlewareStep
    <3>3. CASE ServerFinishes \/ UNCHANGED vars
      BY <3>3 DEF ServerFinishes, vars
    <3> QED
      BY <3>1, <3>2, <3>3 DEF Next
  <2>2. UNCHANGED <<request, rest, got, params>>
    BY <2>1 DEF incoming
  <2> QED
    BY <2>1, <2>2 DEF HandlerReadsTheBody, WantsBody, BreaksOff
<1> QED
  BY <1>1, <1>2, <1>3

(* The handler reads the body the client sent, also after bodyParams has,   *)
(* for any length and any limit.                                            *)
THEOREM BodyIsShared == Spec => []HandlerReadsTheBody
<1>1. RequestInv => HandlerReadsTheBody
  BY DEF RequestInv
<1> QED
  BY <1>1, InitRequest, StepRequest, PTL DEF Spec
=============================================================================
