------------------------ MODULE GRPCInterceptorProofs ------------------------
(***************************************************************************)
(* Theorems of GRPCInterceptor, for any codes and any ShouldCapture.       *)
(***************************************************************************)
EXTENDS GRPCInterceptorInv, SequenceTheorems, TLAPS

USE GRPCInterceptorAssumption

LEMMA InitInv == Init => InterceptorInv
BY DEF Init, InterceptorInv, TypeOK, Stages, Progress, AnswerStands, Told

LEMMA AppendOne ==
  ASSUME NEW r, NEW t PROVE Append(<< >>, t) = <<t>> /\ Append(<<r>>, t) = <<r, t>>
<1>1. << >> \in Seq({r, t}) /\ <<r>> \in Seq({r, t})
  OBVIOUS
<1>2. Len(<< >>) = 0 /\ Len(<<r>>) = 1
  OBVIOUS
<1>3. Append(<< >>, t) = <<t>>
  BY <1>1, <1>2
<1>4. Append(<<r>>, t) = <<r, t>>
  <2>1. /\ Append(<<r>>, t) \in Seq({r, t}) /\ Len(Append(<<r>>, t)) = 2
        /\ Append(<<r>>, t)[1] = r /\ Append(<<r>>, t)[2] = t
    BY <1>1, <1>2
  <2>2. <<r, t>> \in Seq({r, t}) /\ Len(<<r, t>>) = 2
    OBVIOUS
  <2>3. <<r, t>>[1] = r /\ <<r, t>>[2] = t
    OBVIOUS
  <2>4. \A i \in 1..2 : Append(<<r>>, t)[i] = <<r, t>>[i]
    BY <2>1, <2>3
  <2> QED
    BY <2>1, <2>2, <2>4, SeqEqual
<1> QED
  BY <1>3, <1>4

(* An incident depends on what the handler did alone. *)
LEMMA SameIncident ==
  ASSUME UNCHANGED <<config, code>> PROVE Incident' = Incident /\ Answered' = Answered
BY DEF Incident, Answered

(* The two readings of an error.  One that has a status is its code. *)
LEMMA Readings ==
  ASSUME NEW e \in Errors
  PROVE  /\ StatusCode(e) \in Codes /\ StatusCode(e) # "none"
         /\ e \notin ContextErrors => StatusCode(e) = e /\ ServedCode(e) = e
         /\ e \in ContextErrors => StatusCode(e) = "Unknown" /\ ServedCode(e) # "Unknown"
         /\ StatusCode(e) = "OK" <=> ServedCode(e) = "OK"
         /\ e # "none" /\ e # "panic"
BY DEF Errors, ContextErrors, StatusCode, ServedCode

LEMMA HandlerReturnsInv ==
  ASSUME InterceptorInv, NEW e \in Errors, HandlerReturns(e) PROVE InterceptorInv'
<1> USE DEF HandlerReturns
<1>1. TypeOK' /\ Progress'
  BY Readings DEF InterceptorInv, TypeOK, Stages, Progress
<1>2. AnswerStands' /\ Told'
  BY DEF InterceptorInv, AnswerStands, Told
<1> QED
  BY <1>1, <1>2 DEF InterceptorInv

LEMMA HandlerPanicsInv ==
  ASSUME InterceptorInv, HandlerPanics PROVE InterceptorInv'
<1> USE DEF HandlerPanics
<1>1. TypeOK' /\ Progress'
  BY DEF InterceptorInv, TypeOK, Stages, Progress
<1>2. AnswerStands' /\ Told'
  BY DEF InterceptorInv, AnswerStands, Told
<1> QED
  BY <1>1, <1>2 DEF InterceptorInv

LEMMA CapturesErrorInv ==
  ASSUME InterceptorInv, CapturesError PROVE InterceptorInv'
<1>0. /\ stage = "error" /\ code \in Codes /\ hookPanics = 0 /\ outcome = "none"
      /\ reports = << >> /\ UNCHANGED <<config, err, code, outcome>>
  BY DEF CapturesError, InterceptorInv, Progress, Told
<1>1. \/ /\ stage' = "transaction" /\ hookPanics' = 0
         /\ reports' = IF code \in config.capture
                         THEN <<Report("error", code, "handled")>> ELSE << >>
      \/ stage' = "recovered" /\ hookPanics' = 1
  BY <1>0 DEF CapturesError, Reports, ReportsNothing, Unwinds
<1>2. TypeOK' /\ Progress'
  BY <1>0, <1>1 DEF InterceptorInv, TypeOK, Stages, Progress
<1>3. AnswerStands'
  BY <1>1 DEF AnswerStands
<1>4. Told'
  BY <1>0, <1>1 DEF Told, Incident
<1> QED
  BY <1>2, <1>3, <1>4 DEF InterceptorInv

LEMMA CapturesTransactionInv ==
  ASSUME InterceptorInv, CapturesTransaction PROVE InterceptorInv'
<1>0. /\ stage = "transaction" /\ code \in Codes /\ hookPanics = 0 /\ outcome = "none"
      /\ reports = Incident /\ UNCHANGED <<config, err, code>>
  BY DEF CapturesTransaction, InterceptorInv, Progress, Told
<1>1. \/ /\ stage' = "end" /\ hookPanics' = 0 /\ outcome' = err
         /\ \/ /\ reports' = reports
               /\ config.tx => code \notin config.capture
            \/ reports' = Append(reports, Transaction(code))
      \/ stage' = "recovered" /\ hookPanics' = 1 /\ outcome' = "none"
  <2>1. CASE \E capture \in ShouldCapture(code) :
               IF config.tx /\ capture THEN Reports(Transaction(code), "end")
                                       ELSE ReportsNothing("end")
    <3>1. PICK capture \in ShouldCapture(code) :
            IF config.tx /\ capture THEN Reports(Transaction(code), "end")
                                    ELSE ReportsNothing("end")
      BY <2>1
    <3>2. stage' = "end" /\ hookPanics' = 0 /\ outcome' = err
      BY <1>0, <2>1, <3>1 DEF CapturesTransaction, Reports, ReportsNothing, Unwinds
    <3>3. CASE config.tx /\ capture
      BY <3>1, <3>2, <3>3 DEF Reports
    <3>4. CASE ~(config.tx /\ capture)
      <4>1. config.tx => code \notin config.capture
        BY <3>4 DEF ShouldCapture
      <4>2. reports' = reports
        BY <3>1, <3>4 DEF ReportsNothing
      <4> QED
        BY <3>2, <4>1, <4>2
    <3> QED
      BY <3>3, <3>4
  <2>2. CASE hookPanics' = hookPanics + 1 /\ stage' = "recovered" /\ UNCHANGED outcome
    BY <1>0, <2>2
  <2> QED
    BY <2>1, <2>2 DEF CapturesTransaction, Unwinds
<1>2. TypeOK' /\ Progress'
  BY <1>0, <1>1 DEF InterceptorInv, TypeOK, Stages, Progress
<1>3. AnswerStands'
  <2>1. err \in Errors
    BY <1>0 DEF InterceptorInv, TypeOK, Progress
  <2>2. err # "panic" /\ code # "none" /\ err' = err
    BY <1>0, <2>1, Readings
  <2> QED
    BY <1>0, <1>1, <2>2 DEF AnswerStands
<1>4. Answered = code /\ Incident' = Incident /\ Answered' = code /\ HandedOn' = err
  <2>1. err # "none" /\ code # "none"
    BY <1>0 DEF InterceptorInv, Progress
  <2> QED
    BY <1>0, <2>1, SameIncident DEF Answered, HandedOn
<1>5. Transaction(Answered)' = Transaction(code)
  BY <1>4 DEF Transaction, Report, StatusFromCode
<1>6. Told'
  BY <1>0, <1>1, <1>4, <1>5 DEF Told
<1> QED
  BY <1>2, <1>3, <1>6 DEF InterceptorInv

LEMMA RecoversInv ==
  ASSUME InterceptorInv, Recovers PROVE InterceptorInv'
<1>0. /\ stage = "recovered" /\ outcome = "none" /\ UNCHANGED <<config, err, code>>
      /\ hookPanics = IF code = "none" THEN 0 ELSE 1
      /\ hookPanics = 0 => reports = << >>
  BY DEF Recovers, InterceptorInv, Progress, Told
<1>1. \/ /\ stage' = "internal" /\ hookPanics' = hookPanics /\ outcome' = "none"
         /\ reports' = IF config.panics
                         THEN Append(reports, Report("panic", "none", "unhandled"))
                         ELSE reports
      \/ stage' = "end" /\ hookPanics' = hookPanics + 1 /\ outcome' = "panic"
  BY <1>0 DEF Recovers, Reports, ReportsNothing, Unwinds
<1>2. TypeOK' /\ Progress'
  BY <1>0, <1>1 DEF InterceptorInv, TypeOK, Stages, Progress
<1>3. AnswerStands'
  BY <1>0, <1>1 DEF AnswerStands
<1>4. Told'
  <2> SUFFICES ASSUME hookPanics' = 0 PROVE Told'
    BY DEF Told
  <2>1. /\ code = "none" /\ reports = << >> /\ stage' = "internal"
        /\ Incident' = Incident
    BY <1>0, <1>1, SameIncident
  <2>2. reports' = Incident
    BY <1>1, <2>1, AppendOne DEF Incident
  <2> QED
    BY <2>1, <2>2 DEF Told
<1> QED
  BY <1>2, <1>3, <1>4 DEF InterceptorInv

LEMMA AnswersInv ==
  ASSUME InterceptorInv, Answers PROVE InterceptorInv'
<1>0. /\ stage = "internal" /\ UNCHANGED <<config, err, code>>
      /\ hookPanics = IF code = "none" THEN 0 ELSE 1
      /\ hookPanics = 0 => reports = Incident
  BY DEF Answers, InterceptorInv, Progress, Told
<1>1. \/ /\ stage' = "end" /\ hookPanics' = hookPanics
         /\ outcome' = IF config.repanic THEN "panic" ELSE "Internal"
         /\ reports' = IF config.tx THEN Append(reports, Transaction("Internal"))
                                    ELSE reports
      \/ stage' = "end" /\ hookPanics' = hookPanics + 1 /\ outcome' = "panic"
  BY <1>0 DEF Answers, Reports, ReportsNothing, Unwinds
<1>2. TypeOK' /\ Progress'
  BY <1>0, <1>1 DEF InterceptorInv, TypeOK, Stages, Progress, Errors
<1>3. AnswerStands'
  BY <1>0, <1>1 DEF AnswerStands
<1>4. hookPanics' = 0 => code = "none" /\ Answered = "Internal" /\ HandedOn' = "Internal"
  <2>1. code = "none" => err = "none"
    BY <1>0, Readings DEF InterceptorInv, TypeOK, Progress
  <2> QED
    BY <1>0, <1>1, <2>1 DEF Answered, HandedOn
<1>5. Incident' = Incident /\ Answered' = Answered
  BY <1>0, SameIncident
<1>6. hookPanics' = 0 => Transaction(Answered)' = Transaction("Internal")
  BY <1>4, <1>5 DEF Transaction, Report, StatusFromCode
<1>7. Told'
  BY <1>0, <1>1, <1>4, <1>5, <1>6 DEF Told
<1> QED
  BY <1>2, <1>3, <1>7 DEF InterceptorInv

LEMMA StepInv == InterceptorInv /\ [Next]_vars => InterceptorInv'
<1> SUFFICES ASSUME InterceptorInv, [Next]_vars PROVE InterceptorInv'
  OBVIOUS
<1>1. CASE Next
  BY <1>1, HandlerReturnsInv, HandlerPanicsInv, CapturesErrorInv, CapturesTransactionInv,
     RecoversInv, AnswersInv DEF Next
<1>2. CASE UNCHANGED vars
  <2>1. Incident' = Incident /\ Transaction(Answered)' = Transaction(Answered)
        /\ Answered' = Answered /\ HandedOn' = HandedOn
    BY <1>2 DEF vars, HandedOn, Incident, Transaction, Answered, Report, StatusFromCode
  <2> QED
    BY <1>2, <2>1 DEF vars, InterceptorInv, TypeOK, Progress, AnswerStands, Told
<1> QED
  BY <1>1, <1>2

(* Every reachable state of a call satisfies the inductive invariant.       *)
THEOREM Invariance == Spec => []InterceptorInv
BY InitInv, StepInv, PTL DEF Spec

-----------------------------------------------------------------------------
(* The reports, whatever a capture does. *)

LEMMA NothingTold ==
  ASSUME reports = <<>>
  PROVE  Entries /\ Ascending(Len(reports)) /\ UpTo(1) /\ UpTo(2)
<1>1. DOMAIN reports = {} /\ Len(reports) = 0 /\ reports \in Seq(Event)
  OBVIOUS
<1> QED
  BY <1>1 DEF Entries, Ascending, UpTo

LEMMA InitChronicle == Init => Chronicle
BY NothingTold DEF Init, Chronicle, SoFar, InOrder, PanicListed, TransactionLast

(* A report comes after the others. *)
LEMMA AddsReport ==
  ASSUME Entries, NEW event \in Event, event.kind = "transaction" => config.tx,
         config' = config, reports' = Append(reports, event)
  PROVE  /\ Entries'
         /\ reports' # <<>> /\ reports'[Len(reports')] = event
         /\ Ascending(Len(reports)) => Ascending(Len(reports) - 1)'
         /\ event.kind \in Kinds' /\ Kinds \subseteq Kinds'
<1>1. /\ reports' \in Seq(Event)
      /\ Len(reports) \in Nat /\ Len(reports') = Len(reports) + 1
      /\ DOMAIN reports = 1..Len(reports) /\ DOMAIN reports' = 1..Len(reports')
      /\ \A i \in DOMAIN reports : reports'[i] = reports[i]
      /\ reports'[Len(reports')] = event
  BY DEF Entries
<1>2. \A i \in DOMAIN reports' : i \in DOMAIN reports \/ i = Len(reports')
  BY <1>1
<1>3. Entries'
  <2> SUFFICES ASSUME NEW i \in DOMAIN reports', reports'[i].kind = "transaction"
               PROVE  config'.tx
    BY <1>1 DEF Entries
  <2> QED
    BY <1>1, <1>2 DEF Entries
<1>4. Ascending(Len(reports)) => Ascending(Len(reports) - 1)'
  BY <1>1 DEF Ascending, Rank
<1>5. event.kind \in Kinds'
  <2>1. Len(reports') \in DOMAIN reports'
    BY <1>1
  <2> QED
    BY <1>1, <2>1 DEF Kinds
<1>6. Kinds \subseteq Kinds'
  <2>1. \A i \in DOMAIN reports : i \in DOMAIN reports' /\ reports'[i] = reports[i]
    BY <1>1
  <2> QED
    BY <2>1 DEF Kinds
<1> QED
  BY <1>1, <1>3, <1>4, <1>5, <1>6

(* And if it ranks above them, the order holds.                             *)
LEMMA AddsHigher ==
  ASSUME Entries, NEW event \in Event, reports' = Append(reports, event),
         Ascending(Len(reports)), UpTo(Rank(event.kind) - 1)
  PROVE  Ascending(Len(reports))' /\ UpTo(Rank(event.kind))'
<1>1. /\ Len(reports) \in Nat /\ Len(reports') = Len(reports) + 1
      /\ DOMAIN reports = 1..Len(reports) /\ DOMAIN reports' = 1..Len(reports')
      /\ \A i \in DOMAIN reports : reports'[i] = reports[i]
      /\ reports'[Len(reports')] = event
  BY DEF Entries
<1>2. Rank(event.kind) \in Nat /\ \A i \in DOMAIN reports : Rank(reports[i].kind) \in Nat
  BY DEF Rank
<1>3. \A i \in DOMAIN reports : Rank(reports'[i].kind) < Rank(event.kind)
  BY <1>1, <1>2 DEF UpTo
<1>4. UpTo(Rank(event.kind))'
  <2> SUFFICES ASSUME NEW i \in DOMAIN reports'
               PROVE  Rank(reports'[i].kind) <= Rank(event.kind)
    BY DEF UpTo, Rank
  <2>1. i \in DOMAIN reports \/ i = Len(reports')
    BY <1>1
  <2> QED
    BY <1>1, <1>2, <1>3, <2>1
<1>5. Ascending(Len(reports))'
  <2> SUFFICES ASSUME NEW i \in 1..Len(reports'), NEW j \in 1..Len(reports'), i < j
               PROVE  Rank(reports'[i].kind) < Rank(reports'[j].kind)
    BY DEF Ascending, Rank
  <2>1. i \in DOMAIN reports
    BY <1>1
  <2>2. CASE j = Len(reports')
    BY <1>1, <1>3, <2>1, <2>2
  <2>3. CASE j # Len(reports')
    <3>1. j \in 1..Len(reports) /\ i \in 1..Len(reports)
      BY <1>1, <2>1, <2>3
    <3> QED
      BY <1>1, <3>1 DEF Ascending
  <2> QED
    BY <2>2, <2>3
<1> QED
  BY <1>4, <1>5

LEMMA QuietChronicle ==
  ASSUME Entries, UNCHANGED <<config, reports>>
  PROVE  /\ Entries' /\ Kinds' = Kinds
         /\ UpTo(1) => UpTo(1)'
         /\ UpTo(2) => UpTo(2)'
         /\ Ascending(Len(reports)) => Ascending(Len(reports))'
         /\ Ascending(Len(reports) - 1) => Ascending(Len(reports) - 1)'
BY DEF Entries, Kinds, UpTo, Ascending, Rank

LEMMA CapturesErrorTells ==
  ASSUME InterceptorInv, Chronicle, CapturesError PROVE Chronicle'
<1>0. PICK event : event = Report("error", code, "handled")
  OBVIOUS
<1>1. /\ stage = "error" /\ code \in Codes /\ hookPanics = 0
      /\ reports = <<>> /\ UNCHANGED <<config, code>>
  BY DEF CapturesError, InterceptorInv, Progress, Chronicle, SoFar
<1>2. /\ reports' = reports \/ reports' = Append(reports, event)
      /\ stage' \in {"transaction", "recovered"}
  BY <1>0 DEF CapturesError, Reports, ReportsNothing, Unwinds
<1>3. Entries' /\ Ascending(Len(reports))' /\ UpTo(1)' /\ UpTo(2)'
  <2>1. CASE reports' = reports
    BY <1>1, <2>1, NothingTold, QuietChronicle
  <2>2. CASE reports' = Append(reports, event)
    <3>1. event \in Event /\ event.kind = "error"
      BY <1>0, <1>1 DEF Event, Report
    <3>2. Rank(event.kind) = 1
      BY <3>1 DEF Rank
    <3>3. Entries /\ Ascending(Len(reports)) /\ UpTo(Rank(event.kind) - 1)
      BY <1>1, NothingTold DEF UpTo
    <3>4. Entries'
      BY <1>1, <2>2, <3>1, <3>3, AddsReport
    <3>5. Ascending(Len(reports))' /\ UpTo(Rank(event.kind))'
      BY <2>2, <3>1, <3>3, AddsHigher
    <3>6. UpTo(1)' /\ UpTo(2)'
      BY <3>2, <3>5 DEF UpTo, Rank
    <3> QED
      BY <3>4, <3>5, <3>6
  <2> QED
    BY <1>2, <2>1, <2>2
<1> QED
  BY <1>2, <1>3 DEF Chronicle, SoFar, InOrder, PanicListed, TransactionLast

LEMMA TransactionTyped ==
  ASSUME NEW c \in Codes
  PROVE  /\ Transaction(c) \in Event /\ Transaction(c).kind = "transaction"
         /\ Rank(Transaction(c).kind) = 2
BY DEF Transaction, Event, Report, StatusFromCode, Rank

LEMMA CapturesTransactionTells ==
  ASSUME InterceptorInv, Chronicle, CapturesTransaction PROVE Chronicle'
<1>0. PICK event : event = Transaction(code)
  OBVIOUS
<1>1. /\ stage = "transaction" /\ code \in Codes /\ code # "none" /\ hookPanics = 0
      /\ Entries /\ UpTo(1) /\ Ascending(Len(reports)) /\ UNCHANGED <<config, code>>
  BY DEF CapturesTransaction, InterceptorInv, Progress, Chronicle, SoFar, InOrder
<1>2. /\ reports' = reports \/ (reports' = Append(reports, event) /\ config.tx)
      /\ \/ stage' = "end" /\ hookPanics' = hookPanics
         \/ stage' = "recovered"
  <2>1. CASE \E capture \in ShouldCapture(code) :
               IF config.tx /\ capture THEN Reports(event, "end") ELSE ReportsNothing("end")
    BY <2>1 DEF Reports, ReportsNothing
  <2>2. CASE config.tx /\ Unwinds(IF TRUE \in ShouldCapture(code) THEN {event} ELSE {}, "recovered")
    BY <2>2 DEF Unwinds
  <2> QED
    BY <1>0, <2>1, <2>2 DEF CapturesTransaction
<1>3. Entries' /\ Ascending(Len(reports))' /\ UpTo(2)'
  <2>1. CASE reports' = reports
    <3>1. UpTo(2)
      BY <1>1 DEF UpTo, Rank
    <3> QED
      BY <1>1, <2>1, <3>1, QuietChronicle
  <2>2. CASE reports' = Append(reports, event) /\ config.tx
    <3>1. event \in Event /\ Rank(event.kind) = 2
      BY <1>0, <1>1, TransactionTyped
    <3>2. Entries'
      BY <1>1, <2>2, <3>1, AddsReport
    <3> QED
      BY <1>1, <2>2, <3>1, <3>2, AddsHigher
  <2> QED
    BY <1>2, <2>1, <2>2
<1>4. ~(stage' = "end" /\ Recovered')
  BY <1>1, <1>2 DEF Recovered
<1> QED
  BY <1>2, <1>3, <1>4 DEF Chronicle, SoFar, InOrder, PanicListed, TransactionLast

LEMMA RecoversTells ==
  ASSUME InterceptorInv, Chronicle, Recovers PROVE Chronicle'
<1>0. PICK event : event = Report("panic", "none", "unhandled")
  OBVIOUS
<1>1. /\ stage = "recovered" /\ hookPanics = (IF code = "none" THEN 0 ELSE 1)
      /\ Entries /\ UpTo(2) /\ Ascending(Len(reports)) /\ UNCHANGED <<config, code>>
  BY DEF Recovers, InterceptorInv, Progress, Chronicle, SoFar, InOrder
<1>2. /\ reports' = reports \/ reports' = Append(reports, event)
      /\ stage' = "internal" /\ config.panics => reports' = Append(reports, event)
      /\ stage' = "internal" \/ (stage' = "end" /\ hookPanics' = hookPanics + 1)
  BY <1>0 DEF Recovers, Reports, ReportsNothing, Unwinds
<1>3. event \in Event /\ event.kind = "panic"
  BY <1>0 DEF Event, Report
<1>4. Entries' /\ Ascending(Len(reports))'
  <2>1. CASE reports' = reports
    BY <1>1, <2>1, QuietChronicle
  <2>2. CASE reports' = Append(reports, event)
    <3>1. Rank(event.kind) = 3
      BY <1>3 DEF Rank
    <3>2. Entries'
      BY <1>1, <1>3, <2>2, AddsReport
    <3> QED
      BY <1>1, <1>3, <2>2, <3>1, <3>2, AddsHigher
  <2> QED
    BY <1>2, <2>1, <2>2
<1>5. stage' = "internal" /\ config.panics => "panic" \in Kinds'
  BY <1>1, <1>2, <1>3, AddsReport
<1>6. ~(stage' = "end" /\ Recovered')
  BY <1>1, <1>2 DEF Recovered
<1>7. PanicListed' /\ TransactionLast'
  BY <1>1, <1>5, <1>6 DEF PanicListed, TransactionLast
<1> QED
  BY <1>2, <1>4, <1>7 DEF Chronicle, SoFar, InOrder

(* The transaction of the deferred function may be a second one. *)
LEMMA AnswersTells ==
  ASSUME InterceptorInv, Chronicle, Answers PROVE Chronicle'
<1>0. PICK event : event = Transaction("Internal")
  OBVIOUS
<1>1. /\ stage = "internal" /\ hookPanics = (IF code = "none" THEN 0 ELSE 1)
      /\ Entries /\ Ascending(Len(reports)) /\ UNCHANGED <<config, code>>
      /\ config.panics => "panic" \in Kinds
  BY DEF Answers, InterceptorInv, Progress, Chronicle, InOrder, PanicListed
<1>2. /\ reports' = reports \/ (reports' = Append(reports, event) /\ config.tx)
      /\ stage' = "end"
  BY <1>0 DEF Answers, Reports, ReportsNothing, Unwinds
<1>3. hookPanics' = hookPanics /\ config.tx => reports' = Append(reports, event)
  <2>1. hookPanics \in Nat
    BY <1>1
  <2> QED
    BY <1>0, <2>1 DEF Answers, Reports, Unwinds
<1>4. event \in Event /\ event.kind = "transaction"
  BY <1>0, TransactionTyped
<1>5. Entries' /\ InOrder' /\ Kinds \subseteq Kinds'
  <2>1. CASE reports' = reports
    BY <1>1, <2>1, QuietChronicle DEF InOrder
  <2>2. CASE reports' = Append(reports, event) /\ config.tx
    BY <1>1, <1>2, <1>4, <2>2, AddsReport DEF InOrder
  <2> QED
    BY <1>2, <2>1, <2>2
<1>6. PanicListed'
  BY <1>1, <1>5 DEF PanicListed
<1>7. TransactionLast'
  <2> SUFFICES ASSUME Recovered', config.tx
               PROVE  reports' # <<>> /\ reports'[Len(reports')] = Transaction("Internal")'
    BY <1>1 DEF TransactionLast
  <2>1. reports' = Append(reports, event)
    BY <1>1, <1>3 DEF Recovered
  <2>2. reports' # <<>> /\ reports'[Len(reports')] = event
    BY <1>1, <1>4, <2>1, AddsReport
  <2> QED
    BY <1>0, <2>2 DEF Transaction, Report, StatusFromCode
<1> QED
  BY <1>2, <1>5, <1>6, <1>7 DEF Chronicle, SoFar

(* The handler, or nobody, moves. *)
LEMMA RestTells ==
  ASSUME InterceptorInv, Chronicle,
         (\E e \in Errors : HandlerReturns(e)) \/ HandlerPanics \/ UNCHANGED vars
  PROVE  Chronicle'
<1>1. CASE UNCHANGED vars
  <2>1. UNCHANGED <<config, stage, code, hookPanics, reports>>
    BY <1>1 DEF vars
  <2>2. Entries' /\ Kinds' = Kinds
    BY <2>1, QuietChronicle DEF Chronicle
  <2>3. SoFar' /\ InOrder'
    BY <2>1, QuietChronicle DEF Chronicle, SoFar, InOrder
  <2>4. PanicListed' /\ TransactionLast'
    BY <2>1, <2>2
       DEF Chronicle, PanicListed, TransactionLast, Recovered, Transaction, Report, StatusFromCode
  <2> QED
    BY <2>2, <2>3, <2>4 DEF Chronicle
<1>2. CASE (\E e \in Errors : HandlerReturns(e)) \/ HandlerPanics
  <2>1. reports' = <<>> /\ stage' \in {"error", "recovered"} /\ reports = <<>>
        /\ config' = config
    BY <1>2 DEF HandlerReturns, HandlerPanics, Chronicle, SoFar
  <2>2. Entries' /\ Ascending(Len(reports))' /\ UpTo(2)'
    BY <2>1, NothingTold, QuietChronicle
  <2> QED
    BY <2>1, <2>2 DEF Chronicle, SoFar, InOrder, PanicListed, TransactionLast
<1> QED
  BY <1>1, <1>2

LEMMA StepChronicle == InterceptorInv /\ Chronicle /\ [Next]_vars => Chronicle'
BY CapturesErrorTells, CapturesTransactionTells, RecoversTells, AnswersTells, RestTells DEF Next

THEOREM ChronicleHolds == Spec => []Chronicle
BY InitInv, StepInv, InitChronicle, StepChronicle, PTL DEF Spec

-----------------------------------------------------------------------------
(* The properties. *)

(* The variables keep their types, and no call sees three hooks panic.      *)
THEOREM TypeCorrect == Spec => []TypeOK
<1>1. InterceptorInv => TypeOK
  BY DEF InterceptorInv
<1> QED
  BY <1>1, Invariance, PTL

(* The handler's answer stands, and the process survives one panic.         *)
THEOREM AnswersAreTheHandlers == Spec => []AnswerStands
<1>1. InterceptorInv => AnswerStands
  BY DEF InterceptorInv
<1> QED
  BY <1>1, Invariance, PTL

(* The incident of a call is one report at most.                            *)
LEMMA IncidentCases ==
  \E r : /\ Incident = << >> \/ Incident = <<r>>
         /\ \/ r = Report("panic", "none", "unhandled") /\ code = "none"
            \/ r = Report("error", code, "handled") /\ code # "none"
<1>1. CASE code = "none"
  BY <1>1 DEF Incident
<1>2. CASE code # "none"
  BY <1>2 DEF Incident
<1> QED
  BY <1>1, <1>2

(* What a call none of whose captures panicked has reported: its incident,  *)
(* its transaction, both or nothing, the transaction last.                  *)
LEMMA ReportsCases ==
  ASSUME InterceptorInv, hookPanics = 0
  PROVE  \E r :
           /\ \/ r = Report("panic", "none", "unhandled") /\ code = "none"
              \/ r = Report("error", code, "handled") /\ code # "none"
           /\ \/ reports = << >> \/ reports = <<r>>
              \/ stage = "end" /\ reports = <<Transaction(Answered)>>
              \/ stage = "end" /\ reports = <<r, Transaction(Answered)>>
<1>1. PICK r : /\ Incident = << >> \/ Incident = <<r>>
               /\ \/ r = Report("panic", "none", "unhandled") /\ code = "none"
                  \/ r = Report("error", code, "handled") /\ code # "none"
  BY IncidentCases
<1>2. \/ reports = << >> \/ reports = Incident
      \/ stage = "end" /\ reports = Append(Incident, Transaction(Answered))
  BY DEF InterceptorInv, TypeOK, Stages, Told
<1>3. CASE Incident = << >>
  <2>1. Append(Incident, Transaction(Answered)) = <<Transaction(Answered)>>
    BY <1>3
  <2> QED
    BY <1>1, <1>2, <1>3, <2>1
<1>4. CASE Incident = <<r>>
  <2>1. Append(Incident, Transaction(Answered)) = <<r, Transaction(Answered)>>
    BY <1>4, AppendOne
  <2> QED
    BY <1>1, <1>2, <1>4, <2>1
<1> QED
  BY <1>1, <1>3, <1>4

(* A panic, of the handler or of a capture, and an error that ShouldCapture *)
(* names, are reported and have their transaction at any sample rate.       *)
THEOREM FailuresAreReported == Spec => []FailuresReported
<1>1. InterceptorInv /\ hookPanics = 0 => FailuresReported
  <2> SUFFICES ASSUME InterceptorInv, stage = "end", hookPanics = 0
               PROVE  /\ code = "none" /\ config.panics => "panic" \in Kinds
                      /\ code \in config.capture => "error" \in Kinds
                      /\ (code = "none" \/ code \in config.capture) /\ config.tx =>
                           "transaction" \in Kinds
    BY DEF FailuresReported, Recovered
  <2>0. "none" \notin config.capture
    BY DEF InterceptorInv, TypeOK, Configs
  <2>1. \/ reports = Incident /\ (config.tx => code \in Codes /\ code \notin config.capture)
        \/ reports = Append(Incident, Transaction(Answered))
    BY DEF InterceptorInv, Told
  <2>2. Transaction(Answered).kind = "transaction"
    BY DEF Transaction, Report
  <2>3. ASSUME NEW r, Incident = <<r>> PROVE r.kind \in Kinds
    <3>1. reports = <<r>> \/ reports = <<r, Transaction(Answered)>>
      BY <2>1, <2>3
    <3>2. 1 \in DOMAIN reports /\ reports[1] = r
      BY <3>1
    <3> QED
      BY <3>2 DEF Kinds
  <2>4. code = "none" /\ config.panics => "panic" \in Kinds
    BY <2>3 DEF Incident, Report
  <2>5. code \in config.capture => "error" \in Kinds
    BY <2>0, <2>3 DEF Incident, Report
  <2>6. ASSUME code = "none" \/ code \in config.capture, config.tx
        PROVE  "transaction" \in Kinds
    <3>1. reports = Append(Incident, Transaction(Answered))
      BY <2>1, <2>6
    <3>2. PICK r : Incident = << >> \/ Incident = <<r>>
      BY IncidentCases
    <3>3. reports = <<Transaction(Answered)>> \/ reports = <<r, Transaction(Answered)>>
      BY <3>1, <3>2, AppendOne
    <3>4. \E i \in DOMAIN reports : reports[i] = Transaction(Answered)
      <4>1. CASE reports = <<Transaction(Answered)>>
        <5>1. 1 \in DOMAIN reports /\ reports[1] = Transaction(Answered)
          BY <4>1
        <5> QED
          BY <5>1
      <4>2. CASE reports = <<r, Transaction(Answered)>>
        <5>1. 2 \in DOMAIN reports /\ reports[2] = Transaction(Answered)
          BY <4>2
        <5> QED
          BY <5>1
      <4> QED
        BY <3>3, <4>1, <4>2
    <3> QED
      BY <2>2, <3>4 DEF Kinds
  <2> QED
    BY <2>4, <2>5, <2>6
<1>2. InterceptorInv /\ Chronicle /\ hookPanics # 0 => FailuresReported
  <2> SUFFICES ASSUME Chronicle, stage = "end", Recovered
               PROVE  /\ config.panics => "panic" \in Kinds
                      /\ config.tx => "transaction" \in Kinds
    BY DEF FailuresReported
  <2>1. config.panics => "panic" \in Kinds
    BY DEF Chronicle, PanicListed
  <2>2. ASSUME config.tx PROVE "transaction" \in Kinds
    <3>1. reports # <<>> /\ reports \in Seq(Event) /\ reports[Len(reports)] = Transaction("Internal")
      BY <2>2 DEF Chronicle, TransactionLast, Entries
    <3>2. Len(reports) \in DOMAIN reports /\ reports[Len(reports)].kind = "transaction"
      BY <3>1 DEF Transaction, Report
    <3> QED
      BY <3>2 DEF Kinds
  <2> QED
    BY <2>1, <2>2
<1>3. InterceptorInv /\ Chronicle => FailuresReported
  BY <1>1, <1>2
<1> QED
  BY <1>3, Invariance, ChronicleHolds, PTL

(* A call reports one incident and one transaction at most, and after a     *)
(* capture that panicked a panic and a last transaction on top of them.     *)
THEOREM ReportsAreSingle == Spec => []ReportedOnce
<1>1. InterceptorInv /\ hookPanics = 0 => ReportedOnce
  <2> SUFFICES ASSUME InterceptorInv, hookPanics = 0, NEW i \in DOMAIN reports,
                      NEW j \in DOMAIN reports, i < j
               PROVE  (reports[i].kind = "transaction") # (reports[j].kind = "transaction")
    BY DEF ReportedOnce
  <2>1. PICK r : /\ \/ r = Report("panic", "none", "unhandled")
                    \/ r = Report("error", code, "handled")
                 /\ \/ reports = << >> \/ reports = <<r>>
                    \/ reports = <<Transaction(Answered)>>
                    \/ reports = <<r, Transaction(Answered)>>
    BY ReportsCases
  <2>2. r.kind # "transaction" /\ Transaction(Answered).kind = "transaction"
    BY <2>1 DEF Report, Transaction
  <2>3. reports = <<r, Transaction(Answered)>>
    BY <2>1
  <2>4. /\ DOMAIN reports = {1, 2}
        /\ reports[1] = r /\ reports[2] = Transaction(Answered)
    BY <2>3
  <2> QED
    BY <2>2, <2>4
<1>2. InterceptorInv /\ Chronicle /\ hookPanics # 0 => ReportedOnce
  <2> SUFFICES ASSUME InterceptorInv, Chronicle, hookPanics # 0, NEW i \in DOMAIN reports,
                      NEW j \in DOMAIN reports, i < j, reports[i].kind = reports[j].kind
               PROVE  hookPanics > 0 /\ reports[j].kind = "transaction" /\ j = Len(reports)
    BY DEF ReportedOnce
  <2>0. hookPanics > 0
    BY DEF InterceptorInv, TypeOK
  <2>1. DOMAIN reports = 1..Len(reports) /\ Len(reports) \in Nat
    BY DEF Chronicle, Entries
  <2>2. \A n \in Nat : Ascending(n) => ~(i \in 1..n /\ j \in 1..n)
    BY DEF Ascending, Rank
  <2>3. ~Ascending(Len(reports))
    BY <2>1, <2>2
  <2>4. /\ reports[Len(reports)].kind = "transaction" /\ reports # <<>>
        /\ Ascending(Len(reports) - 1)
    BY <2>3 DEF Chronicle, InOrder
  <2>5. j = Len(reports)
    <3> SUFFICES ASSUME j # Len(reports) PROVE FALSE
      OBVIOUS
    <3>1. Len(reports) - 1 \in Nat /\ i \in 1..(Len(reports) - 1) /\ j \in 1..(Len(reports) - 1)
      BY <2>1
    <3> QED
      BY <2>2, <2>4, <3>1
  <2> QED
    BY <2>0, <2>4, <2>5
<1>3. InterceptorInv /\ Chronicle => ReportedOnce
  BY <1>1, <1>2
<1> QED
  BY <1>3, Invariance, ChronicleHolds, PTL

(* The interceptor reads in what it hands on the code of its transaction. *)
LEMMA HandedOnIsRead ==
  ASSUME InterceptorInv
  PROVE  HandedOn \in Errors /\ StatusCode(HandedOn) = Answered
<1>1. err \in Errors \union {"none"} /\ code = IF err = "none" THEN "none" ELSE StatusCode(err)
  BY DEF InterceptorInv, TypeOK, Progress
<1>2. CASE err = "none"
  BY <1>1, <1>2 DEF HandedOn, Answered, Errors, StatusCode, ContextErrors
<1>3. CASE err # "none"
  BY <1>1, <1>3, Readings DEF HandedOn, Answered
<1> QED
  BY <1>2, <1>3

(* A report with the code the interceptor reads is right about the caller,  *)
(* but for the bare error of a context.                                     *)
LEMMA ReadIsServed ==
  ASSUME NEW r, outcome \in Errors \union {"panic"},
         outcome # "panic" => r.code = StatusCode(outcome),
         r.result = "ok" <=> /\ outcome # "panic" /\ StatusCode(outcome) = "OK"
                             /\ r.kind = "transaction"
  PROVE  /\ outcome # "panic" =>
              /\ r.code = StatusCode(outcome)
              /\ r.code = ServedCode(outcome) <=> outcome \notin ContextErrors
         /\ r.result = "ok" <=> ServedCode(outcome) = "OK" /\ r.kind = "transaction"
<1>1. CASE outcome = "panic"
  BY <1>1 DEF ServedCode
<1>2. CASE outcome \in Errors
  BY <1>2, Readings
<1> QED
  BY <1>1, <1>2

(* Reports carry the code that the interceptor reads in the error it hands  *)
(* on, and after a capture that panicked the last transaction still does.   *)
(* It is the code of the caller, unless the handler returned the bare error *)
(* of a context, which is reported as Unknown.                              *)
THEOREM CodeIsTheAnswer == Spec => []ReportedCodeIsAnswered
<1>1. ASSUME InterceptorInv, Chronicle, stage = "end",
             NEW i \in DOMAIN reports, CarriesCode(i)
      PROVE  /\ outcome \in Errors \union {"panic"}
             /\ outcome # "panic" => reports[i].code = StatusCode(outcome)
             /\ reports[i].result = "ok" <=>
                  /\ outcome # "panic" /\ StatusCode(outcome) = "OK"
                  /\ reports[i].kind = "transaction"
  <2>1. CASE hookPanics = 0
    <3>0. reports[i].kind # "panic"
      BY <1>1, <2>1 DEF CarriesCode, Recovered
    <3>1. PICK r : /\ \/ r = Report("panic", "none", "unhandled") /\ code = "none"
                      \/ r = Report("error", code, "handled") /\ code # "none"
                   /\ \/ reports = << >> \/ reports = <<r>>
                      \/ reports = <<Transaction(Answered)>>
                      \/ reports = <<r, Transaction(Answered)>>
      BY <1>1, <2>1, ReportsCases
    <3>2. reports[i] = r \/ reports[i] = Transaction(Answered)
      <4>1. CASE reports = <<r>>
        BY <1>1, <4>1
      <4>2. CASE reports = <<Transaction(Answered)>>
        BY <1>1, <4>2
      <4>3. CASE reports = <<r, Transaction(Answered)>>
        BY <1>1, <4>3
      <4> QED
        BY <1>1, <3>1, <4>1, <4>2, <4>3
    <3>3. /\ outcome = HandedOn \/ (outcome = "panic" /\ code = "none")
          /\ HandedOn \in Errors /\ StatusCode(HandedOn) = Answered
          /\ HandedOn # "panic"
      BY <1>1, <2>1, HandedOnIsRead, Readings DEF InterceptorInv, Told
    <3>4. CASE reports[i] = r
      <4>1. r = Report("error", code, "handled") /\ code # "none"
        BY <3>0, <3>1, <3>4 DEF Report
      <4>2. outcome = HandedOn /\ Answered = code
        BY <3>3, <4>1 DEF Answered
      <4> QED
        BY <3>3, <3>4, <4>1, <4>2 DEF Report
    <3>5. CASE reports[i] = Transaction(Answered)
      <4>1. /\ reports[i].code = Answered /\ reports[i].kind = "transaction"
            /\ reports[i].result = StatusFromCode(Answered)
        BY <3>5 DEF Transaction, Report
      <4>2. StatusFromCode(Answered) = "ok" <=> Answered = "OK"
        BY DEF StatusFromCode
      <4>3. outcome = "panic" => Answered = "Internal"
        BY <3>3 DEF Answered
      <4> QED
        BY <3>3, <4>1, <4>2, <4>3
    <3> QED
      BY <3>2, <3>4, <3>5
  <2>2. CASE hookPanics # 0
    <3>1. Recovered /\ reports[i].kind = "transaction" /\ i = Len(reports)
      BY <1>1, <2>2 DEF CarriesCode
    <3>2. config.tx
      BY <1>1, <3>1 DEF Chronicle, Entries
    <3>3. reports[i] = Transaction("Internal")
      BY <1>1, <3>1, <3>2 DEF Chronicle, TransactionLast
    <3>4. outcome \in {"Internal", "panic"}
      BY <1>1, <2>2 DEF InterceptorInv, TypeOK, AnswerStands
    <3>5. StatusCode("Internal") = "Internal" /\ "Internal" \in Errors
      BY DEF StatusCode, ContextErrors, Errors
    <3>6. /\ reports[i].code = "Internal" /\ reports[i].kind = "transaction"
          /\ reports[i].result = "internal_error"
      BY <3>3 DEF Transaction, Report, StatusFromCode
    <3> QED
      BY <3>4, <3>5, <3>6
  <2> QED
    BY <2>1, <2>2
<1>2. InterceptorInv /\ Chronicle => ReportedCodeIsAnswered
  <2> SUFFICES ASSUME InterceptorInv, Chronicle, stage = "end",
                      NEW i \in DOMAIN reports, CarriesCode(i)
               PROVE  /\ outcome # "panic" =>
                           /\ reports[i].code = StatusCode(outcome)
                           /\ reports[i].code = ServedCode(outcome) <=>
                                outcome \notin ContextErrors
                      /\ reports[i].result = "ok" <=>
                           ServedCode(outcome) = "OK" /\ reports[i].kind = "transaction"
    BY DEF ReportedCodeIsAnswered
  <2> QED
    BY <1>1, ReadIsServed
<1> QED
  BY <1>2, Invariance, ChronicleHolds, PTL
=============================================================================
