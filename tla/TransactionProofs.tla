-------------------------- MODULE TransactionProofs --------------------------
(***************************************************************************)
(* Theorems of Transaction, for any number of spans, any times and any     *)
(* statuses and contents.                                                  *)
(***************************************************************************)
EXTENDS TransactionInv, SequenceTheorems, TLAPS

USE TransactionAssumption

LEMMA RootIsAnObject == Root \in Objects /\ Spans \subseteq Objects
BY DEF Objects

LEMMA InitInv == Init => TransactionInvariant
<1> SUFFICES ASSUME Init PROVE TransactionInvariant
  OBVIOUS
<1> USE DEF Init
<1>1. TypeOK
  BY DEF TypeOK, Stages, Objects
<1>2. ListIsStarted /\ OwnMaps
  BY DEF ListIsStarted, OwnMaps, Objects
<1>3. Position /\ Faithful
  BY DEF Position, Faithful
<1> QED
  BY <1>1, <1>2, <1>3 DEF TransactionInvariant

-----------------------------------------------------------------------------
(* Calls of the application: they leave the capture where it is. *)

(* A step that changes nothing but fields of one object, which is not being *)
(* reported or is marked as raced.                                          *)
LEMMA FieldsOnly ==
  ASSUME TransactionInvariant, TypeOK', OwnMaps', NEW o \in Objects,
         UNCHANGED <<start, spans, stage, todo, report>>,
         \A x \in Objects \ {o} :
           end'[x] = end[x] /\ status'[x] = status[x] /\ own'[x] = own[x],
         raced \subseteq raced',
         stage = "idle" \/ o \in raced'
  PROVE  TransactionInvariant'
<1>1. ListIsStarted' /\ Position'
  BY DEF TransactionInvariant, ListIsStarted, Position
<1>2. Faithful'
  <2> SUFFICES ASSUME NEW i \in DOMAIN report
               PROVE  /\ report[i].duration = Duration(report[i].start, report[i].end)
                      /\ report[i].of \notin raced' =>
                           IF Current(i) THEN report[i].end = EndOrStart(report[i].of)'
                                         ELSE AsLeft(report[i])'
    BY DEF Faithful, Current, Duration
  <2>1. stage # "idle"
    BY DEF TransactionInvariant, Position
  <2>2. o \in raced'
    BY <2>1
  <2>3. report[i] \in Entry
    BY DEF TransactionInvariant, TypeOK
  <2>4. report[i].of \in Objects
    BY <2>3 DEF Entry
  <2>5. CASE report[i].of \in raced'
    BY <2>5 DEF TransactionInvariant, Faithful
  <2>6. CASE report[i].of \notin raced'
    <3>1. report[i].of # o /\ report[i].of \notin raced
      BY <2>2, <2>6
    <3>2. /\ EndOrStart(report[i].of)' = EndOrStart(report[i].of)
          /\ AsLeft(report[i])' = AsLeft(report[i])
      BY <2>4, <3>1 DEF EndOrStart, AsLeft
    <3> QED
      BY <3>1, <3>2 DEF TransactionInvariant, Faithful
  <2> QED
    BY <2>5, <2>6
<1> QED
  BY <1>1, <1>2 DEF TransactionInvariant

LEMMA AppWritesInv ==
  ASSUME TransactionInvariant, NEW c \in Contents, AppWrites(c)
  PROVE  TransactionInvariant'
<1> USE DEF AppWrites, fields
<1>1. TypeOK' /\ OwnMaps'
  BY DEF TransactionInvariant, TypeOK, OwnMaps
<1>2. ListIsStarted' /\ Position'
  BY DEF TransactionInvariant, ListIsStarted, Position
<1>3. Faithful'
  BY DEF TransactionInvariant, Faithful, Current, AsLeft, EndOrStart, Duration
<1> QED
  BY <1>1, <1>2, <1>3 DEF TransactionInvariant

LEMMA FinishInv ==
  ASSUME TransactionInvariant, Finish PROVE TransactionInvariant'
<1> USE DEF Finish
<1>1. TypeOK' /\ OwnMaps'
  <2>1. status[Root] \in Statuses \union {None, Torn}
    BY RootIsAnObject DEF TransactionInvariant, TypeOK
  <2>2. /\ status' \in [Objects -> Statuses \union {None, Torn}]
        /\ end' \in [Objects -> Times \union {None}]
    BY <2>1, RootIsAnObject DEF TransactionInvariant, TypeOK
  <2> QED
    BY <2>2 DEF TransactionInvariant, TypeOK, OwnMaps
<1>2. \A x \in Objects \ {Root} :
        end'[x] = end[x] /\ status'[x] = status[x] /\ own'[x] = own[x]
  BY DEF TransactionInvariant, TypeOK
<1> QED
  BY <1>1, <1>2, RootIsAnObject, FieldsOnly

LEMMA SetContextInv ==
  ASSUME TransactionInvariant, SetContext PROVE TransactionInvariant'
<1> USE DEF SetContext, Normalizes
<1>1. TypeOK' /\ OwnMaps'
  BY DEF TransactionInvariant, TypeOK, OwnMaps
<1>2. \A x \in Objects \ {Root} :
        end'[x] = end[x] /\ status'[x] = status[x] /\ own'[x] = own[x]
  BY DEF TransactionInvariant, TypeOK
<1> QED
  BY <1>1, <1>2, RootIsAnObject, FieldsOnly

LEMMA SetDataInv ==
  ASSUME TransactionInvariant, NEW s \in Spans, SetData(s) PROVE TransactionInvariant'
<1> USE DEF SetData, Normalizes, SpanCall
<1>1. TypeOK' /\ OwnMaps'
  BY DEF TransactionInvariant, TypeOK, OwnMaps
<1>2. \A x \in Objects \ {s} :
        end'[x] = end[x] /\ status'[x] = status[x] /\ own'[x] = own[x]
  BY DEF TransactionInvariant, TypeOK
<1>3. raced \subseteq raced' /\ (stage = "idle" \/ s \in raced')
  OBVIOUS
<1> QED
  BY <1>1, <1>2, <1>3, RootIsAnObject, FieldsOnly

LEMMA FinishBeginsInv ==
  ASSUME TransactionInvariant, NEW s \in Spans, FinishBegins(s) PROVE TransactionInvariant'
<1> USE DEF FinishBegins, SpanCall
<1>1. TypeOK' /\ OwnMaps'
  BY DEF TransactionInvariant, TypeOK, OwnMaps
<1>2. \A x \in Objects \ {s} :
        end'[x] = end[x] /\ status'[x] = status[x] /\ own'[x] = own[x]
  BY DEF TransactionInvariant, TypeOK
<1>3. raced \subseteq raced' /\ (stage = "idle" \/ s \in raced')
  OBVIOUS
<1> QED
  BY <1>1, <1>2, <1>3, RootIsAnObject, FieldsOnly

LEMMA FinishSetsStatusInv ==
  ASSUME TransactionInvariant, NEW s \in Spans, FinishSetsStatus(s)
  PROVE  TransactionInvariant'
<1> USE DEF FinishSetsStatus, SpanCall
<1>1. TypeOK' /\ OwnMaps'
  BY DEF TransactionInvariant, TypeOK, OwnMaps
<1>2. \A x \in Objects \ {s} :
        end'[x] = end[x] /\ status'[x] = status[x] /\ own'[x] = own[x]
  BY DEF TransactionInvariant, TypeOK
<1>3. raced \subseteq raced' /\ (stage = "idle" \/ s \in raced')
  OBVIOUS
<1> QED
  BY <1>1, <1>2, <1>3, RootIsAnObject, FieldsOnly

LEMMA FinishSetsEndInv ==
  ASSUME TransactionInvariant, NEW s \in Spans, FinishSetsEnd(s)
  PROVE  TransactionInvariant'
<1> USE DEF FinishSetsEnd, SpanCall
<1>1. TypeOK' /\ OwnMaps'
  BY DEF TransactionInvariant, TypeOK, OwnMaps
<1>2. \A x \in Objects \ {s} :
        end'[x] = end[x] /\ status'[x] = status[x] /\ own'[x] = own[x]
  BY DEF TransactionInvariant, TypeOK
<1>3. raced \subseteq raced' /\ (stage = "idle" \/ s \in raced')
  OBVIOUS
<1> QED
  BY <1>1, <1>2, <1>3, RootIsAnObject, FieldsOnly

LEMMA StartChildInv ==
  ASSUME TransactionInvariant, NEW s \in Spans, StartChild(s) PROVE TransactionInvariant'
<1> USE DEF StartChild
<1>1. PICK t \in Times : start' = [start EXCEPT ![s] = t]
  OBVIOUS
<1>2. TypeOK' /\ OwnMaps'
  <2>1. start' \in [Objects -> Times \union {None}] /\ spans' \in Seq(Spans)
    <3>1. start \in [Objects -> Times \union {None}] /\ spans \in Seq(Spans)
      BY DEF TransactionInvariant, TypeOK
    <3>2. start' \in [Objects -> Times \union {None}]
      BY <1>1, <3>1
    <3>3. spans' \in Seq(Spans)
      BY <3>1
    <3> QED
      BY <3>2, <3>3
  <2> QED
    BY <2>1 DEF TransactionInvariant, TypeOK, OwnMaps
<1>3. ListIsStarted'
  <2>1. start \in [Objects -> Times \union {None}] /\ spans \in Seq(Spans)
    BY DEF TransactionInvariant, TypeOK
  <2>2. \A o \in Objects : start[o] \in Times => start'[o] \in Times
    BY <1>1, <2>1
  <2>3. start'[s] \in Times
    BY <1>1, <2>1, RootIsAnObject
  <2>4. \A i \in DOMAIN spans' : spans'[i] = s \/ (i \in DOMAIN spans /\ spans'[i] = spans[i])
    BY <2>1
  <2>5. \A i \in DOMAIN spans : spans[i] \in Objects
    BY <2>1, RootIsAnObject
  <2> QED
    BY <2>2, <2>3, <2>4, <2>5, RootIsAnObject DEF TransactionInvariant, ListIsStarted
<1>4. Position' /\ Faithful'
  BY DEF TransactionInvariant, Position, Faithful
<1> QED
  BY <1>2, <1>3, <1>4 DEF TransactionInvariant

-----------------------------------------------------------------------------
(* The capture. *)

(* What is read at a time is of the types the payload has.                  *)
LEMMA TimedEntry ==
  ASSUME TypeOK, NEW o \in Objects, start[o] \in Times
  PROVE  /\ Timed(o) \in Entry
         /\ Timed(o).of = o
         /\ Timed(o).end = EndOrStart(o)
         /\ Timed(o).duration = Duration(Timed(o).start, Timed(o).end)
<1>1. EndOrStart(o) \in Times
  BY DEF EndOrStart, TypeOK
<1>2. Duration(start[o], EndOrStart(o)) \in Times
  BY <1>1 DEF Duration, Times
<1> QED
  BY <1>1, <1>2 DEF Timed, Entry

LEMMA CopiedOwn ==
  ASSUME TypeOK, OwnMaps, NEW o \in Objects
  PROVE  Copied(o) = own[o] /\ Copied(o) \in Contents \union {None}
BY DEF Copied, OwnMaps, TypeOK

LEMMA BeginsInv ==
  ASSUME TransactionInvariant, Begins PROVE TransactionInvariant'
<1> USE DEF Begins, fields
<1> DEFINE entry == [Timed(Root) EXCEPT !.status = status[Root], !.data = Copied(Root)]
<1>1. /\ TypeOK /\ start[Root] \in Times
      /\ Copied(Root) = own[Root] /\ Copied(Root) \in Contents \union {None}
  BY CopiedOwn, RootIsAnObject DEF TransactionInvariant, ListIsStarted
<1>2. Timed(Root) \in Entry
  BY <1>1, TimedEntry, RootIsAnObject
<1>3. /\ entry \in Entry /\ entry.of = Root /\ entry.end = EndOrStart(Root)
      /\ entry.duration = Duration(entry.start, entry.end)
      /\ entry.status = status[Root] /\ entry.data = own[Root]
  <2>1. status[Root] \in Statuses \union {None, Torn}
    BY <1>1, RootIsAnObject DEF TypeOK
  <2> QED
    BY <1>1, <1>2, <2>1, TimedEntry, RootIsAnObject DEF Entry, Timed
<1> HIDE DEF entry
<1>4. report' = <<entry>>
  BY DEF entry
<1>5. /\ report' \in Seq(Entry) /\ Len(report') = 1
      /\ DOMAIN report' = {1} /\ report'[1] = entry
  BY <1>3, <1>4
<1>6. TypeOK'
  BY <1>1, <1>5 DEF TypeOK, Stages, Objects
<1>7. ListIsStarted' /\ OwnMaps'
  BY DEF TransactionInvariant, ListIsStarted, OwnMaps
<1>8. Position'
  <2>1. spans \in Seq(Spans)
    BY <1>1 DEF TypeOK
  <2>2. stage' \in {"built", "end"} /\ (todo' = << >> <=> stage' = "built")
    OBVIOUS
  <2> QED
    BY <1>3, <1>5, <2>1, <2>2 DEF Position
<1>9. Faithful'
  BY <1>3, <1>5 DEF Faithful, Current, AsLeft, EndOrStart, Duration
<1> QED
  BY <1>6, <1>7, <1>8, <1>9 DEF TransactionInvariant

LEMMA ReadsEndInv ==
  ASSUME TransactionInvariant, ReadsEnd PROVE TransactionInvariant'
<1> USE DEF ReadsEnd, fields
<1>1. /\ TypeOK /\ todo \in Seq(Spans) /\ spans \in Seq(Spans) /\ todo # << >>
      /\ report \in Seq(Entry)
  BY DEF TransactionInvariant, TypeOK, Position
<1> DEFINE s == Head(todo)
           entry == Timed(s)
<1>2. s \in Spans /\ s = todo[1] /\ Len(todo) > 0
  BY <1>1
<1>3. /\ Len(report) = Len(spans) - Len(todo) + 1 /\ Len(report) >= 1
      /\ report[1].of = Root
      /\ \A i \in DOMAIN todo : todo[i] = spans[Len(spans) - Len(todo) + i]
      /\ \A i \in DOMAIN report : i > 1 => report[i].of = spans[i - 1]
  <2>1. Len(report) = Len(spans) - Len(todo) + 1
    BY DEF TransactionInvariant, Position
  <2>2. /\ report[1].of = Root
        /\ \A i \in DOMAIN todo : todo[i] = spans[Len(spans) - Len(todo) + i]
        /\ \A i \in DOMAIN report : i > 1 => report[i].of = spans[i - 1]
    BY DEF TransactionInvariant, Position
  <2>3. Len(todo) <= Len(spans)
    BY DEF TransactionInvariant, Position
  <2> QED
    BY <1>1, <2>1, <2>2, <2>3
<1>4. s = spans[Len(report)] /\ Len(report) \in DOMAIN spans
  BY <1>1, <1>2, <1>3
<1>5. start[s] \in Times
  BY <1>4 DEF TransactionInvariant, ListIsStarted
<1>6. /\ entry \in Entry /\ entry.of = s /\ entry.end = EndOrStart(s)
      /\ entry.duration = Duration(entry.start, entry.end)
  BY <1>1, <1>2, <1>5, TimedEntry, RootIsAnObject
<1> HIDE DEF entry
<1>7. /\ report' = Append(report, entry) /\ stage' = "status"
      /\ UNCHANGED <<start, end, status, data, own, app, call, spans, todo, raced>>
  BY DEF entry
<1>8. /\ report' \in Seq(Entry) /\ Len(report') = Len(report) + 1
      /\ report'[Len(report) + 1] = entry
      /\ \A i \in DOMAIN report : report'[i] = report[i]
      /\ DOMAIN report' = DOMAIN report \union {Len(report) + 1}
  BY <1>1, <1>6, <1>7
<1>9. TypeOK'
  BY <1>1, <1>7, <1>8 DEF TypeOK, Stages
<1>10. ListIsStarted' /\ OwnMaps'
  BY <1>7 DEF TransactionInvariant, ListIsStarted, OwnMaps
<1>11. Position'
  <2>1. /\ Len(report') = Len(spans) - Len(todo) + 2
        /\ report'[1].of = Root
    BY <1>1, <1>3, <1>8
  <2>2. \A i \in DOMAIN report' : i > 1 => report'[i].of = spans[i - 1]
    BY <1>1, <1>3, <1>4, <1>6, <1>8
  <2> QED
    BY <1>1, <1>3, <1>7, <2>1, <2>2 DEF Position
<1>12. Faithful'
  <2> SUFFICES ASSUME NEW i \in DOMAIN report'
               PROVE  /\ report'[i].duration = Duration(report'[i].start, report'[i].end)
                      /\ report'[i].of \notin raced =>
                           IF i = Len(report') THEN report'[i].end = EndOrStart(report'[i].of)
                                               ELSE AsLeft(report'[i])
    BY <1>7 DEF Faithful, Current, AsLeft, EndOrStart, Duration
  <2>1. CASE i = Len(report) + 1
    BY <1>6, <1>8, <2>1
  <2>2. CASE i \in DOMAIN report
    <3>1. i # Len(report') /\ ~Current(i)
      BY <1>1, <1>8, <2>2 DEF Current
    <3> QED
      BY <1>8, <2>2, <3>1 DEF TransactionInvariant, Faithful
  <2> QED
    BY <1>8, <2>1, <2>2
<1> QED
  BY <1>9, <1>10, <1>11, <1>12 DEF TransactionInvariant

LEMMA ReadsRestInv ==
  ASSUME TransactionInvariant, ReadsRest PROVE TransactionInvariant'
<1> USE DEF ReadsRest, ReadsOn, fields
<1>1. /\ TypeOK /\ todo \in Seq(Spans) /\ spans \in Seq(Spans) /\ todo # << >>
      /\ report \in Seq(Entry)
  BY DEF TransactionInvariant, TypeOK, Position
<1> DEFINE s == Head(todo)
           n == Len(report)
           entry == [report[n] EXCEPT !.status = status[s], !.data = Copied(s)]
<1>2. s \in Spans /\ s = todo[1] /\ Len(todo) > 0
  BY <1>1
<1>3. /\ n = Len(spans) - Len(todo) + 2
      /\ report[1].of = Root
      /\ \A i \in DOMAIN todo : todo[i] = spans[Len(spans) - Len(todo) + i]
      /\ \A i \in DOMAIN report : i > 1 => report[i].of = spans[i - 1]
  BY DEF TransactionInvariant, Position
<1>4. Len(todo) <= Len(spans) /\ n >= 2 /\ n \in DOMAIN report
  <2>1. Len(todo) <= Len(spans)
    BY DEF TransactionInvariant, Position
  <2> QED
    BY <1>1, <1>3, <2>1
<1>5. report[n].of = s /\ report[n] \in Entry
  <2>1. n - 1 = Len(spans) - Len(todo) + 1 /\ n > 1 /\ 1 \in DOMAIN todo
    BY <1>1, <1>2, <1>3, <1>4
  <2>2. todo[1] = spans[n - 1] /\ report[n].of = spans[n - 1]
    BY <1>3, <1>4, <2>1
  <2> QED
    BY <1>1, <1>2, <1>4, <2>2
<1>6. /\ entry \in Entry /\ entry.of = s /\ entry.end = report[n].end
      /\ entry.duration = Duration(entry.start, entry.end)
      /\ entry.status = status[s] /\ entry.data = own[s]
  <2>1. status[s] \in Statuses \union {None, Torn}
    BY <1>1, <1>2, RootIsAnObject DEF TypeOK
  <2>2. Copied(s) = own[s] /\ Copied(s) \in Contents \union {None}
    BY <1>1, <1>2, CopiedOwn, RootIsAnObject DEF TransactionInvariant
  <2>3. report[n].duration = Duration(report[n].start, report[n].end)
    BY <1>4 DEF TransactionInvariant, Faithful
  <2> QED
    BY <1>5, <2>1, <2>2, <2>3 DEF Entry
<1>7. s \notin raced => entry.end = EndOrStart(s)
  BY <1>4, <1>5, <1>6 DEF TransactionInvariant, Faithful, Current
<1>8. report' = [report EXCEPT ![n] = entry]
  <2>1. [report[n] EXCEPT !.duration = report[n].duration,
                          !.status = status[s], !.data = Copied(s)] = entry
    BY <1>5 DEF Entry
  <2> QED
    BY <1>1, <1>4, <2>1
<1> HIDE DEF entry
<1>9. /\ report' \in Seq(Entry) /\ Len(report') = n /\ DOMAIN report' = DOMAIN report
      /\ report'[n] = entry
      /\ \A i \in DOMAIN report : i # n => report'[i] = report[i]
  <2>1. n \in 1..Len(report)
    BY <1>1, <1>4
  <2>2. /\ [report EXCEPT ![n] = entry] \in Seq(Entry)
        /\ Len([report EXCEPT ![n] = entry]) = Len(report)
        /\ \A i \in 1..Len(report) :
             [report EXCEPT ![n] = entry][i] = IF i = n THEN entry ELSE report[i]
    BY <1>1, <1>6, <2>1, ExceptSeq
  <2>3. report' \in Seq(Entry) /\ Len(report') = n
    BY <1>8, <2>2
  <2>4. \A i \in 1..n : report'[i] = IF i = n THEN entry ELSE report[i]
    BY <1>8, <2>2
  <2>5. DOMAIN report = 1..n /\ DOMAIN report' = 1..n
    BY <1>1, <2>3
  <2> QED
    BY <2>1, <2>3, <2>4, <2>5
<1>10. /\ todo' \in Seq(Spans) /\ Len(todo') = Len(todo) - 1
       /\ \A i \in DOMAIN todo' : todo'[i] = todo[i + 1]
       /\ todo' = << >> <=> stage' = "built"
       /\ stage' \in {"built", "end"}
  <2>1. /\ Tail(todo) \in Seq(Spans) /\ Len(Tail(todo)) = Len(todo) - 1
        /\ \A i \in 1..(Len(todo) - 1) : Tail(todo)[i] = todo[i + 1]
    BY <1>1, <1>2
  <2>2. todo' = Tail(todo) /\ stage' = IF Tail(todo) = << >> THEN "built" ELSE "end"
    OBVIOUS
  <2> QED
    BY <1>1, <2>1, <2>2
<1>11. TypeOK'
  BY <1>1, <1>9, <1>10 DEF TypeOK, Stages
<1>12. ListIsStarted' /\ OwnMaps'
  BY DEF TransactionInvariant, ListIsStarted, OwnMaps
<1>13. Position'
  <2>1. report'[1].of = Root
    BY <1>3, <1>4, <1>9
  <2>2. \A i \in DOMAIN report' : i > 1 => report'[i].of = spans[i - 1]
    BY <1>3, <1>4, <1>5, <1>6, <1>9
  <2>3. /\ Len(report') = Len(spans) - Len(todo') + 1
        /\ Len(todo') <= Len(spans)
        /\ \A i \in DOMAIN todo' : todo'[i] = spans[Len(spans) - Len(todo') + i]
    <3>1. /\ Len(report') = Len(spans) - Len(todo') + 1
          /\ Len(todo') <= Len(spans)
      BY <1>1, <1>3, <1>4, <1>9, <1>10
    <3>2. ASSUME NEW i \in DOMAIN todo'
          PROVE  todo'[i] = spans[Len(spans) - Len(todo') + i]
      <4>1. i \in Nat /\ i + 1 \in DOMAIN todo /\ todo'[i] = todo[i + 1]
        BY <1>1, <1>10
      <4>2. Len(spans) - Len(todo) + (i + 1) = Len(spans) - Len(todo') + i
        BY <1>1, <1>10, <4>1
      <4> QED
        BY <1>3, <4>1, <4>2
    <3> QED
      BY <3>1, <3>2
  <2> QED
    BY <1>10, <2>1, <2>2, <2>3 DEF Position
<1>14. Faithful'
  <2> SUFFICES ASSUME NEW i \in DOMAIN report'
               PROVE  /\ report'[i].duration = Duration(report'[i].start, report'[i].end)
                      /\ report'[i].of \notin raced => AsLeft(report'[i])
    BY <1>10 DEF Faithful, Current, AsLeft, EndOrStart, Duration
  <2>1. CASE i = n
    BY <1>6, <1>7, <1>9, <2>1 DEF AsLeft
  <2>2. CASE i # n
    BY <1>9, <2>2 DEF TransactionInvariant, Faithful, Current
  <2> QED
    BY <2>1, <2>2
<1> QED
  BY <1>11, <1>12, <1>13, <1>14 DEF TransactionInvariant

LEMMA DispatchesInv ==
  ASSUME TransactionInvariant, Dispatches PROVE TransactionInvariant'
<1> USE DEF Dispatches, fields
<1>1. TypeOK'
  BY DEF TransactionInvariant, TypeOK, Stages
<1>2. ListIsStarted' /\ OwnMaps'
  BY DEF TransactionInvariant, ListIsStarted, OwnMaps
<1>3. Position' /\ Faithful'
  BY DEF Position, Faithful
<1> QED
  BY <1>1, <1>2, <1>3 DEF TransactionInvariant

-----------------------------------------------------------------------------
LEMMA NextInv == TransactionInvariant /\ [Next]_vars => TransactionInvariant'
<1> SUFFICES ASSUME TransactionInvariant, [Next]_vars PROVE TransactionInvariant'
  OBVIOUS
<1>1. CASE UNCHANGED vars
  <2> USE <1>1 DEF vars, fields
  <2>1. TypeOK' /\ ListIsStarted' /\ OwnMaps' /\ Position'
    BY DEF TransactionInvariant, TypeOK, ListIsStarted, OwnMaps, Position
  <2>2. Faithful'
    BY DEF TransactionInvariant, Faithful, Current, AsLeft, EndOrStart, Duration
  <2> QED
    BY <2>1, <2>2 DEF TransactionInvariant
<1>2. CASE \E c \in Contents : AppWrites(c)
  BY <1>2, AppWritesInv
<1>3. CASE Finish \/ SetContext
  BY <1>3, FinishInv, SetContextInv
<1>4. CASE \E s \in Spans : StartChild(s) \/ SetData(s)
  BY <1>4, StartChildInv, SetDataInv
<1>5. CASE \E s \in Spans : FinishBegins(s) \/ FinishSetsStatus(s) \/ FinishSetsEnd(s)
  BY <1>5, FinishBeginsInv, FinishSetsStatusInv, FinishSetsEndInv
<1>6. CASE Begins \/ ReadsEnd \/ ReadsRest \/ Dispatches
  BY <1>6, BeginsInv, ReadsEndInv, ReadsRestInv, DispatchesInv
<1> QED
  BY <1>1, <1>2, <1>3, <1>4, <1>5, <1>6 DEF Next

(* The inductive invariant of the transaction. *)
THEOREM Invariance == Spec => []TransactionInvariant
BY InitInv, NextInv, PTL DEF Spec

(* The state is well formed; no duration is negative.                       *)
THEOREM TypeCorrect == Spec => []TypeOK
<1>1. TransactionInvariant => TypeOK
  BY DEF TransactionInvariant
<1> QED
  BY <1>1, Invariance, PTL

(* Span.payload reads the end once: what it reports is consistent, whoever  *)
(* finishes the span meanwhile, and no duration is negative.                *)
THEOREM DurationsAgree == Spec => []TimesAgree
<1>1. TransactionInvariant => TimesAgree
  <2> SUFFICES ASSUME TransactionInvariant, NEW i \in DOMAIN report
               PROVE  \/ /\ report[i].start <= report[i].end
                         /\ report[i].start + report[i].duration = report[i].end
                      \/ report[i].end < report[i].start /\ report[i].duration = 0
    BY DEF TimesAgree
  <2>1. report[i].start \in Times /\ report[i].end \in Times
    <3>1. report[i] \in Entry
      BY DEF TransactionInvariant, TypeOK
    <3> QED
      BY <3>1 DEF Entry
  <2>2. report[i].duration = Duration(report[i].start, report[i].end)
    BY DEF TransactionInvariant, Faithful
  <2> QED
    BY <2>1, <2>2 DEF Duration, Times
<1> QED
  BY <1>1, Invariance, PTL

(* buildTransactionPayload reports every span that was started, in order.   *)
THEOREM AllSpansReported == Spec => []SpansReported
<1>1. TransactionInvariant => SpansReported
  <2> SUFFICES ASSUME TransactionInvariant, stage = "built"
               PROVE  /\ Len(report) = Len(spans) + 1
                      /\ report[1].of = Root
                      /\ \A i \in DOMAIN spans : report[i + 1].of = spans[i]
    BY DEF SpansReported
  <2>1. /\ spans \in Seq(Spans) /\ report \in Seq(Entry) /\ todo = << >>
        /\ Len(report) = Len(spans) - Len(todo) + 1
        /\ report[1].of = Root
        /\ \A i \in DOMAIN report : i > 1 => report[i].of = spans[i - 1]
    BY DEF TransactionInvariant, TypeOK, Position
  <2>2. Len(report) = Len(spans) + 1
    BY <2>1
  <2>3. ASSUME NEW i \in DOMAIN spans PROVE report[i + 1].of = spans[i]
    <3>1. i \in 1..Len(spans) /\ Len(spans) \in Nat /\ DOMAIN report = 1..Len(report)
      BY <2>1
    <3>2. i + 1 > 1 /\ i + 1 \in DOMAIN report /\ (i + 1) - 1 = i
      BY <2>2, <3>1
    <3>3. report[i + 1].of = spans[(i + 1) - 1]
      BY <2>1, <3>2
    <3> QED
      BY <3>2, <3>3
  <2> QED
    BY <2>1, <2>2, <2>3
<1> QED
  BY <1>1, Invariance, PTL

(* A span nobody uses during the capture is reported as it was left.        *)
THEOREM FinishedSpansStand == Spec => []ReportedAsLeft
<1>1. TransactionInvariant => ReportedAsLeft
  BY DEF TransactionInvariant, Faithful, Current, ReportedAsLeft
<1> QED
  BY <1>1, Invariance, PTL
=============================================================================
