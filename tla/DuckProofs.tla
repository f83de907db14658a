----------------------------- MODULE DuckProofs -----------------------------
(***************************************************************************)
(* Theorems of Duck, for any captures, providers, options and shapes.      *)
(***************************************************************************)
EXTENDS DuckInv, TLAPS

USE DuckAssumption

LEMMA InitInv == Init => DuckInvariant
<1> SUFFICES ASSUME Init PROVE DuckInvariant
  OBVIOUS
<1> USE DEF Init
<1>1. TypeOK
  BY DEF TypeOK, Owners, Contents, Ids, Nothing
<1>2. Pairs
  BY DEF Pairs, TraceIsAPair
<1>3. Offers
  BY DEF Offers, OffersOf, Injective, RangeOf
<1>4. Separate
  BY DEF Separate, Apart, Nothing
<1>5. OwnOptionsOnly
  BY DEF OwnOptionsOnly, OwnCopy
<1> QED
  BY <1>1, <1>2, <1>3, <1>4, <1>5 DEF DuckInvariant

(* Where nothing of a queued payload changes, it stays what it should be.   *)
LEMMA CopyStays ==
  ASSUME NEW p \in Providers, NEW g \in Captures, OwnCopy(p, g),
         queued'[p][g] = queued[p][g], touched'[p][g] = touched[p][g],
         event'[g].has = event[g].has,
         \A s \in Sections : queued[p][g][s] # None /\ CloneReaches(Shape[s]) =>
           cell'[queued[p][g][s]][g][s] = cell[queued[p][g][s]][g][s]
  PROVE  OwnCopy(p, g)'
BY DEF OwnCopy, Present, Content, Nothing

(* A capture whose own state stays, while the registry grows at most.       *)
LEMMA OffersStay ==
  ASSUME NEW g \in Captures, OffersOf(g), RangeOf(providers) \subseteq RangeOf(providers'),
         todo'[g] = todo[g], stage'[g] = stage[g], known'[g] = known[g],
         \A p \in Providers : offered'[p][g] = offered[p][g] /\ queued'[p][g] = queued[p][g]
  PROVE  OffersOf(g)'
<1>1. Injective(todo[g])' /\ RangeOf(todo[g])' = RangeOf(todo[g])
  BY DEF OffersOf, Injective, RangeOf
<1>2. stage'[g] = "built" => known'[g] \subseteq RangeOf(providers)'
  BY DEF OffersOf, RangeOf
<1>3. Nothing' = Nothing
  BY DEF Nothing
<1> QED
  BY <1>1, <1>2, <1>3 DEF OffersOf

-----------------------------------------------------------------------------
(* The application. *)

LEMMA ScopeInv ==
  ASSUME DuckInvariant,
         \/ \E t \in Traces : SetTrace(t)
         \/ \E s \in ScopeSections : SetSection(s) \/ ClearSection(s)
  PROVE  DuckInvariant'
<1>1. /\ trace' \in Ids \X Ids /\ trace'[1] = trace'[2]
      /\ inScope' \subseteq ScopeSections
  BY DEF DuckInvariant, TypeOK, Pairs, SetTrace, SetSection, ClearSection, Ids
<1>2. UNCHANGED <<providers, stage, event, todo, cell, queued, offered, touched, known>>
  BY DEF SetTrace, SetSection, ClearSection
<1>3. TypeOK'
  BY <1>1, <1>2 DEF DuckInvariant, TypeOK
<1>4. Pairs'
  BY <1>1, <1>2 DEF DuckInvariant, Pairs, TraceIsAPair
<1>5. Offers' /\ Separate'
  <2>1. Injective(providers)' /\ RangeOf(providers) \subseteq RangeOf(providers')
    BY <1>2 DEF DuckInvariant, Offers, Injective
  <2>2. Offers'
    BY <1>2, <2>1, OffersStay DEF DuckInvariant, Offers
  <2>3. Separate'
    BY <1>2 DEF DuckInvariant, Separate, Apart
  <2> QED
    BY <2>2, <2>3
<1>6. OwnOptionsOnly'
  BY <1>2, CopyStays DEF DuckInvariant, OwnOptionsOnly
<1> QED
  BY <1>3, <1>4, <1>5, <1>6 DEF DuckInvariant

(* Appending to a list what it does not have. *)
LEMMA AppendNew ==
  ASSUME NEW seq \in Seq(Providers), Injective(seq), NEW p \in Providers, p \notin RangeOf(seq)
  PROVE  /\ Append(seq, p) \in Seq(Providers)
         /\ Injective(Append(seq, p))
         /\ RangeOf(seq) \subseteq RangeOf(Append(seq, p))
<1>1. /\ Append(seq, p) \in Seq(Providers)
      /\ Len(seq) \in Nat /\ DOMAIN seq = 1..Len(seq)
      /\ DOMAIN Append(seq, p) = 1..(Len(seq) + 1)
      /\ Append(seq, p)[Len(seq) + 1] = p
      /\ \A i \in 1..Len(seq) : Append(seq, p)[i] = seq[i]
  OBVIOUS
<1>2. \A i \in 1..Len(seq) : seq[i] # p
  BY <1>1 DEF RangeOf
<1>3. \A i \in 1..(Len(seq) + 1) : i \in 1..Len(seq) \/ i = Len(seq) + 1
  BY <1>1
<1>4. Injective(Append(seq, p))
  BY <1>1, <1>2, <1>3 DEF Injective
<1>5. RangeOf(seq) \subseteq RangeOf(Append(seq, p))
  <2>1. \A i \in DOMAIN seq : i \in DOMAIN Append(seq, p) /\ Append(seq, p)[i] = seq[i]
    BY <1>1
  <2> QED
    BY <2>1 DEF RangeOf
<1> QED
  BY <1>1, <1>4, <1>5

(* Taking the first of a list without repetitions. *)
LEMMA TailOfInjective ==
  ASSUME NEW seq \in Seq(Providers), Injective(seq), seq # << >>
  PROVE  /\ Head(seq) \in Providers /\ Head(seq) \in RangeOf(seq)
         /\ Tail(seq) \in Seq(Providers)
         /\ Injective(Tail(seq))
         /\ RangeOf(Tail(seq)) = RangeOf(seq) \ {Head(seq)}
<1>1. Len(seq) \in Nat /\ Len(seq) >= 1 /\ DOMAIN seq = 1..Len(seq)
  OBVIOUS
<1>2. Head(seq) = seq[1] /\ 1 \in DOMAIN seq /\ Head(seq) \in Providers
  BY <1>1
<1>3. /\ Tail(seq) \in Seq(Providers) /\ Len(Tail(seq)) = Len(seq) - 1
      /\ DOMAIN Tail(seq) = 1..(Len(seq) - 1)
      /\ \A i \in 1..(Len(seq) - 1) : Tail(seq)[i] = seq[i + 1]
  BY <1>1
<1>4. Injective(Tail(seq))
  BY <1>1, <1>3 DEF Injective
<1>5. ASSUME NEW x \in RangeOf(Tail(seq)) PROVE x \in RangeOf(seq) /\ x # Head(seq)
  <2>1. PICK i \in 1..(Len(seq) - 1) : x = seq[i + 1]
    BY <1>3 DEF RangeOf
  <2>2. i + 1 \in DOMAIN seq /\ i + 1 # 1
    BY <1>1
  <2> QED
    BY <1>2, <2>1, <2>2 DEF RangeOf, Injective
<1>6. ASSUME NEW x \in RangeOf(seq), x # Head(seq) PROVE x \in RangeOf(Tail(seq))
  <2>1. PICK i \in DOMAIN seq : x = seq[i]
    BY DEF RangeOf
  <2>2. i - 1 \in 1..(Len(seq) - 1) /\ (i - 1) + 1 = i
    BY <1>1, <1>2, <1>6, <2>1
  <2>3. x = Tail(seq)[i - 1]
    BY <1>3, <2>1, <2>2
  <2> QED
    BY <1>3, <2>2, <2>3 DEF RangeOf
<1> QED
  BY <1>2, <1>3, <1>4, <1>5, <1>6 DEF RangeOf

LEMMA RegisterProviderInv ==
  ASSUME DuckInvariant, NEW p \in Providers \union {None}, RegisterProvider(p)
  PROVE  DuckInvariant'
<1>1. UNCHANGED <<trace, inScope, stage, event, todo, cell, queued, offered, touched, known>>
  BY DEF RegisterProvider
<1>2. /\ providers' \in Seq(Providers) /\ Injective(providers')
      /\ RangeOf(providers) \subseteq RangeOf(providers')
  BY AppendNew DEF RegisterProvider, DuckInvariant, TypeOK, Offers
<1>3. TypeOK'
  BY <1>1, <1>2 DEF DuckInvariant, TypeOK
<1>4. Offers'
  <2>1. Injective(providers)'
    BY <1>2 DEF Injective
  <2> QED
    BY <1>1, <1>2, <2>1, OffersStay DEF DuckInvariant, Offers
<1>5. Pairs'
  BY <1>1 DEF DuckInvariant, Pairs, TraceIsAPair
<1>6. Separate'
  BY <1>1 DEF DuckInvariant, Separate, Apart
<1>7. OwnOptionsOnly'
  BY <1>1, CopyStays DEF DuckInvariant, OwnOptionsOnly
<1> QED
  BY <1>3, <1>4, <1>5, <1>6, <1>7 DEF DuckInvariant

-----------------------------------------------------------------------------
(* Building an event, and listing the providers. *)

LEMMA SanitizedType == \A s \in Sections : Sanitized(Shape[s]) \in Contents
BY DEF Sanitized, Contents

LEMMA BuildsInv ==
  ASSUME DuckInvariant, NEW g \in Captures, Builds(g) PROVE DuckInvariant'
<1> DEFINE built == [trace |-> IF Type[g] = "transactions" THEN <<g, g>> ELSE trace,
                     has   |-> inScope \union {"eventId", "env"} \union
                               (IF g \in InRequest THEN RequestSections ELSE {})]
           fresh == [s \in Sections |-> Sanitized(Shape[s])]
<1>1. /\ stage[g] = "idle" /\ stage' = [stage EXCEPT ![g] = "built"]
      /\ event' = [event EXCEPT ![g] = built]
      /\ cell' = [cell EXCEPT ![Core][g] = fresh]
      /\ known' = [known EXCEPT ![g] = RangeOf(providers)]
      /\ UNCHANGED <<trace, inScope, providers, todo, queued, offered, touched>>
  BY DEF Builds, Snapshot, Collected
<1>2. built \in [trace : Ids \X Ids, has : SUBSET Sections]
      /\ built.trace[1] = built.trace[2] /\ "eventId" \in built.has
  BY DEF DuckInvariant, TypeOK, Pairs, Ids, RequestSections, ScopeSections
<1>3. fresh \in [Sections -> Contents]
  BY SanitizedType
<1> HIDE DEF built
<1>4. RangeOf(providers) \subseteq Providers
  BY DEF DuckInvariant, TypeOK, RangeOf
<1>5. TypeOK'
  <2>1. cell' \in [Owners -> [Captures -> [Sections -> Contents]]]
    BY <1>1, <1>3 DEF DuckInvariant, TypeOK
  <2>2. event' \in [Captures -> [trace : Ids \X Ids, has : SUBSET Sections]]
    BY <1>1, <1>2 DEF DuckInvariant, TypeOK
  <2>3. /\ stage' \in [Captures -> {"idle", "built", "dispatch"}]
        /\ known' \in [Captures -> SUBSET Providers]
    BY <1>1, <1>4 DEF DuckInvariant, TypeOK
  <2> QED
    BY <1>1, <2>1, <2>2, <2>3 DEF DuckInvariant, TypeOK
<1>6. Pairs'
  BY <1>1, <1>2 DEF DuckInvariant, TypeOK, Pairs, TraceIsAPair
<1>7. Offers'
  <2>1. ASSUME NEW h \in Captures, h # g PROVE OffersOf(h)'
    <3>1. stage'[h] = stage[h] /\ known'[h] = known[h]
      BY <1>1, <2>1 DEF DuckInvariant, TypeOK
    <3>2. OffersOf(h)
      BY DEF DuckInvariant, Offers
    <3> QED
      BY <1>1, <3>1, <3>2, OffersStay
  <2>2. OffersOf(g)'
    <3>1. stage'[g] = "built" /\ known'[g] = RangeOf(providers)
      BY <1>1 DEF DuckInvariant, TypeOK
    <3>2. OffersOf(g)
      BY DEF DuckInvariant, Offers
    <3>3. \A p \in Providers : offered[p][g] = 0 /\ queued[p][g] = Nothing
      BY <1>1, <3>2 DEF OffersOf
    <3> QED
      BY <1>1, <3>1, <3>2, <3>3 DEF OffersOf, RangeOf, Injective, Nothing
  <2>3. Injective(providers)'
    BY <1>1 DEF DuckInvariant, Offers, Injective
  <2> QED
    BY <2>1, <2>2, <2>3 DEF Offers
<1>8. \A p \in Providers : queued[p][g] = Nothing
  BY <1>1 DEF DuckInvariant, Offers, OffersOf
<1>9. Separate'
  <2>1. ASSUME NEW s \in Sections PROVE Apart(g, s)'
    <3>1. cell'[Core][g] = fresh
      BY <1>1 DEF DuckInvariant, TypeOK, Owners
    <3>2. event'[g] = built
      BY <1>1 DEF DuckInvariant, TypeOK
    <3> QED
      BY <1>1, <1>2, <1>8, <3>1, <3>2 DEF Apart, Nothing
  <2>2. ASSUME NEW h \in Captures, h # g, NEW s \in Sections PROVE Apart(h, s)'
    <3>1. /\ cell'[Core][h] = cell[Core][h] /\ event'[h] = event[h]
      BY <1>1, <2>2 DEF DuckInvariant, TypeOK, Owners
    <3>2. stage'[h] = stage[h]
      BY <1>1, <2>2 DEF DuckInvariant, TypeOK
    <3>3. Apart(h, s)
      BY DEF DuckInvariant, Separate
    <3> QED
      BY <1>1, <3>1, <3>2, <3>3 DEF Apart
  <2> QED
    BY <2>1, <2>2 DEF Separate
<1>10. OwnOptionsOnly'
  <2>1. ASSUME NEW p \in Providers, NEW h \in Captures, h # g PROVE OwnCopy(p, h)'
    <3>1. /\ event'[h] = event[h]
          /\ \A o \in Owners : cell'[o][h] = cell[o][h]
      BY <1>1, <2>1 DEF DuckInvariant, TypeOK, Owners
    <3>2. \A s \in Sections : queued[p][h][s] # None => queued[p][h][s] \in Owners
      BY DEF DuckInvariant, TypeOK
    <3>3. OwnCopy(p, h)
      BY DEF DuckInvariant, OwnOptionsOnly
    <3> QED
      BY <1>1, <3>1, <3>2, <3>3, CopyStays
  <2>2. ASSUME NEW p \in Providers PROVE OwnCopy(p, g)'
    BY <1>1, <1>8 DEF OwnCopy, Nothing
  <2> QED
    BY <2>1, <2>2 DEF OwnOptionsOnly
<1> QED
  BY <1>5, <1>6, <1>7, <1>9, <1>10 DEF DuckInvariant

LEMMA ListsProvidersInv ==
  ASSUME DuckInvariant, NEW g \in Captures, ListsProviders(g) PROVE DuckInvariant'
<1>1. /\ stage[g] = "built" /\ stage' = [stage EXCEPT ![g] = "dispatch"]
      /\ todo' = [todo EXCEPT ![g] = providers]
      /\ UNCHANGED <<trace, inScope, providers, event, cell, queued, offered, touched, known>>
  BY DEF ListsProviders
<1>2. TypeOK'
  BY <1>1 DEF DuckInvariant, TypeOK
<1>3. Pairs'
  BY <1>1 DEF DuckInvariant, Pairs, TraceIsAPair
<1>4. Offers'
  <2>1. ASSUME NEW h \in Captures, h # g PROVE OffersOf(h)'
    <3>1. stage'[h] = stage[h] /\ todo'[h] = todo[h]
      BY <1>1, <2>1 DEF DuckInvariant, TypeOK
    <3>2. OffersOf(h)
      BY DEF DuckInvariant, Offers
    <3> QED
      BY <1>1, <3>1, <3>2, OffersStay
  <2>2. OffersOf(g)'
    <3>1. stage'[g] = "dispatch" /\ todo'[g] = providers
      BY <1>1 DEF DuckInvariant, TypeOK
    <3>2. OffersOf(g) /\ Injective(providers)
      BY DEF DuckInvariant, Offers
    <3>3. \A p \in Providers : offered[p][g] = 0 /\ queued[p][g] = Nothing
      BY <1>1, <3>2 DEF OffersOf
    <3>4. known[g] \subseteq RangeOf(providers)
      BY <1>1, <3>2 DEF OffersOf
    <3>5. Injective(todo[g])' /\ RangeOf(todo[g])' = RangeOf(providers)
      BY <3>1, <3>2 DEF Injective, RangeOf
    <3>6. Nothing' = Nothing
      BY DEF Nothing
    <3> QED
      BY <1>1, <3>1, <3>3, <3>4, <3>5, <3>6 DEF OffersOf
  <2>3. Injective(providers)'
    BY <1>1 DEF DuckInvariant, Offers, Injective
  <2> QED
    BY <2>1, <2>2, <2>3 DEF Offers
<1>5. Separate'
  <2>1. \A h \in Captures : stage'[h] # "idle" => stage[h] # "idle"
    BY <1>1 DEF DuckInvariant, TypeOK
  <2> QED
    BY <1>1, <2>1 DEF DuckInvariant, Separate, Apart
<1>6. OwnOptionsOnly'
  BY <1>1, CopyStays DEF DuckInvariant, OwnOptionsOnly
<1> QED
  BY <1>2, <1>3, <1>4, <1>5, <1>6 DEF DuckInvariant

-----------------------------------------------------------------------------
(* A provider's CaptureEvent. *)

LEMMA PreparedIs ==
  ASSUME DuckInvariant, NEW p \in Providers, NEW g \in Captures, stage[g] = "dispatch"
  PROVE  /\ Prepared(p, g) \in [Sections -> Owners \union {None}]
         /\ "eventId" \in Sections /\ Prepared(p, g)["eventId"] # None
         /\ \A s \in Sections :
              /\ Prepared(p, g)[s] # None <=> s \in event[g].has \ Excluded(p)
              /\ \/ Prepared(p, g)[s] \in {None, p}
                 \/ Prepared(p, g)[s] = Core /\ ~CloneReaches(Shape[s])
<1>1. "eventId" \in Sections /\ "eventId" \in event[g].has
  BY DEF DuckInvariant, Separate, Apart
<1>2. "eventId" \notin Excluded(p)
  BY DEF Excluded, RequestSections
<1>3. p # None /\ Core # None
  OBVIOUS
<1>4. Prepared(p, g) \in [Sections -> Owners \union {None}]
  BY DEF Prepared, Owners
<1>5. ASSUME NEW s \in Sections
      PROVE  /\ Prepared(p, g)[s] # None <=> s \in event[g].has \ Excluded(p)
             /\ \/ Prepared(p, g)[s] \in {None, p}
                \/ Prepared(p, g)[s] = Core /\ ~CloneReaches(Shape[s])
  BY <1>3 DEF Prepared
<1> QED
  BY <1>1, <1>2, <1>4, <1>5

(* The effect of preparePayload and the queue, whatever beforeSend does.    *)
Effect(p, g) ==
  /\ queued' \in [Providers -> [Captures -> [Sections -> Owners \union {None}]]]
  /\ cell' \in [Owners -> [Captures -> [Sections -> Contents]]]
  /\ touched' \in [Providers -> [Captures -> SUBSET Sections]]
  /\ \A q \in Providers, h \in Captures : ~(q = p /\ h = g) =>
       queued'[q][h] = queued[q][h] /\ touched'[q][h] = touched[q][h]
  /\ \A o \in Owners, h \in Captures, s \in Sections :
       \/ o = p /\ h = g
       \/ o = Core /\ h = g /\ ~CloneReaches(Shape[s])
       \/ cell'[o][h][s] = cell[o][h][s]
  /\ \A s \in Sections :
       \/ queued'[p][g][s] \in {None, p}
       \/ queued'[p][g][s] = Core /\ ~CloneReaches(Shape[s])
  /\ queued'[p][g] # Nothing =>
       /\ queued'[p][g]["eventId"] # None
       /\ \A s \in Sections \ touched'[p][g] :
            /\ queued'[p][g][s] # None <=> s \in event[g].has \ Excluded(p)
            /\ cell'[p][g][s] = cell[Core][g][s]

(* What p may queue: the prepared payload, but for the changed sections.    *)
Fits(p, g, payload, own, changed) ==
  /\ payload \in [Sections -> Owners \union {None}]
  /\ own \in [Sections -> Contents] /\ changed \in SUBSET Sections
  /\ payload["eventId"] # None
  /\ \A s \in Sections :
       \/ payload[s] \in {None, p}
       \/ payload[s] = Core /\ ~CloneReaches(Shape[s])
  /\ \A s \in Sections \ changed :
       /\ payload[s] # None <=> s \in event[g].has \ Excluded(p)
       /\ own[s] = cell[Core][g][s]

LEMMA QueuesEffect ==
  ASSUME DuckInvariant, NEW p \in Providers, NEW g \in Captures,
         NEW payload, NEW own, NEW changed,
         Queues(p, g, payload, own, changed), Fits(p, g, payload, own, changed)
  PROVE  Effect(p, g)
<1>1. /\ payload \in [Sections -> Owners \union {None}]
      /\ own \in [Sections -> Contents] /\ changed \in SUBSET Sections
      /\ p \in Owners
  BY DEF Fits, Owners
<1>2. /\ queued' \in [Providers -> [Captures -> [Sections -> Owners \union {None}]]]
      /\ queued'[p][g] = payload
      /\ \A q \in Providers, h \in Captures :
           ~(q = p /\ h = g) => queued'[q][h] = queued[q][h]
  BY <1>1 DEF DuckInvariant, TypeOK, Queues
<1>5. /\ cell' \in [Owners -> [Captures -> [Sections -> Contents]]]
      /\ cell'[p][g] = own
      /\ \A o \in Owners, h \in Captures :
           ~(o = p /\ h = g) => cell'[o][h] = cell[o][h]
  BY <1>1 DEF DuckInvariant, TypeOK, Queues
<1>6. /\ touched' \in [Providers -> [Captures -> SUBSET Sections]]
      /\ touched'[p][g] = changed
      /\ \A q \in Providers, h \in Captures :
           ~(q = p /\ h = g) => touched'[q][h] = touched[q][h]
  BY <1>1 DEF DuckInvariant, TypeOK, Queues
<1>3. \A s \in Sections :
        \/ queued'[p][g][s] \in {None, p}
        \/ queued'[p][g][s] = Core /\ ~CloneReaches(Shape[s])
  BY <1>2 DEF Fits
<1>4. /\ queued'[p][g]["eventId"] # None
      /\ \A s \in Sections \ touched'[p][g] :
           /\ queued'[p][g][s] # None <=> s \in event[g].has \ Excluded(p)
           /\ cell'[p][g][s] = cell[Core][g][s]
  BY <1>2, <1>5, <1>6 DEF Fits
<1>7. \A o \in Owners, h \in Captures, s \in Sections :
        \/ o = p /\ h = g
        \/ o = Core /\ h = g /\ ~CloneReaches(Shape[s])
        \/ cell'[o][h][s] = cell[o][h][s]
  BY <1>5
<1>8. \A q \in Providers, h \in Captures : ~(q = p /\ h = g) =>
        queued'[q][h] = queued[q][h] /\ touched'[q][h] = touched[q][h]
  BY <1>2, <1>6
<1> QED
  BY <1>2, <1>3, <1>4, <1>5, <1>6, <1>7, <1>8, Zenon DEF Effect

LEMMA PreparesEffect ==
  ASSUME DuckInvariant, NEW p \in Providers, NEW g \in Captures, stage[g] = "dispatch",
         queued[p][g] = Nothing, PreparesAndQueues(p, g)
  PROVE  Effect(p, g)
<1>0. Core \in Owners
  BY DEF Owners
<1>1. cell[Core][g] \in [Sections -> Contents] /\ p \in Contents /\ p \in Owners
      /\ p # None /\ p # Core
  <2>1. cell[Core][g] \in [Sections -> Contents]
    <3>1. cell \in [Owners -> [Captures -> [Sections -> Contents]]]
      BY DEF DuckInvariant, TypeOK
    <3> QED
      BY <1>0, <3>1
  <2>2. p \in Contents /\ p \in Owners
    BY DEF Owners, Contents
  <2>3. p # None /\ p # Core
    OBVIOUS
  <2> QED
    BY <2>1, <2>2, <2>3
<1> DEFINE prepared == Prepared(p, g)
<1>p. /\ prepared \in [Sections -> Owners \union {None}]
      /\ "eventId" \in Sections /\ prepared["eventId"] # None
      /\ \A s \in Sections :
           /\ prepared[s] # None <=> s \in event[g].has \ Excluded(p)
           /\ \/ prepared[s] \in {None, p}
              \/ prepared[s] = Core /\ ~CloneReaches(Shape[s])
  BY PreparedIs
<1> HIDE DEF prepared
<1>2. CASE Keeps(p, g)
  <2>1. Fits(p, g, prepared, cell[Core][g], {})
    BY <1>1, <1>p DEF Fits
  <2> QED
    BY <1>2, <2>1, QueuesEffect DEF Keeps, prepared
<1>3. ASSUME NEW s \in Sections, HookPuts(p, g, s) PROVE Effect(p, g)
  <2> DEFINE payload == [prepared EXCEPT ![s] = p]
             own == [cell[Core][g] EXCEPT ![s] = p]
  <2>1. /\ payload \in [Sections -> Owners \union {None}]
        /\ payload["eventId"] # None
        /\ payload[s] = p /\ \A r \in Sections \ {s} : payload[r] = prepared[r]
    BY <1>1, <1>p
  <2>2. own \in [Sections -> Contents] /\ \A r \in Sections \ {s} : own[r] = cell[Core][g][r]
    BY <1>1
  <2>3. Queues(p, g, payload, own, {s})
    BY <1>3 DEF HookPuts, prepared
  <2> HIDE DEF payload, own
  <2>4. Fits(p, g, payload, own, {s})
    BY <1>p, <2>1, <2>2 DEF Fits
  <2> QED
    BY <2>3, <2>4, QueuesEffect
<1>4. ASSUME NEW s \in Sections, HookWrites(p, g, s) PROVE Effect(p, g)
  <2>1. ~CloneReaches(Shape[s])
    BY <1>1, <1>4, <1>p DEF HookWrites, prepared
  <2>2. /\ queued' \in [Providers -> [Captures -> [Sections -> Owners \union {None}]]]
        /\ queued'[p][g] = prepared
        /\ \A q \in Providers, h \in Captures :
             ~(q = p /\ h = g) => queued'[q][h] = queued[q][h]
    BY <1>4, <1>p DEF DuckInvariant, TypeOK, HookWrites, prepared
  <2>3. /\ touched' \in [Providers -> [Captures -> SUBSET Sections]]
        /\ touched'[p][g] = {s}
        /\ \A q \in Providers, h \in Captures :
             ~(q = p /\ h = g) => touched'[q][h] = touched[q][h]
    BY <1>4 DEF DuckInvariant, TypeOK, HookWrites
  <2>4. Core \in Owners
    BY DEF Owners
  <2>5. cell' = [cell EXCEPT ![p][g] = cell[Core][g], ![Core][g][s] = p]
    BY <1>4 DEF HookWrites
  <2>6. cell' \in [Owners -> [Captures -> [Sections -> Contents]]]
    BY <1>1, <2>4, <2>5 DEF DuckInvariant, TypeOK
  <2>7. cell'[p][g] = cell[Core][g]
    BY <1>1, <2>4, <2>5 DEF DuckInvariant, TypeOK
  <2>8. ASSUME NEW o \in Owners, NEW h \in Captures, NEW r \in Sections,
               ~(o = p /\ h = g), ~(o = Core /\ h = g /\ ~CloneReaches(Shape[r]))
        PROVE  cell'[o][h][r] = cell[o][h][r]
    <3>1. CASE o = Core /\ h = g
      BY <1>1, <2>1, <2>4, <2>5, <2>8, <3>1 DEF DuckInvariant, TypeOK
    <3>2. CASE ~(o = Core /\ h = g)
      BY <1>1, <2>4, <2>5, <2>8, <3>2 DEF DuckInvariant, TypeOK
    <3> QED
      BY <3>1, <3>2
  <2>9. /\ \A r \in Sections :
             \/ queued'[p][g][r] \in {None, p}
             \/ queued'[p][g][r] = Core /\ ~CloneReaches(Shape[r])
        /\ queued'[p][g]["eventId"] # None
        /\ \A r \in Sections \ touched'[p][g] :
             /\ queued'[p][g][r] # None <=> r \in event[g].has \ Excluded(p)
             /\ cell'[p][g][r] = cell[Core][g][r]
    BY <1>p, <2>2, <2>3, <2>7
  <2>10. \A o \in Owners, h \in Captures, r \in Sections :
           \/ o = p /\ h = g
           \/ o = Core /\ h = g /\ ~CloneReaches(Shape[r])
           \/ cell'[o][h][r] = cell[o][h][r]
    BY <2>8
  <2>11. \A q \in Providers, h \in Captures : ~(q = p /\ h = g) =>
           queued'[q][h] = queued[q][h] /\ touched'[q][h] = touched[q][h]
    BY <2>2, <2>3
  <2> QED
    BY <2>2, <2>3, <2>6, <2>9, <2>10, <2>11, Zenon DEF Effect
<1>5. ASSUME NEW s \in Sections, s # "eventId", HookRemoves(p, g, s) PROVE Effect(p, g)
  <2> DEFINE payload == [prepared EXCEPT ![s] = None]
  <2>1. /\ payload \in [Sections -> Owners \union {None}]
        /\ payload["eventId"] # None
        /\ payload[s] = None /\ \A r \in Sections \ {s} : payload[r] = prepared[r]
    BY <1>1, <1>5, <1>p
  <2>2. Queues(p, g, payload, cell[Core][g], {s})
    BY <1>5 DEF HookRemoves, prepared
  <2> HIDE DEF payload
  <2>3. Fits(p, g, payload, cell[Core][g], {s})
    BY <1>1, <1>p, <2>1 DEF Fits
  <2> QED
    BY <2>2, <2>3, QueuesEffect
<1>6. CASE HookDrops
  <2>1. queued'[p][g] = Nothing
    BY <1>6 DEF HookDrops
  <2> QED
    BY <1>6, <2>1 DEF HookDrops, Effect, DuckInvariant, TypeOK, Nothing
<1>7. ASSUME NEW s \in Sections, HookRemoves(p, g, s) PROVE Effect(p, g)
  BY <1>3, <1>5, <1>7 DEF HookRemoves
<1> QED
  BY <1>2, <1>3, <1>4, <1>6, <1>7 DEF PreparesAndQueues

(* What is known before and after a call of dispatch. *)
LEMMA CaptureEventFacts ==
  ASSUME DuckInvariant, NEW g \in Captures, CaptureEvent(g)
  PROVE  \E p \in Providers :
           /\ stage[g] = "dispatch"
           /\ p \in RangeOf(todo[g]) /\ offered[p][g] = 0 /\ queued[p][g] = Nothing
           /\ offered' = [offered EXCEPT ![p][g] = 1]
           /\ todo' = [todo EXCEPT ![g] = Tail(todo[g])]
           /\ Tail(todo[g]) \in Seq(Providers) /\ Injective(Tail(todo[g]))
           /\ RangeOf(Tail(todo[g])) = RangeOf(todo[g]) \ {p}
           /\ Effect(p, g)
           /\ UNCHANGED <<trace, inScope, providers, stage, event, known>>
<1> DEFINE p == Head(todo[g])
<1>1. /\ stage[g] = "dispatch" /\ todo[g] # << >>
      /\ offered' = [offered EXCEPT ![p][g] = offered[p][g] + 1]
      /\ PreparesAndQueues(p, g)
      /\ todo' = [todo EXCEPT ![g] = Tail(todo[g])]
      /\ UNCHANGED <<trace, inScope, providers, stage, event, known>>
  BY DEF CaptureEvent, DuckInvariant, TypeOK
<1>2. todo[g] \in Seq(Providers) /\ OffersOf(g)
  BY DEF DuckInvariant, TypeOK, Offers
<1>3. /\ p \in Providers /\ p \in RangeOf(todo[g])
      /\ Tail(todo[g]) \in Seq(Providers) /\ Injective(Tail(todo[g]))
      /\ RangeOf(Tail(todo[g])) = RangeOf(todo[g]) \ {p}
  BY <1>1, <1>2, TailOfInjective DEF OffersOf
<1> HIDE DEF p
<1>4. offered[p][g] = 0 /\ queued[p][g] = Nothing
  BY <1>2, <1>3 DEF OffersOf
<1>5. Effect(p, g)
  BY <1>1, <1>3, <1>4, PreparesEffect
<1>6. offered' = [offered EXCEPT ![p][g] = 1]
  BY <1>1, <1>4
<1> QED
  BY <1>1, <1>3, <1>4, <1>5, <1>6

LEMMA CaptureEventInv ==
  ASSUME DuckInvariant, NEW g \in Captures, CaptureEvent(g) PROVE DuckInvariant'
<1>1. PICK p \in Providers :
        /\ stage[g] = "dispatch"
        /\ p \in RangeOf(todo[g]) /\ offered[p][g] = 0 /\ queued[p][g] = Nothing
        /\ offered' = [offered EXCEPT ![p][g] = 1]
        /\ todo' = [todo EXCEPT ![g] = Tail(todo[g])]
        /\ Tail(todo[g]) \in Seq(Providers) /\ Injective(Tail(todo[g]))
        /\ RangeOf(Tail(todo[g])) = RangeOf(todo[g]) \ {p}
        /\ Effect(p, g)
        /\ UNCHANGED <<trace, inScope, providers, stage, event, known>>
  BY CaptureEventFacts
<1>2. /\ queued' \in [Providers -> [Captures -> [Sections -> Owners \union {None}]]]
      /\ cell' \in [Owners -> [Captures -> [Sections -> Contents]]]
      /\ touched' \in [Providers -> [Captures -> SUBSET Sections]]
  BY <1>1 DEF Effect
<1>3. \A q \in Providers, h \in Captures : ~(q = p /\ h = g) =>
        queued'[q][h] = queued[q][h] /\ touched'[q][h] = touched[q][h]
  BY <1>1 DEF Effect
<1>4. \A o \in Owners, h \in Captures, s \in Sections :
        \/ o = p /\ h = g
        \/ o = Core /\ h = g /\ ~CloneReaches(Shape[s])
        \/ cell'[o][h][s] = cell[o][h][s]
  BY <1>1 DEF Effect
<1>5. /\ \A s \in Sections :
           \/ queued'[p][g][s] \in {None, p}
           \/ queued'[p][g][s] = Core /\ ~CloneReaches(Shape[s])
      /\ queued'[p][g] # Nothing =>
           /\ queued'[p][g]["eventId"] # None
           /\ \A s \in Sections \ touched'[p][g] :
                /\ queued'[p][g][s] # None <=> s \in event[g].has \ Excluded(p)
                /\ cell'[p][g][s] = cell[Core][g][s]
  BY <1>1, Zenon DEF Effect
<1>6. Core \in Owners /\ p \in Owners /\ p # Core /\ p # None
  BY DEF Owners
<1>7. /\ offered' \in [Providers -> [Captures -> Nat]] /\ offered'[p][g] = 1
      /\ \A q \in Providers, h \in Captures :
           ~(q = p /\ h = g) => offered'[q][h] = offered[q][h]
  <2>1. offered \in [Providers -> [Captures -> Nat]]
    BY DEF DuckInvariant, TypeOK
  <2> QED
    BY <1>1, <2>1
<1>8. /\ todo' \in [Captures -> Seq(Providers)] /\ todo'[g] = Tail(todo[g])
      /\ \A h \in Captures : h # g => todo'[h] = todo[h]
  <2>1. todo \in [Captures -> Seq(Providers)]
    BY DEF DuckInvariant, TypeOK
  <2> QED
    BY <1>1, <2>1
<1>9. TypeOK'
  BY <1>1, <1>2, <1>7, <1>8 DEF DuckInvariant, TypeOK
<1>10. Pairs'
  BY <1>1 DEF DuckInvariant, Pairs, TraceIsAPair
<1>11. Offers'
  <2>1. ASSUME NEW h \in Captures, h # g PROVE OffersOf(h)'
    <3>1. OffersOf(h)
      BY DEF DuckInvariant, Offers
    <3> QED
      BY <1>1, <1>3, <1>7, <1>8, <2>1, <3>1, OffersStay
  <2>2. OffersOf(g)'
    <3>1. OffersOf(g)
      BY DEF DuckInvariant, Offers
    <3>2. Injective(todo[g])' /\ RangeOf(todo[g])' = RangeOf(todo[g]) \ {p}
      <4> DEFINE rest == Tail(todo[g])
      <4>1. todo'[g] = rest /\ Injective(rest) /\ RangeOf(rest) = RangeOf(todo[g]) \ {p}
        BY <1>1, <1>8
      <4> HIDE DEF rest
      <4>2. Injective(todo[g])'
        BY <4>1 DEF Injective
      <4>3. RangeOf(todo[g])' = RangeOf(rest)
        BY <4>1 DEF RangeOf
      <4> QED
        BY <4>1, <4>2, <4>3
    <3>3. Nothing' = Nothing
      BY DEF Nothing
    <3>4. ASSUME NEW q \in Providers
          PROVE  /\ offered'[q][g] \in {0, 1}
                 /\ q \in RangeOf(todo[g])' => offered'[q][g] = 0
                 /\ q \in known[g] => offered'[q][g] = 1 \/ q \in RangeOf(todo[g])'
                 /\ offered'[q][g] = 0 => queued'[q][g] = Nothing
      <4>1. CASE q = p
        BY <1>7, <3>2, <4>1
      <4>2. CASE q # p
        <5>1. offered'[q][g] = offered[q][g] /\ queued'[q][g] = queued[q][g]
          BY <1>3, <1>7, <4>2
        <5>2. /\ offered[q][g] \in {0, 1}
              /\ q \in RangeOf(todo[g]) => offered[q][g] = 0
              /\ q \in known[g] => offered[q][g] = 1 \/ q \in RangeOf(todo[g])
              /\ offered[q][g] = 0 => queued[q][g] = Nothing
          BY <1>1, <3>1 DEF OffersOf
        <5>3. q \in RangeOf(todo[g])' <=> q \in RangeOf(todo[g])
          BY <3>2, <4>2
        <5> QED
          BY <5>1, <5>2, <5>3
      <4> QED
        BY <4>1, <4>2
    <3> QED
      BY <1>1, <3>2, <3>3, <3>4 DEF OffersOf
  <2>3. Injective(providers)'
    BY <1>1 DEF DuckInvariant, Offers, Injective
  <2> QED
    BY <2>1, <2>2, <2>3 DEF Offers
<1>12. Separate'
  <2>1. ASSUME NEW h \in Captures, NEW s \in Sections PROVE Apart(h, s)'
    <3>1. Apart(h, s)
      BY DEF DuckInvariant, Separate
    <3>2. CloneReaches(Shape[s]) => cell'[Core][h][s] = cell[Core][h][s]
      BY <1>4, <1>6
    <3>3. ASSUME NEW q \in Providers
          PROVE  \/ queued'[q][h][s] \in {None, q}
                 \/ queued'[q][h][s] = Core /\ ~CloneReaches(Shape[s])
      <4>1. CASE q = p /\ h = g
        BY <1>5, <4>1
      <4>2. CASE ~(q = p /\ h = g)
        BY <1>3, <3>1, <4>2 DEF Apart
      <4> QED
        BY <4>1, <4>2
    <3> QED
      BY <1>1, <3>1, <3>2, <3>3 DEF Apart
  <2> QED
    BY <2>1 DEF Separate
<1>13. OwnOptionsOnly'
  <2>1. ASSUME NEW q \in Providers, NEW h \in Captures, ~(q = p /\ h = g)
        PROVE  OwnCopy(q, h)'
    <3>1. OwnCopy(q, h)
      BY DEF DuckInvariant, OwnOptionsOnly
    <3>2. ASSUME NEW s \in Sections, queued[q][h][s] # None, CloneReaches(Shape[s])
          PROVE  cell'[queued[q][h][s]][h][s] = cell[queued[q][h][s]][h][s]
      <4>1. queued[q][h][s] = q
        BY <3>2 DEF DuckInvariant, Separate, Apart
      <4>2. q \in Owners /\ q # Core
        BY DEF Owners
      <4> QED
        BY <1>4, <2>1, <4>1, <4>2
    <3> QED
      BY <1>1, <1>3, <2>1, <3>1, <3>2, CopyStays
  <2>2. OwnCopy(p, g)'
    <3>1. ASSUME queued'[p][g] # Nothing, NEW s \in Sections \ touched'[p][g],
                 queued'[p][g][s] # None, CloneReaches(Shape[s])
          PROVE  cell'[queued'[p][g][s]][g][s] = Sanitized(Shape[s])
      <4>1. queued'[p][g][s] = p
        BY <1>5, <3>1
      <4>2. cell'[p][g][s] = cell[Core][g][s]
        BY <1>5, <3>1
      <4>3. Apart(g, s)
        BY DEF DuckInvariant, Separate
      <4>4. cell[Core][g][s] = Sanitized(Shape[s])
        BY <1>1, <3>1, <4>3 DEF Apart
      <4> QED
        BY <4>1, <4>2, <4>4
    <3>2. Nothing' = Nothing
      BY DEF Nothing
    <3>3. event'[g].has = event[g].has
      BY <1>1
    <3> QED
      BY <1>5, <3>1, <3>2, <3>3 DEF OwnCopy, Present, Content
  <2> QED
    BY <2>1, <2>2 DEF OwnOptionsOnly
<1> QED
  BY <1>9, <1>10, <1>11, <1>12, <1>13 DEF DuckInvariant

-----------------------------------------------------------------------------
LEMMA StepInv == DuckInvariant /\ [Next]_vars => DuckInvariant'
<1> SUFFICES ASSUME DuckInvariant, [Next]_vars PROVE DuckInvariant'
  OBVIOUS
<1>1. CASE Next
  BY <1>1, ScopeInv, RegisterProviderInv, BuildsInv, ListsProvidersInv, CaptureEventInv
     DEF Next, Application
<1>2. CASE UNCHANGED vars
  <2> USE <1>2 DEF vars
  <2>1. TypeOK'
    BY DEF DuckInvariant, TypeOK
  <2>2. Pairs'
    BY DEF DuckInvariant, Pairs, TraceIsAPair
  <2>3. Offers'
    <3>1. Injective(providers)' /\ RangeOf(providers) \subseteq RangeOf(providers')
      BY DEF DuckInvariant, Offers, Injective
    <3> QED
      BY <3>1, OffersStay DEF DuckInvariant, Offers
  <2>4. Separate'
    BY DEF DuckInvariant, Separate, Apart
  <2>5. OwnOptionsOnly'
    BY CopyStays DEF DuckInvariant, OwnOptionsOnly
  <2> QED
    BY <2>1, <2>2, <2>3, <2>4, <2>5 DEF DuckInvariant
<1> QED
  BY <1>1, <1>2

(* Every reachable state satisfies the inductive invariant. *)
THEOREM Invariance == Spec => []DuckInvariant
BY InitInv, StepInv, PTL DEF Spec

-----------------------------------------------------------------------------
(* The properties. *)

(* The variables keep their types, and no registered provider is nil.       *)
THEOREM TypeCorrect == Spec => []TypeOK
<1>1. DuckInvariant => TypeOK
  BY DEF DuckInvariant
<1> QED
  BY <1>1, Invariance, PTL

(* An event's trace id and span id were set together. *)
THEOREM TracesAreWhole == Spec => []TraceIsAPair
<1>1. DuckInvariant => TraceIsAPair
  BY DEF DuckInvariant, Pairs
<1> QED
  BY <1>1, Invariance, PTL

(* Every provider registered before a capture is offered its event, once.   *)
THEOREM EveryProviderOnce == Spec => []OfferedOnce
<1>1. DuckInvariant => OfferedOnce
  <2> SUFFICES ASSUME DuckInvariant, NEW g \in Captures, NEW p \in Providers
               PROVE  /\ offered[p][g] <= 1
                      /\ stage[g] = "dispatch" /\ todo[g] = << >> /\ p \in known[g] =>
                           offered[p][g] = 1
    BY DEF OfferedOnce
  <2>1. OffersOf(g)
    BY DEF DuckInvariant, Offers
  <2>2. todo[g] = << >> => RangeOf(todo[g]) = {}
    BY DEF RangeOf
  <2> QED
    BY <2>1, <2>2 DEF OffersOf
<1> QED
  BY <1>1, Invariance, PTL

(* Neither the options nor the beforeSend of one provider show in what      *)
(* another queues, where cloneMap reaches.                                  *)
THEOREM ProvidersAreApart == Spec => []OwnOptionsOnly
<1>1. DuckInvariant => OwnOptionsOnly
  BY DEF DuckInvariant
<1> QED
  BY <1>1, Invariance, PTL

(* What is queued stays as it was queued, where cloneMap reaches. *)
THEOREM QueuesAreStable == Spec => QueuedStays
<1> DEFINE Stays == \A p \in Providers, g \in Captures, s \in Sections :
             Present(p, g, s) /\ CloneReaches(Shape[s]) =>
               Present(p, g, s)' /\ Content(p, g, s)' = Content(p, g, s)
<1>1. DuckInvariant /\ [Next]_vars => [Stays]_vars
  <2> SUFFICES ASSUME DuckInvariant, Next, NEW p \in Providers, NEW g \in Captures,
                      NEW s \in Sections, queued[p][g][s] # None, CloneReaches(Shape[s])
               PROVE  /\ queued'[p][g][s] = queued[p][g][s]
                      /\ cell'[queued[p][g][s]][g][s] = cell[queued[p][g][s]][g][s]
    BY DEF Present, Content
  <2>1. queued[p][g][s] = p /\ p \in Owners /\ p # Core
    BY DEF DuckInvariant, Separate, Apart, Owners
  <2>2. CASE Application
    BY <2>2 DEF Application, SetTrace, SetSection, ClearSection, RegisterProvider
  <2>3. ASSUME NEW h \in Captures, Builds(h)
        PROVE  queued'[p] = queued[p] /\ cell'[p] = cell[p]
    BY <2>1, <2>3 DEF DuckInvariant, TypeOK, Builds, Snapshot, Collected
  <2>4. ASSUME NEW h \in Captures, ListsProviders(h)
        PROVE  queued' = queued /\ cell' = cell
    BY <2>4 DEF ListsProviders
  <2>5. ASSUME NEW h \in Captures, CaptureEvent(h)
        PROVE  queued'[p][g] = queued[p][g] /\ cell'[p][g][s] = cell[p][g][s]
    <3>1. PICK q \in Providers : queued[q][h] = Nothing /\ Effect(q, h)
      BY <2>5, CaptureEventFacts
    <3>2. ~(p = q /\ g = h)
      BY <3>1 DEF Nothing
    <3>3. queued'[p][g] = queued[p][g]
      BY <3>1, <3>2 DEF Effect
    <3>4. cell'[p][g][s] = cell[p][g][s]
      BY <2>1, <3>1, <3>2 DEF Effect
    <3> QED
      BY <3>3, <3>4
  <2> QED
    BY <2>1, <2>2, <2>3, <2>4, <2>5 DEF Next
<1> QED
  BY <1>1, Invariance, PTL DEF Spec, QueuedStays
=============================================================================
