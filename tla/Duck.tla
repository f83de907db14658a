-------------------------------- MODULE Duck --------------------------------
(***************************************************************************)
(* Captures of core/duck.go: the scope they read, the payload they build,  *)
(* and what each of several DuckBug providers makes of it in               *)
(* preparePayload (provider.go) before it queues it.                       *)
(*                                                                         *)
(* A payload is its sections.  The value of a section is known by its      *)
(* shape, the containers on the way to a sensitive field in it, outermost  *)
(* first: "map" and "list" are map[string]any and []any, "maps" is         *)
(* []map[string]any; a string has the empty shape.  Values live in cells,  *)
(* so that a value two payloads share is seen to be shared.                *)
(***************************************************************************)
EXTENDS Naturals, Sequences

CONSTANTS
  Captures,    \* the calls of Quack, Log and CaptureTransaction
  Type,        \* Type[g] is the type of event that capture g is of
  InRequest,   \* the captures whose context has a request
  Providers,
  Initial,     \* the providers of the configuration, in order
  Privacy,     \* the PrivacyOptions of each provider
  Hooked,      \* the providers with a beforeSend
  Edited,      \* a bound: the sections a beforeSend changes
  Sections,
  Shape,       \* the shape of the value of a section
  Traces,      \* what SetTrace is called with
  Core, None   \* the owner of what core builds; nothing

RequestSections == {"url", "headers"}
ScopeSections == {"breadcrumbs", "extra"}
Containers == {"map", "list", "maps"}

ASSUME DuckAssumption ==
  /\ Type \in [Captures -> {"errors", "logs", "transactions"}]
  /\ InRequest \subseteq Captures
  /\ \A i, j \in DOMAIN Initial : Initial[i] = Initial[j] => i = j
  /\ Initial \in Seq(Providers) /\ Hooked \subseteq Providers /\ Edited \subseteq Sections
  /\ Privacy \in [Providers -> [request : BOOLEAN, headers : BOOLEAN, env : BOOLEAN]]
  /\ Sections = RequestSections \union ScopeSections \union {"eventId", "env"}
  /\ Shape \in [Sections -> Seq(Containers)]
  /\ Core \notin Providers /\ None \notin Providers /\ Core # None
  /\ {"clean", "sensitive"} \intersect Providers = {}

VARIABLES
  trace,      \* the scope's traceID and spanID
  inScope,        \* the sections of the scope that are set
  providers,  \* d.providers
  stage,      \* where each capture stands
  event,      \* what it has built
  todo,       \* the providers dispatch has still to call
  cell,       \* cell[o][g][s]: the content of o's value of section s
  queued,     \* queued[p][g][s]: whose value of s is in p's queue
  offered,    \* how often p.CaptureEvent was called for g
  touched,    \* history: the sections that p's own beforeSend changed
  known       \* history: the providers registered when g began

vars == <<trace, inScope, providers, stage, event, todo, cell, queued, offered, touched, known>>

Owners == Providers \union {Core}
Contents == {"clean", "sensitive"} \union Providers
Ids == Traces \union Captures \union {None}
Nothing == [s \in Sections |-> None]
RangeOf(seq) == {seq[i] : i \in DOMAIN seq}

Init ==
  /\ trace = <<None, None>>
  /\ inScope = {}
  /\ providers = Initial
  /\ stage = [g \in Captures |-> "idle"]
  /\ event = [g \in Captures |-> [trace |-> <<None, None>>, has |-> {}]]
  /\ todo = [g \in Captures |-> << >>]
  /\ cell = [o \in Owners |-> [g \in Captures |-> [s \in Sections |-> "clean"]]]
  /\ queued = [p \in Providers |-> [g \in Captures |-> Nothing]]
  /\ offered = [p \in Providers |-> [g \in Captures |-> 0]]
  /\ touched = [p \in Providers |-> [g \in Captures |-> {}]]
  /\ known = [g \in Captures |-> {}]

-----------------------------------------------------------------------------
(* The scope and the registry, each behind its lock. *)

(* A mutant: the two ids are set under a lock each. *)
SetTraceByHalves(t) ==
  /\ trace' \in {<<t, trace[2]>>, <<trace[1], t>>}
  /\ UNCHANGED <<inScope, providers, stage, event, todo, cell, queued, offered, touched, known>>

SetTrace(t) ==
  /\ trace' = <<t, t>>
  /\ UNCHANGED <<inScope, providers, stage, event, todo, cell, queued, offered, touched, known>>

(* AddBreadcrumb, SetExtra with something. *)
SetSection(s) ==
  /\ inScope' = inScope \union {s}
  /\ UNCHANGED <<trace, providers, stage, event, todo, cell, queued, offered, touched, known>>

(* ClearBreadcrumbs, SetExtra with nothing. *)
ClearSection(s) ==
  /\ inScope' = inScope \ {s}
  /\ UNCHANGED <<trace, providers, stage, event, todo, cell, queued, offered, touched, known>>

(* Nobody registers a provider twice. *)
RegisterProvider(p) ==
  /\ p # None
  /\ p \notin RangeOf(providers)
  /\ providers' = Append(providers, p)
  /\ UNCHANGED <<trace, inScope, stage, event, todo, cell, queued, offered, touched, known>>

-----------------------------------------------------------------------------
(* What core builds. *)

(* sanitizeValue descends into maps and lists, and returns the rest as is.  *)
SanitizeReaches(shape) == \A i \in DOMAIN shape : shape[i] \in {"map", "list"}

Sanitized(shape) == IF SanitizeReaches(shape) THEN "clean" ELSE "sensitive"

(* snapshot, under the lock: deep copies of what is set. *)
Snapshot == [trace |-> trace, has |-> inScope]

(* Collect: the request, if the context has one, and the environment. *)
Collected(g) == {"env"} \union (IF g \in InRequest THEN RequestSections ELSE {})

(* buildBasePayload takes one snapshot of the scope; a transaction brings   *)
(* its own ids.  NewEvent clones what has been built.                       *)
Builds(g) ==
  /\ stage[g] = "idle"
  /\ stage' = [stage EXCEPT ![g] = "built"]
  /\ event' = [event EXCEPT ![g] =
       [trace |-> IF Type[g] = "transactions" THEN <<g, g>> ELSE Snapshot.trace,
        has   |-> {"eventId"} \union Snapshot.has \union Collected(g)]]
  /\ cell' = [cell EXCEPT ![Core][g] = [s \in Sections |-> Sanitized(Shape[s])]]
  /\ known' = [known EXCEPT ![g] = RangeOf(providers)]
  /\ UNCHANGED <<trace, inScope, providers, todo, queued, offered, touched>>

(* A mutant: the loop over the copy stops one short. *)
ListsAllButOne(g) ==
  /\ stage[g] = "built"
  /\ stage' = [stage EXCEPT ![g] = "dispatch"]
  /\ todo' = [todo EXCEPT ![g] = SubSeq(providers, 1, Len(providers) - 1)]
  /\ UNCHANGED <<trace, inScope, providers, event, cell, queued, offered, touched, known>>

(* getProviders copies the list. *)
ListsProviders(g) ==
  /\ stage[g] = "built"
  /\ stage' = [stage EXCEPT ![g] = "dispatch"]
  /\ todo' = [todo EXCEPT ![g] = providers]
  /\ UNCHANGED <<trace, inScope, providers, event, cell, queued, offered, touched, known>>

-----------------------------------------------------------------------------
(* What a provider makes of it. *)

(* cloneMap copies maps, and lists with the maps in them, but not a list in *)
(* a list.                                                                  *)
CloneReaches(shape) ==
  \A i \in DOMAIN shape :
    \/ shape[i] = "map"
    \/ shape[i] = "list" /\ (i = 1 \/ shape[i - 1] = "map")

(* applyPrivacy. *)
Excluded(p) ==
  (IF ~Privacy[p].request THEN RequestSections
   ELSE IF ~Privacy[p].headers THEN {"headers"} ELSE {})
  \union (IF Privacy[p].env THEN {} ELSE {"env"})

(* A mutant: the payload is copied at its top level only. *)
PreparedShallow(p, g) ==
  [s \in Sections |-> IF s \in event[g].has \ Excluded(p)
                        THEN IF Shape[s] = << >> THEN p ELSE Core
                        ELSE None]

Prepared(p, g) ==
  [s \in Sections |-> IF s \in event[g].has \ Excluded(p)
                        THEN IF CloneReaches(Shape[s]) THEN p ELSE Core
                        ELSE None]

Queues(p, g, payload, own, changed) ==
  /\ queued' = [queued EXCEPT ![p][g] = payload]
  /\ cell' = [cell EXCEPT ![p][g] = own]
  /\ touched' = [touched EXCEPT ![p][g] = changed]

(* beforeSend leaves everything, or there is none. *)
Keeps(p, g) == Queues(p, g, Prepared(p, g), cell[Core][g], {})

(* beforeSend gives a section a new value, or changes its own copy of it.   *)
HookPuts(p, g, s) ==
  Queues(p, g, [Prepared(p, g) EXCEPT ![s] = p], [cell[Core][g] EXCEPT ![s] = p], {s})

(* beforeSend changes a value that is still the event's. *)
HookWrites(p, g, s) ==
  /\ Prepared(p, g)[s] = Core
  /\ queued' = [queued EXCEPT ![p][g] = Prepared(p, g)]
  /\ cell' = [cell EXCEPT ![p][g] = cell[Core][g], ![Core][g][s] = p]
  /\ touched' = [touched EXCEPT ![p][g] = {s}]

(* beforeSend removes a section; ensureEventID mints another id. *)
HookRemoves(p, g, s) ==
  IF s = "eventId" THEN HookPuts(p, g, s)
  ELSE Queues(p, g, [Prepared(p, g) EXCEPT ![s] = None], cell[Core][g], {s})

HookDrops == UNCHANGED <<cell, queued, touched>>

PreparesAndQueues(p, g) ==
  \/ Keeps(p, g)
  \/ /\ p \in Hooked
     /\ \/ \E s \in Edited : HookPuts(p, g, s) \/ HookWrites(p, g, s) \/ HookRemoves(p, g, s)
        \/ HookDrops

(* A mutant: the options are applied to the event, which all providers get. *)
CaptureEventInPlace(g) ==
  /\ stage[g] = "dispatch" /\ todo[g] # << >>
  /\ LET p == Head(todo[g])
     IN  /\ offered' = [offered EXCEPT ![p][g] = @ + 1]
         /\ PreparesAndQueues(p, g)
         /\ event' = [event EXCEPT ![g].has = @ \ Excluded(p)]
  /\ todo' = [todo EXCEPT ![g] = Tail(@)]
  /\ UNCHANGED <<trace, inScope, providers, stage, known>>

(* One call of dispatch. *)
CaptureEvent(g) ==
  /\ stage[g] = "dispatch" /\ todo[g] # << >>
  /\ LET p == Head(todo[g])
     IN  /\ offered' = [offered EXCEPT ![p][g] = @ + 1]
         /\ PreparesAndQueues(p, g)
  /\ todo' = [todo EXCEPT ![g] = Tail(@)]
  /\ UNCHANGED <<trace, inScope, providers, stage, event, known>>

-----------------------------------------------------------------------------
Application ==
  \/ \E t \in Traces : SetTrace(t)
  \/ \E s \in ScopeSections : SetSection(s) \/ ClearSection(s)
  \/ \E p \in Providers \union {None} : RegisterProvider(p)

Next ==
  \/ Application
  \/ \E g \in Captures : Builds(g) \/ ListsProviders(g) \/ CaptureEvent(g)

Spec == Init /\ [][Next]_vars
-----------------------------------------------------------------------------
(* Properties. *)

(* The variables keep their types; no provider in the list is nil. *)
TypeOK ==
  /\ trace \in Ids \X Ids
  /\ inScope \subseteq ScopeSections
  /\ providers \in Seq(Providers)
  /\ stage \in [Captures -> {"idle", "built", "dispatch"}]
  /\ event \in [Captures -> [trace : Ids \X Ids, has : SUBSET Sections]]
  /\ todo \in [Captures -> Seq(Providers)]
  /\ cell \in [Owners -> [Captures -> [Sections -> Contents]]]
  /\ queued \in [Providers -> [Captures -> [Sections -> Owners \union {None}]]]
  /\ offered \in [Providers -> [Captures -> Nat]]
  /\ touched \in [Providers -> [Captures -> SUBSET Sections]]
  /\ known \in [Captures -> SUBSET Providers]

(* The trace id and the span id of an event were set together, however many *)
(* goroutines call SetTrace meanwhile.                                      *)
TraceIsAPair == \A g \in Captures : event[g].trace[1] = event[g].trace[2]

(* dispatch offers an event to every provider that was registered when the  *)
(* capture began, and to none twice, also while RegisterProvider runs.      *)
OfferedOnce ==
  \A g \in Captures, p \in Providers :
    /\ offered[p][g] <= 1
    /\ stage[g] = "dispatch" /\ todo[g] = << >> /\ p \in known[g] => offered[p][g] = 1

Present(p, g, s) == queued[p][g][s] # None
Content(p, g, s) == cell[queued[p][g][s]][g][s]

OwnCopy(p, g) ==
  queued[p][g] # Nothing =>
    /\ Present(p, g, "eventId")
    /\ \A s \in Sections \ touched[p][g] :
         /\ Present(p, g, s) <=> s \in event[g].has \ Excluded(p)
         /\ Present(p, g, s) /\ CloneReaches(Shape[s]) =>
              Content(p, g, s) = Sanitized(Shape[s])

(* What a provider queues is the event as built, less what its own options  *)
(* exclude, and but for what its own beforeSend did: neither the options    *)
(* nor the hook of another provider show in it.  It always has an id.       *)
OwnOptionsOnly == \A p \in Providers, g \in Captures : OwnCopy(p, g)

(* A payload in a queue does not change while other providers prepare       *)
(* theirs, in the sections that cloneMap reaches.                           *)
QueuedStays ==
  [][\A p \in Providers, g \in Captures, s \in Sections :
       Present(p, g, s) /\ CloneReaches(Shape[s]) =>
         Present(p, g, s)' /\ Content(p, g, s)' = Content(p, g, s)]_vars

(* What README.md:147 says of the sections: no sensitive field of the       *)
(* application's leaves unmasked, unless a beforeSend put it there.         *)
NestedFieldsMasked ==
  \A p \in Providers, g \in Captures, s \in Sections :
    Present(p, g, s) /\ s \notin touched[p][g] => Content(p, g, s) # "sensitive"
=============================================================================
