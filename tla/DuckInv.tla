------------------------------- MODULE DuckInv -------------------------------
(* The inductive invariant of Duck. *)
EXTENDS Duck

(* The scope never holds half of a trace. *)
Pairs == trace[1] = trace[2] /\ TraceIsAPair

Injective(seq) == \A i, j \in DOMAIN seq : seq[i] = seq[j] => i = j

(* Who has been offered an event, and who is still to be. *)
OffersOf(g) ==
  /\ Injective(todo[g])
  /\ stage[g] = "built" => known[g] \subseteq RangeOf(providers)
  /\ \A p \in Providers :
       /\ offered[p][g] \in {0, 1}
       /\ stage[g] # "dispatch" => offered[p][g] = 0
       /\ p \in RangeOf(todo[g]) => offered[p][g] = 0
       /\ stage[g] = "dispatch" /\ p \in known[g] =>
            offered[p][g] = 1 \/ p \in RangeOf(todo[g])
       /\ offered[p][g] = 0 => queued[p][g] = Nothing

Offers == Injective(providers) /\ \A g \in Captures : OffersOf(g)

(* Whatever beforeSend hooks do, core's values stay as they were built      *)
(* where cloneMap reaches, and no queue refers to them there.               *)
Apart(g, s) ==
  /\ stage[g] # "idle" => "eventId" \in event[g].has
  /\ stage[g] # "idle" /\ CloneReaches(Shape[s]) =>
       cell[Core][g][s] = Sanitized(Shape[s])
  /\ \A p \in Providers :
       \/ queued[p][g][s] \in {None, p}
       \/ queued[p][g][s] = Core /\ ~CloneReaches(Shape[s])

Separate == \A g \in Captures, s \in Sections : Apart(g, s)

DuckInvariant ==
  /\ TypeOK
  /\ Pairs
  /\ Offers
  /\ Separate
  /\ OwnOptionsOnly
=============================================================================
