----------------------------- MODULE WaitGroup -----------------------------
(***************************************************************************)
(* The wait group as Provider takes it: Add, Done and the return of a Wait *)
(* are a step each, a Wait returns at zero and only then, and the process  *)
(* goes on whatever is called when.                                        *)
(***************************************************************************)
EXTENDS Naturals

CONSTANT Calls          \* the calls of Wait

VARIABLES pending,      \* the number of Adds without their Done
          back,         \* the calls of Wait that have returned
          running       \* the process has not panicked

vars == <<pending, back, running>>

Init == pending = 0 /\ back = {} /\ running = TRUE

Add == /\ pending' = pending + 1
       /\ UNCHANGED <<back, running>>

Done == /\ pending > 0
        /\ pending' = pending - 1
        /\ UNCHANGED <<back, running>>

Return(w) == /\ pending = 0 /\ w \notin back
             /\ back' = back \union {w}
             /\ UNCHANGED <<pending, running>>

Next == Add \/ Done \/ \E w \in Calls : Return(w)

Spec == Init /\ [][Next]_vars
=============================================================================
