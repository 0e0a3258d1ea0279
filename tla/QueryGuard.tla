----------------------------- MODULE QueryGuard -----------------------------
(***************************************************************************)
(* The state machine of the query lifecycle (utils/QueryGuard.ts): the     *)
(* guard as a value, and its methods as operators from a guard to a guard. *)
(* A refused call leaves the guard as it is.                               *)
(***************************************************************************)
EXTENDS Naturals

Guard == [status : {"idle", "dispatching", "running"}, generation : Nat]

IdleGuard == [status |-> "idle", generation |-> 0]

isActive(g) == g.status # "idle"

reserve(g) == IF g.status = "idle" THEN [g EXCEPT !.status = "dispatching"] ELSE g

\* Any caller releases any reservation: it carries no generation.
cancelReservation(g) ==
    IF g.status = "dispatching" THEN [g EXCEPT !.status = "idle"] ELSE g

\* tryStart returns null exactly when CanStart is false; otherwise the new
\* generation is the one of Started(g).
CanStart(g) == g.status # "running"
Started(g)  == [status |-> "running", generation |-> g.generation + 1]

\* end(n) returns true exactly when Ends(g, n) holds.
Ends(g, n) == g.status = "running" /\ g.generation = n
end(g, n)  == IF Ends(g, n) THEN [g EXCEPT !.status = "idle"] ELSE g

forceEnd(g) ==
    IF isActive(g) THEN [status |-> "idle", generation |-> g.generation + 1] ELSE g
=============================================================================
