----------------------------- MODULE TurnOwner ------------------------------
(***************************************************************************)
(* What the query guard promises: the turn has at most one owner.  It goes *)
(* from nobody to a new query and back to nobody, never from one query to  *)
(* another; it may be revoked from a query that is still unwinding, and    *)
(* such a query does not touch the turn of its successor when it ends.     *)
(***************************************************************************)
CONSTANT Exec

VARIABLES
    unfinished,   \* queries that started and did not end
    owners        \* those that own the turn: at most one

Init == unfinished = {} /\ owners = {}

Start(e) ==
    /\ owners = {}
    /\ e \notin unfinished
    /\ owners' = {e}
    /\ unfinished' = unfinished \cup {e}

Finish(e) ==
    /\ e \in unfinished
    /\ unfinished' = unfinished \ {e}
    /\ owners' = owners \ {e}

Revoke ==
    /\ owners' = {}
    /\ UNCHANGED unfinished

Next == Revoke \/ \E e \in Exec : Start(e) \/ Finish(e)

Spec == Init /\ [][Next]_<<unfinished, owners>>
=============================================================================
