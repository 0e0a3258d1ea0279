-------------------------- MODULE MCCronScheduler --------------------------
(* Processes of the same session and of two: an owner can die, stop or shut *)
(* down, and another process takes its place while what the first has begun *)
(* is under way.                                                            *)
EXTENDS CronScheduler, FiniteSets, TLC

CONSTANT p1     \* one of the processes

Alike == Permutations(Processes)

\* Explored is what can still break a property: after an overlap of two file
\* operations only OneOwner says anything, and no file operation bears on it.
\* Three processes contend for the lock while there is no task; with one, two
\* do, of one session or of two, until the lock is lost but by a shutdown.
\* Sessions are numbered by their size.
Explored ==
    /\ ~damaged
    /\ Cardinality({p \in Processes : session[p] = 1}) > 1
    /\ \/ created = {}
       \/ /\ \E p \in Processes : lock[p] = "unborn"
          /\ \E p \in Processes : session[p] # 1
          /\ \A p \in lost : lock[p] = "released"

\* One-shot tasks, in the file from the start, and processes of two sessions.
\* The histories that only the invariants are about start full, and so stay
\* as they are.
OneShots ==
    /\ FirstState /\ recurring = {} /\ created = Tasks
    /\ session[p1] = 1 /\ \E p \in Processes : session[p] = 2
    /\ lost = Processes /\ again = Tasks
    /\ stale = TRUE /\ damaged = TRUE

LiveOneShots == OneShots /\ [][Next]_vars /\ Fairness
=============================================================================
