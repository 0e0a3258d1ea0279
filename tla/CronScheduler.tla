--------------------------- MODULE CronScheduler ---------------------------
(***************************************************************************)
(* Scheduled tasks: the processes of one project directory each run a      *)
(* scheduler (utils/cronScheduler.ts) over the task file                   *)
(* (utils/cronTasks.ts).  The owner of the lock fires what is due at each  *)
(* tick, unless a turn or the kill switch holds it up, and then takes it   *)
(* out of the file, or stamps it if it recurs, in asynchronous             *)
(* read-modify-writes that nothing serializes; a watcher reloads the file  *)
(* some time after it was written.  Tasks are created meanwhile, and       *)
(* processes come, stop, shut down and die.                                *)
(*                                                                         *)
(* Time is a count, for each task, of its times that have passed since it  *)
(* was created; the time of a tick is that count.                          *)
(***************************************************************************)
EXTENDS SchedulerLock

CONSTANTS
    Tasks,
    MaxDue          \* bound on the times of a task

ASSUME CronAssumption == MaxDue \in Nat \ {0}

VARIABLES
    recurring,  \* the tasks that recur
    disk,       \* the task file
    clock,      \* the times of each task that have passed
    sched,      \* the scheduler of each process
    held,       \* the processes whose ticks do nothing: in a turn, or killed
    ops,        \* the file operations under way in each process
    created,    \* tasks whose creation has begun
    settled,    \* history: tasks rightly taken from the file
    fired,      \* history: the last time each task was fired for
    again,      \* history: tasks fired twice for one time
    stale,      \* history: a task was fired ahead of the file or beside
                \* another owner, or what was fired never reached the file
    damaged     \* history: two operations overlapped, or one was cut short

tasksVars == <<recurring, disk, clock, sched, held, ops, created, settled,
               fired, again, stale, damaged>>
vars == <<lockVars, tasksVars>>

-----------------------------------------------------------------------------
Once == Tasks \ recurring

(***************************************************************************)
(* What a task file says of each task: absent, or the time it was last     *)
(* fired for (lastFiredAt), 0 if never.  writeFile truncates the file      *)
(* before it fills it; in between the file reads as empty.                 *)
(***************************************************************************)
Absent == -1
Entries == [Tasks -> -1..MaxDue]
Disk == [whole : BOOLEAN, entries : Entries]
Empty == [t \in Tasks |-> Absent]

Present(entries) == {t \in Tasks : entries[t] # Absent}

\* nextFireAt: not computed yet, the count at which to fire, or never.
Unset == 0
Never == MaxDue + 1

Sched == [phase : {"starting", "loading", "running"}, tasks : Entries,
          next : [Tasks -> 0..MaxDue + 1], inFlight : SUBSET Tasks,
          dirty : BOOLEAN]

NewSched == [phase |-> "starting", tasks |-> Empty,
             next |-> [t \in Tasks |-> Unset], inFlight |-> {},
             dirty |-> FALSE]

(***************************************************************************)
(* A read-modify-write of the task file: the removal of a fired task or    *)
(* of missed ones, the stamping of fired ones, the creation of one.        *)
(***************************************************************************)
Op == [kind : {"remove", "discard", "mark", "add"}, ids : SUBSET Tasks,
       at : Entries, stage : {"reading", "writing", "filling"},
       out : Entries]

NewOp(kind, ids, at) ==
    [kind |-> kind, ids |-> ids, at |-> at, stage |-> "reading",
     out |-> Empty]

FirstState ==
    /\ LockInit
    /\ recurring \in SUBSET Tasks
    /\ created \in SUBSET Tasks
    /\ disk = [whole |-> TRUE,
               entries |-> [t \in Tasks |-> IF t \in created THEN 0
                                                             ELSE Absent]]
    /\ clock = [t \in Tasks |-> 0]
    /\ sched = [p \in Processes |-> NewSched]
    /\ held = {}
    /\ ops = [p \in Processes |-> {}]
    /\ settled = {}
    /\ fired = [t \in Tasks |-> 0]

NoHistory ==
    /\ lost = {} /\ again = {}
    /\ stale = FALSE /\ damaged = FALSE

Init == FirstState /\ NoHistory

rest == <<recurring, settled, fired, again, stale>>

-----------------------------------------------------------------------------
(* A tick. *)

\* The tasks a tick looks at: those of the file, for the owner only.
Seen(p) == IF IsOwner(p) THEN Present(sched[p].tasks) ELSE {}

\* Mutant: anchored in the time of the tick.
NextFireFromNow(p, t) ==
    IF sched[p].next[t] = Unset /\ t \notin sched[p].inFlight
    THEN clock[t] + 1 ELSE sched[p].next[t]

\* nextFireAt, anchored at first sight in what the file says of the task.
NextFire(p, t) ==
    IF sched[p].next[t] = Unset /\ t \notin sched[p].inFlight
    THEN sched[p].tasks[t] + 1 ELSE sched[p].next[t]

\* Mutant: the set inFlight is not consulted.
DueInFlight(p) == {t \in Seen(p) : clock[t] >= NextFire(p, t)}

Due(p) == {t \in Seen(p) \ sched[p].inFlight : clock[t] >= NextFire(p, t)}

\* A tick that would fire finds isLoading or isKilled true, and so do those
\* after it until the turn ends.
HoldUp(p) ==
    /\ Running(p) /\ sched[p].phase # "starting"
    /\ Due(p) # {} /\ p \notin held
    /\ held' = held \cup {p}
    /\ UNCHANGED <<lockVars, disk, clock, sched, ops, created, rest, damaged>>

TurnEnds(p) ==
    /\ p \in held
    /\ held' = held \ {p}
    /\ UNCHANGED <<lockVars, disk, clock, sched, ops, created, rest, damaged>>

\* The time that a firing stands for: a one-shot task has only one.
TimeOf(t) == IF t \in Once THEN 1 ELSE clock[t]

\* The process has not loaded the last change of the file, or another one
\* is about to change it or takes itself for the owner as well.
Ahead(p) ==
    sched[p].dirty \/ \E q \in Processes \ {p} : ops[q] # {} \/ IsOwner(q)

(***************************************************************************)
(* check: every due task is fired.  Those that recur, and are not too old, *)
(* get their next time and are stamped in one operation; each of the       *)
(* others is removed by an operation of its own.  The schedule keeps only  *)
(* tasks it has seen.                                                      *)
(***************************************************************************)
Check(p) ==
    /\ Running(p) /\ p \notin held
    /\ sched[p].phase # "starting"
    /\ \E aged \in SUBSET (Due(p) \cap recurring) :
          LET gone == (Due(p) \cap Once) \cup aged
              kept == Due(p) \ gone
          IN  /\ sched' = [sched EXCEPT
                    ![p].next = [t \in Tasks |->
                        IF t \in kept THEN clock[t] + 1
                        ELSE IF t \in Seen(p) \ gone THEN NextFire(p, t)
                        ELSE Unset],
                    ![p].inFlight = @ \cup Due(p)]
              /\ ops' = [ops EXCEPT ![p] = @
                    \cup {NewOp("remove", {t}, Empty) : t \in gone}
                    \cup {NewOp("mark", ids, clock) : ids \in {kept} \ {{}}}]
              /\ settled' = settled \cup gone
    /\ fired' = [t \in Tasks |-> IF t \in Due(p) THEN TimeOf(t)
                                                 ELSE fired[t]]
    /\ again' = again \cup {t \in Due(p) : fired[t] = TimeOf(t)}
    /\ stale' = (stale \/ (Due(p) # {} /\ Ahead(p)))
    /\ UNCHANGED <<lockVars, recurring, disk, clock, held, created, damaged>>

-----------------------------------------------------------------------------
(* Loading the task file. *)

\* readCronTasks: a truncated file has no tasks.
Reading == IF disk.whole THEN disk.entries ELSE Empty

\* The first probe of the lock has ended: load, watch and tick.
Enable(p) ==
    /\ sched[p].phase = "starting"
    /\ lock[p] = "passive" \/ IsOwner(p)
    /\ p \notin halted
    /\ sched' = [sched EXCEPT ![p].phase = "loading"]
    /\ UNCHANGED <<lockVars, disk, clock, held, ops, created, rest, damaged>>

\* The one-shot tasks whose time passed before this load.
Missed == {t \in Present(Reading) \cap Once : clock[t] > 0}

\* load(true), by every process, owner or not: missed one-shot tasks are
\* shown to the user instead of being fired, and removed from the file.
LoadInitial(p) ==
    /\ Running(p)
    /\ sched[p].phase = "loading"
    /\ sched' = [sched EXCEPT
          ![p].phase = "running", ![p].tasks = Reading,
          ![p].next = [t \in Tasks |-> IF t \in Missed THEN Never ELSE @[t]]]
    /\ ops' = [ops EXCEPT ![p] = @ \cup
                  {NewOp("discard", ids, Empty) : ids \in {Missed} \ {{}}}]
    /\ settled' = settled \cup Missed
    /\ UNCHANGED <<lockVars, recurring, disk, clock, held, created, fired,
                   again, stale, damaged>>

\* load(false), when the watcher reports a change.
Reload(p) ==
    /\ Running(p)
    /\ sched[p].dirty
    /\ sched' = [sched EXCEPT ![p].tasks = Reading, ![p].dirty = FALSE]
    /\ UNCHANGED <<lockVars, disk, clock, held, ops, created, rest, damaged>>

-----------------------------------------------------------------------------
(* The read-modify-writes. *)

Replace(p, old, new) == [ops EXCEPT ![p] = (@ \ {old}) \cup new]

\* The operation ends: its tasks are not in flight any more.
Landed(p, op) ==
    IF op.kind \in {"remove", "mark"}
    THEN [sched EXCEPT ![p].inFlight = @ \ op.ids] ELSE sched

\* Mutant: what has fired is removed, recurring or not.
ChangedOnce(op, read) ==
    [t \in Tasks |->
        CASE t \in op.ids /\ op.kind # "add" -> Absent
          [] t \in op.ids /\ op.kind = "add" -> 0
          [] OTHER -> read[t]]

\* What the operation makes of what it has read.
Changed(op, read) ==
    [t \in Tasks |->
        CASE t \in op.ids /\ op.kind \in {"remove", "discard"} -> Absent
          [] t \in op.ids /\ op.kind = "mark" /\ read[t] # Absent -> op.at[t]
          [] t \in op.ids /\ op.kind = "add" -> 0
          [] OTHER -> read[t]]

\* An operation that has read and not yet written.
Open == {op \in UNION {ops[p] : p \in Processes} : op.stage # "reading"}

\* The read.  Nothing is written when no task of the operation is there.
OpReads(p, op) ==
    /\ op.stage = "reading"
    /\ damaged' = (damaged \/ Open # {})
    /\ IF op.kind = "add" \/ op.ids \cap Present(Reading) # {}
       THEN /\ ops' = Replace(p, op, {[op EXCEPT !.stage = "writing",
                                         !.out = Changed(op, Reading)]})
            /\ UNCHANGED sched
       ELSE /\ ops' = Replace(p, op, {})
            /\ sched' = Landed(p, op)
    /\ UNCHANGED disk

Watching == {p \in Processes : sched[p].phase # "starting"}
Notify(scheds) ==
    [p \in Processes |-> IF p \in Watching
                        THEN [scheds[p] EXCEPT !.dirty = TRUE] ELSE scheds[p]]

OpTruncates(p, op) ==
    /\ op.stage = "writing"
    /\ disk' = [whole |-> FALSE, entries |-> Empty]
    /\ ops' = Replace(p, op, {[op EXCEPT !.stage = "filling"]})
    /\ sched' = Notify(sched)
    /\ UNCHANGED damaged

OpFills(p, op) ==
    /\ op.stage = "filling"
    /\ disk' = [whole |-> TRUE, entries |-> op.out]
    /\ ops' = Replace(p, op, {})
    /\ sched' = Notify(Landed(p, op))
    /\ UNCHANGED damaged

FileOp(p) ==
    /\ Alive(p)
    /\ \E op \in ops[p] :
          OpReads(p, op) \/ OpTruncates(p, op) \/ OpFills(p, op)
    /\ UNCHANGED <<lockVars, clock, held, created, rest>>

-----------------------------------------------------------------------------
(* The surroundings. *)

\* CronCreate with durable: addCronTask.
Create(p, t) ==
    /\ Alive(p)
    /\ t \notin created
    /\ created' = created \cup {t}
    /\ ops' = [ops EXCEPT ![p] = @ \cup {NewOp("add", {t}, Empty)}]
    /\ UNCHANGED <<lockVars, disk, clock, sched, held, rest, damaged>>

Time(t) ==
    /\ t \in created
    /\ clock[t] < MaxDue
    /\ clock' = [clock EXCEPT ![t] = @ + 1]
    /\ UNCHANGED <<lockVars, disk, sched, held, ops, created, rest, damaged>>

\* A process dies with its scheduler and its operations.
Die(p) ==
    /\ Crash(p)
    /\ sched' = [sched EXCEPT ![p] = NewSched]
    /\ ops' = [ops EXCEPT ![p] = {}]
    /\ held' = held \ {p}
    /\ damaged' = (damaged \/ \E op \in ops[p] :
                      op.kind = "add" \/ op.stage = "filling")
    /\ stale' = (stale \/ ops[p] # {})
    /\ UNCHANGED <<recurring, disk, clock, created, settled, fired, again>>

\* stop: timers and watcher are gone; operations under way go on.
Halt(p) ==
    /\ Stop(p)
    /\ sched' = [sched EXCEPT ![p] = NewSched]
    /\ held' = held \ {p}
    /\ UNCHANGED <<disk, clock, ops, created, rest, damaged>>

LockStep(p) == (Acquire(p) \/ Release(p) \/ Unlink(p))
               /\ UNCHANGED tasksVars
Begin(p) == (Start(p) \/ Shutdown(p)) /\ UNCHANGED tasksVars

Progress(p) == Enable(p) \/ LoadInitial(p) \/ Reload(p) \/ FileOp(p)

Next ==
    \/ \E p \in Processes :
          \/ LockStep(p) \/ Halt(p) \/ Begin(p) \/ Die(p)
          \/ Progress(p) \/ Check(p) \/ HoldUp(p) \/ TurnEnds(p)
          \/ \E t \in Tasks : Create(p, t)
    \/ \E t \in Tasks : Time(t)

Spec == Init /\ [][Next]_vars

(***************************************************************************)
(* Awaited calls return, of the lock and, one after the other, of the task *)
(* file; timers of a running process fire.  A tick may find the process    *)
(* held up, but turns end, and of the ticks that find it free one comes.   *)
(***************************************************************************)
Fairness ==
    \A p \in Processes :
        /\ WF_vars(LockStep(p)) /\ WF_vars(Progress(p))
        /\ WF_vars(TurnEnds(p)) /\ SF_vars(Check(p))

LiveSpec == Spec /\ Fairness

-----------------------------------------------------------------------------
\* The types; and a task is in flight only while the operation that took it
\* there is under way, so that it can be fired again afterwards.
TypeOK ==
    /\ LockTypeOK
    /\ recurring \subseteq Tasks
    /\ disk \in Disk
    /\ clock \in [Tasks -> 0..MaxDue]
    /\ sched \in [Processes -> Sched]
    /\ held \subseteq Processes
    /\ ops \in [Processes -> SUBSET Op]
    /\ \A p \in Processes :
          sched[p].inFlight \subseteq UNION {op.ids : op \in ops[p]}
    /\ created \subseteq Tasks /\ settled \subseteq Tasks
    /\ fired \in [Tasks -> 0..MaxDue] /\ again \subseteq Tasks
    /\ stale \in BOOLEAN /\ damaged \in BOOLEAN

\* No task is fired twice for the same time, in one process or in two, by
\* ticks before, during or after what the first firing makes of the file, as
\* long as the operations on the file do not overlap, and whoever fires has
\* loaded the last change of the file, while no other process takes itself
\* for the owner, is about to make a change or died before it could.  The
\* lock may change hands in any way, by recovery or release.
OnceUnlessRaced == ~damaged /\ ~stale => again = {}

\* A task stays in the file until it has been fired for the last time or
\* shown as missed, as long as the operations on the file do not overlap
\* and none is cut short.
NoTaskLost ==
    ~damaged =>
        \A t \in created \ settled :
            \/ disk.entries[t] # Absent
            \/ \E p \in Processes : \E op \in ops[p] :
                  \/ op.stage = "filling" /\ op.out[t] # Absent
                  \/ op.kind = "add" /\ t \in op.ids

\* When nobody drives the scheduler, because the owner has died, stopped or
\* released the lock in its shutdown, somebody will, as long as a process
\* lasts that has not itself given the lock up.
FailOver ==
    (\A p \in Processes : ~Drives(p)) ~>
        \/ \E p \in Processes : Drives(p)
        \/ \A p \in Processes : Running(p) => IsOwner(p)

\* A task in the file whose time has come is fired or shown as missed, as
\* long as some process lasts.
Outstanding(t) == /\ clock[t] > 0 /\ disk.entries[t] = 0
                  /\ fired[t] = 0 /\ t \notin settled
DueFires ==
    \A t \in Tasks :
        Outstanding(t) ~> \/ ~Outstanding(t)
                          \/ \A p \in Processes : ~Running(p)
=============================================================================
