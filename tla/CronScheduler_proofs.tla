------------------------ MODULE CronScheduler_proofs ------------------------
(***************************************************************************)
(* The safety of the scheduled tasks, for any number of sessions,          *)
(* processes, tasks, times and file operations under way.                  *)
(*                                                                         *)
(* The lock comes first (LockInv); then the bookkeeping that holds         *)
(* whatever happens, what holds while the operations on the file do not    *)
(* overlap, and what holds while, besides, whoever fires is the only owner *)
(* and knows the file.  Each action then has a lemma, with one step for    *)
(* each of these parts.                                                    *)
(***************************************************************************)
EXTENDS CronScheduler, TLAPS

(***************************************************************************)
(* The lock: for every process that acts on it and has not lost it, the    *)
(* file is there and names its session, whichever process wrote it.        *)
(***************************************************************************)
LockMine ==
    \A p \in Processes \ lost :
        lock[p] \in Holding =>
            lockFile # NoFile /\ session[lockFile.by] = session[p]

LockInv == LockTypeOK /\ LockMine

LEMMA NoFileNew == \A f \in LockFile : NoFile # f
<1> SUFFICES ASSUME NEW f \in LockFile PROVE DOMAIN NoFile # DOMAIN f
  OBVIOUS
<1> QED BY DEF LockFile, NoFile

LEMMA LockInitial == ASSUME LockInit, lost = {} PROVE LockInv
<1>1. LockTypeOK
  BY DEF LockInit, LockTypeOK, Stages
<1>2. LockMine
  BY DEF LockInit, LockMine, Holding
<1> QED BY <1>1, <1>2 DEF LockInv

LEMMA LockKept == ASSUME LockInv, UNCHANGED lockVars PROVE LockInv'
BY DEF LockInv, LockTypeOK, LockMine, lockVars

\* Who takes the lock from all that count on it leaves nobody to rely on it.
LEMMA Taken ==
    ASSUME LockInv, NEW p \in Processes, NEW stage \in Stages,
           lock' = [lock EXCEPT ![p] = stage], p \in lost',
           lost \cup Reliant \subseteq lost'
    PROVE  LockMine'
<1>1. ASSUME NEW q \in Processes \ lost' PROVE lock'[q] \notin Holding
  <2>1. q # p /\ lock'[q] = lock[q] /\ q \notin lost /\ q \notin Reliant
    BY <1>1 DEF LockInv, LockTypeOK
  <2> QED BY <2>1 DEF LockInv, LockMine, Reliant
<1> QED BY <1>1 DEF LockMine

LEMMA CreateInv ==
    ASSUME LockInv, NEW p \in Processes, NEW other \in {"passive", "reading"},
           CreateOr(p, other), UNCHANGED <<session, halted, lost>>
    PROVE  LockInv'
<1>1. CASE lockFile = NoFile
  <2> DEFINE new == [inode |-> p, by |-> p, full |-> FALSE]
  <2>1. new \in LockFile /\ new.by = p
    BY DEF LockFile
  <2>2. new # NoFile
    BY <2>1, NoFileNew
  <2>3. /\ lockFile' = new /\ opened' = [opened EXCEPT ![p] = p]
        /\ lock' = [lock EXCEPT ![p] = "filling"]
    BY <1>1 DEF CreateOr, Enter
  <2> HIDE DEF new
  <2>4. LockTypeOK'
    BY <2>1, <2>3 DEF LockInv, LockTypeOK, Stages
  <2>5. \A q \in Processes \ lost : lock[q] \notin Holding
    BY <1>1 DEF LockInv, LockMine
  <2>6. LockMine'
    BY <2>1, <2>2, <2>3, <2>5 DEF LockInv, LockTypeOK, LockMine
  <2> QED BY <2>4, <2>6 DEF LockInv
<1>2. CASE lockFile # NoFile
  BY <1>2 DEF CreateOr, Enter, LockInv, LockTypeOK, LockMine, Stages, Holding
<1> QED BY <1>1, <1>2

\* The file is written by p, or left as it is.
LEMMA FillInv ==
    ASSUME LockInv, NEW p \in Processes, Fill(p) PROVE LockInv'
<1>1. PICK stage \in {"releasing", "owner"} :
         lock' = [lock EXCEPT ![p] = stage]
  BY DEF Fill, Own, Enter
<1>2. /\ lock[p] = "filling" /\ opened' = [opened EXCEPT ![p] = NoFile]
      /\ UNCHANGED <<session, halted>>
      /\ LockTypeOK
  BY DEF Fill, LockInv
<1> DEFINE new == [lockFile EXCEPT !.by = p, !.full = TRUE]
<1>3. \/ lockFile' = lockFile /\ lost' = lost
      \/ /\ lockFile # NoFile /\ lockFile' = new
         /\ lost' = lost \cup Robbed(p)
  BY DEF Fill
<1>4. lockFile # NoFile => new \in LockFile /\ new.by = p
  BY <1>2 DEF LockTypeOK, LockFile
<1> HIDE DEF new
<1>5. Robbed(p) \subseteq Processes
  BY DEF Robbed, Reliant
<1>6. LockTypeOK'
  BY <1>1, <1>2, <1>3, <1>4, <1>5 DEF LockTypeOK, Stages
<1>7. ASSUME lockFile' = lockFile, lost' = lost PROVE LockMine'
  BY <1>1, <1>2, <1>7 DEF LockInv, LockTypeOK, LockMine, Holding
<1>8. ASSUME lockFile # NoFile, lockFile' = new, lost' = lost \cup Robbed(p)
      PROVE  LockMine'
  <2>1. CASE p \in lost
    <3>1. lost' = lost \cup Reliant
      BY <1>8, <2>1 DEF Robbed
    <3> QED BY <1>1, <2>1, <3>1, Taken DEF Stages
  <2>2. CASE p \notin lost
    <3>1. lost' = lost
      BY <1>8, <2>2 DEF Robbed
    <3>2. session[lockFile.by] = session[p]
      BY <1>2, <2>2 DEF LockInv, LockMine, Holding
    <3>3. lockFile' # NoFile /\ lockFile'.by = p
      BY <1>4, <1>8, NoFileNew
    <3> QED BY <1>1, <1>2, <3>1, <3>2, <3>3
            DEF LockInv, LockTypeOK, LockMine, Holding
  <2> QED BY <2>1, <2>2
<1>9. LockMine'
  BY <1>3, <1>7, <1>8 DEF LockInv
<1> QED BY <1>6, <1>9 DEF LockInv

LEMMA RewriteInv ==
    ASSUME LockInv, NEW p \in Processes, Rewrite(p) PROVE LockInv'
<1> DEFINE file == IF lockFile = NoFile THEN p ELSE lockFile.inode
           new == [inode |-> file, by |-> p, full |-> FALSE]
<1>1. file \in Processes
  BY DEF LockInv, LockTypeOK, LockFile
<1>2. new \in LockFile /\ new.by = p /\ new.inode = file
  BY <1>1 DEF LockFile
<1>3. new # NoFile
  BY <1>2, NoFileNew
<1>4. lockFile' = new
  BY DEF Rewrite
<1> HIDE DEF new, file
<1>5. /\ lock[p] = "rewriting" /\ lock' = [lock EXCEPT ![p] = "filling"]
      /\ opened' = [opened EXCEPT ![p] = file]
      /\ lost' = lost \cup Robbed(p)
      /\ UNCHANGED <<session, halted>>
      /\ LockTypeOK
  BY <1>2, <1>4 DEF Rewrite, Enter, LockInv
<1>6. Robbed(p) \subseteq Processes
  BY DEF Robbed, Reliant
<1>7. LockTypeOK'
  BY <1>1, <1>2, <1>4, <1>5, <1>6 DEF LockTypeOK, Stages
<1>8. CASE p \in lost
  <2>1. lost' = lost \cup Reliant
    BY <1>5, <1>8 DEF Robbed
  <2>2. LockMine'
    BY <1>5, <1>8, <2>1, Taken DEF Stages
  <2> QED BY <1>7, <2>2 DEF LockInv
<1>9. CASE p \notin lost
  <2>1. lost' = lost
    BY <1>5, <1>9 DEF Robbed
  <2>2. \A q \in Processes \ lost :
           lock[q] \in Holding => session[q] = session[p]
    BY <1>5, <1>9 DEF LockInv, LockMine, Holding
  <2>3. LockMine'
    BY <1>2, <1>3, <1>4, <1>5, <2>1, <2>2 DEF LockTypeOK, LockMine
  <2> QED BY <1>7, <2>3 DEF LockInv
<1> QED BY <1>8, <1>9

LEMMA RecoverInv ==
    ASSUME LockInv, NEW p \in Processes, Recover(p) PROVE LockInv'
<1>1. /\ lockFile' = NoFile /\ lost' = lost \cup Reliant
      /\ lock' = [lock EXCEPT ![p] = "retry"]
      /\ UNCHANGED <<session, opened, halted>>
  BY DEF Recover, Enter
<1>2. LockTypeOK'
  BY <1>1 DEF LockInv, LockTypeOK, Stages, Reliant
<1>3. ASSUME NEW q \in Processes \ lost' PROVE lock'[q] \notin Holding
  BY <1>1, <1>3 DEF LockInv, LockTypeOK, LockMine, Reliant, Holding
<1> QED BY <1>2, <1>3 DEF LockInv, LockMine

LEMMA AcquireInv ==
    ASSUME LockInv, NEW p \in Processes, Acquire(p) PROVE LockInv'
<1>1. CASE Probe(p) \/ Retry(p)
  BY <1>1, CreateInv DEF Probe, Retry
<1>2. CASE Read(p)
  <2>1. PICK stage \in {"releasing", "owner", "rewriting", "stale", "passive"} :
           /\ lock' = [lock EXCEPT ![p] = stage]
           /\ stage \in {"releasing", "owner", "rewriting"} => Mine(p)
    BY <1>2 DEF Read, Own, Enter
  <2>2. Mine(p) => lockFile # NoFile /\ session[lockFile.by] = session[p]
    BY DEF Mine, NoFile
  <2>3. UNCHANGED <<session, lockFile, opened, halted, lost>>
    BY <1>2 DEF Read
  <2>4. LockTypeOK'
    BY <2>1, <2>3 DEF LockInv, LockTypeOK, Stages
  <2>5. LockMine'
    BY <2>1, <2>2, <2>3 DEF LockInv, LockTypeOK, LockMine, Holding
  <2> QED BY <2>4, <2>5 DEF LockInv
<1> QED BY <1>1, <1>2, FillInv, RewriteInv, RecoverInv DEF Acquire

LEMMA ReleaseInv ==
    ASSUME LockInv, NEW p \in Processes,
           Release(p) \/ Unlink(p) \/ Stop(p) \/ Shutdown(p)
    PROVE  LockInv'
<1>1. CASE Release(p)
  <2>1. PICK stage \in {"unlinking", "passive", "released"} :
           lock' = [lock EXCEPT ![p] = stage]
    BY <1>1 DEF Release, GivenUp, Enter
  <2> QED BY <1>1, <2>1
          DEF Release, LockInv, LockTypeOK, LockMine, Stages, Holding
<1>2. CASE Unlink(p)
  <2>1. PICK stage \in {"passive", "released"} :
           lock' = [lock EXCEPT ![p] = stage]
    BY <1>2 DEF Unlink, GivenUp, Enter
  <2>2. /\ lock[p] = "unlinking" /\ lockFile' = NoFile
        /\ lost' = lost \cup {p} \cup Robbed(p)
                        \cup {q \in Reliant : session[q] = session[p]}
        /\ UNCHANGED <<session, opened, halted>>
    BY <1>2 DEF Unlink
  <2>3. LockTypeOK'
    BY <2>1, <2>2 DEF LockInv, LockTypeOK, Stages, Robbed, Reliant
  <2>4. Reliant \subseteq lost'
    <3>1. CASE p \in lost
      BY <2>2, <3>1 DEF Robbed
    <3>2. CASE p \notin lost
      <4>1. session[lockFile.by] = session[p]
        BY <2>2, <3>2 DEF LockInv, LockMine, Holding
      <4> QED BY <2>2, <4>1 DEF Reliant
    <3> QED BY <3>1, <3>2
  <2>5. LockMine'
    BY <2>1, <2>2, <2>4, Taken DEF Stages
  <2> QED BY <2>3, <2>5 DEF LockInv
<1>3. CASE Stop(p) \/ Shutdown(p)
  <2>1. /\ lock' = lock \/ /\ lock' = [lock EXCEPT ![p] = "releasing"]
                           /\ lock[p] \in Holding
        /\ halted' \subseteq Processes
    BY <1>3 DEF Stop, Shutdown, Enter, IsOwner, Holding, LockInv, LockTypeOK
  <2>2. UNCHANGED <<session, lockFile, opened, lost>>
    BY <1>3 DEF Stop, Shutdown
  <2> QED BY <2>1, <2>2 DEF LockInv, LockTypeOK, LockMine, Stages, Holding
<1> QED BY <1>1, <1>2, <1>3

LEMMA ProcessInv ==
    ASSUME LockInv, NEW p \in Processes, Crash(p) \/ Start(p)
    PROVE  LockInv'
<1> USE DEF LockInv, Enter
<1>1. CASE Crash(p)
  BY <1>1 DEF Crash, LockTypeOK, LockMine, Stages, Holding
<1>2. CASE Start(p)
  BY <1>2 DEF Start, LockTypeOK, LockMine, Stages, Holding
<1> QED BY <1>1, <1>2

LEMMA OneOwnerHolds == LockInv => OneOwner
BY DEF LockInv, LockMine, OneOwner, IsOwner, Holding

-----------------------------------------------------------------------------
(***************************************************************************)
(* The tasks.  First what holds whatever the operations on the file do to  *)
(* each other.                                                             *)
(***************************************************************************)
TaskTypes ==
    /\ recurring \subseteq Tasks
    /\ disk \in Disk
    /\ clock \in [Tasks -> 0..MaxDue]
    /\ sched \in [Processes -> Sched]
    /\ ops \in [Processes -> SUBSET Op]
    /\ created \subseteq Tasks /\ settled \subseteq Tasks
    /\ fired \in [Tasks -> 0..MaxDue] /\ again \subseteq Tasks
    /\ stale \in BOOLEAN /\ damaged \in BOOLEAN

\* An operation of a tick, and one that has read the file.
Fires(op) == op.kind \in {"remove", "mark"}
Begun(op) == op.stage # "reading"

\* A stopped process ticks no more, but its operations go on.
Retired(p) == p \in halted

FlightTracked ==
    \A p \in Processes : \A t \in sched[p].inFlight :
        \E op \in ops[p] : Fires(op) /\ t \in op.ids

OpGood(p, op) ==
    /\ Fires(op) => op.ids \subseteq sched[p].inFlight \/ Retired(p)
    /\ op.kind = "mark" =>
          op.ids \subseteq recurring /\ \A t \in Tasks : op.at[t] >= 0
    /\ op.kind \in {"remove", "discard"} => op.ids \subseteq settled
    /\ Begun(op) => \A t \in op.ids :
          /\ op.kind \in {"remove", "discard"} => op.out[t] = Absent
          /\ op.kind = "mark" => op.out[t] \in {op.at[t], Absent}
          /\ op.kind = "add" => op.out[t] = 0

OpsGood == \A p \in Processes : \A op \in ops[p] : OpGood(p, op)

\* No task is in two operations of ticks of one session.
Disjoint ==
    \A p \in Processes : \A op, o \in ops[p] :
        Fires(op) /\ Fires(o) /\ op # o => op.ids \cap o.ids = {}

\* Who has not been told of a change has loaded the file as it is, or
\* nothing yet.
Coherent ==
    \A p \in Processes :
        /\ sched[p].dirty \/ sched[p].tasks = Reading \/ sched[p].tasks = Empty
        /\ sched[p].phase = "starting" =>
              ~sched[p].dirty /\ sched[p].tasks = Empty

\* A task that is not in the file yet is nowhere else: one operation adds it.
Nowhere(t) ==
    /\ fired[t] = 0 /\ disk.entries[t] = Absent
    /\ \A p \in Processes : sched[p].tasks[t] = Absent

OutOf(t, op) == op.out[t] = Absent /\ ~(op.kind = "add" /\ t \in op.ids)

Fresh ==
    \A t \in Tasks :
        /\ t \notin created =>
              Nowhere(t) /\ \A p \in Processes : \A op \in ops[p] : OutOf(t, op)
        /\ \A p \in Processes : \A op \in ops[p] :
              op.kind = "add" /\ t \in op.ids =>
                  /\ Nowhere(t)
                  /\ \A q \in Processes : \A o \in ops[q] :
                        (q = p /\ o = op) \/ OutOf(t, o)

Truncated == ~disk.whole => disk.entries = Empty

FiredPast == \A t \in Tasks : fired[t] <= clock[t]

Bookkeeping ==
    /\ FlightTracked /\ OpsGood /\ Disjoint /\ Coherent /\ Fresh
    /\ Truncated /\ FiredPast

(***************************************************************************)
(* Then what holds as long as the operations on the file do not overlap.   *)
(***************************************************************************)
OneWriter ==
    ~damaged =>
        /\ \A p, q \in Processes : \A op \in ops[p] : \A o \in ops[q] :
              Begun(op) /\ Begun(o) => p = q /\ op = o
        /\ ~disk.whole => \E p \in Processes : \E op \in ops[p] :
                             op.stage = "filling"
        /\ \A p \in Processes : \A op \in ops[p] :
              /\ op.stage = "writing" =>
                    disk.whole /\ op.out = Changed(op, disk.entries)
              /\ op.stage = "filling" => ~disk.whole

(***************************************************************************)
(* And what holds as long as whoever fires is the only owner and knows the *)
(* file: what has been fired is in an operation under way, or the file has *)
(* it no more, or with the time it was fired for.                          *)
(***************************************************************************)
NextAhead ==
    ~stale =>
        \A p \in Processes : \A t \in Tasks :
            \/ sched[p].next[t] = Unset \/ sched[p].next[t] = Never
            \/ IsOwner(p) /\ sched[p].next[t] > fired[t]

Calm == ~damaged /\ ~stale

Stands(t, entry) == entry # Absent => t \in recurring /\ entry >= fired[t]

Pending(t) ==
    \E p \in Processes : \E op \in ops[p] : Fires(op) /\ t \in op.ids

FiredStands ==
    Calm => \A t \in Tasks : fired[t] > 0 =>
        \/ Pending(t)
        \/ /\ Stands(t, disk.entries[t])
           /\ \A p \in Processes : \A op \in ops[p] :
                 op.stage = "filling" => Stands(t, op.out[t])

MarkFresh ==
    Calm => \A p \in Processes : \A op \in ops[p] :
        op.kind = "mark" => \A t \in op.ids : op.at[t] >= fired[t]

Firing == NextAhead /\ FiredStands /\ MarkFresh /\ OnceUnlessRaced

Writing == OneWriter /\ NoTaskLost

TasksInv == TaskTypes /\ Bookkeeping /\ Writing /\ Firing

HeldOK == held \subseteq Processes

IInv == LockInv /\ TasksInv /\ HeldOK

-----------------------------------------------------------------------------
(***************************************************************************)
(* The steps that leave the file and the operations alone.                 *)
(***************************************************************************)
LEMMA Bounds == MaxDue \in Nat /\ MaxDue > 0 /\ Absent = -1
BY CronAssumption DEF Absent

LEMMA EmptyType == Empty \in Entries /\ \A t \in Tasks : Empty[t] = Absent
BY Bounds DEF Empty, Entries, Absent

LEMMA NewSchedType ==
    /\ NewSched \in Sched
    /\ NewSched.phase = "starting" /\ NewSched.tasks = Empty
    /\ NewSched.next = [t \in Tasks |-> Unset] /\ NewSched.inFlight = {}
    /\ NewSched.dirty = FALSE
BY Bounds, EmptyType DEF NewSched, Sched, Unset

\* Quiet steps: nothing of the tasks changes but the phase of a scheduler.
LEMMA Quiet ==
    ASSUME TasksInv,
           UNCHANGED <<recurring, disk, ops, created, settled, fired, again,
                       stale, damaged>>,
           clock' \in [Tasks -> 0..MaxDue],
           \A t \in Tasks : clock[t] <= clock'[t],
           sched' \in [Processes -> Sched],
           \A p \in Processes :
              /\ sched'[p].tasks = sched[p].tasks
              /\ sched'[p].next = sched[p].next
              /\ sched'[p].inFlight = sched[p].inFlight
              /\ sched'[p].dirty = sched[p].dirty
              /\ sched'[p].phase = "starting" => sched[p].phase = "starting"
              /\ Retired(p) => Retired(p)'
              /\ IsOwner(p) => IsOwner(p)'
    PROVE  TasksInv'
<1> USE DEF TasksInv
<1>1. TaskTypes'
  BY DEF TaskTypes
<1>2. FlightTracked' /\ Disjoint' /\ Truncated'
  BY DEF Bookkeeping, FlightTracked, Disjoint, Truncated
<1>3. OpsGood'
  BY DEF Bookkeeping, OpsGood, OpGood
<1>4. Coherent' /\ Fresh'
  BY DEF Bookkeeping, Coherent, Fresh, Nowhere, Reading
<1>5. FiredPast'
  <2>1. \A t \in Tasks : fired[t] \in Int /\ clock[t] \in Int /\ clock'[t] \in Int
    BY Bounds DEF TaskTypes
  <2>2. \A t \in Tasks : fired[t] <= clock[t] /\ fired'[t] = fired[t]
    BY DEF Bookkeeping, FiredPast
  <2> HIDE DEF TasksInv
  <2> QED BY <2>1, <2>2 DEF FiredPast
<1>6. Writing'
  BY DEF Writing, OneWriter, NoTaskLost, Begun, Changed
<1>7. Firing'
  BY DEF Firing, NextAhead, FiredStands, MarkFresh, OnceUnlessRaced, Calm,
         Stands, Pending, Fires, Once
<1> QED BY <1>1, <1>2, <1>3, <1>4, <1>5, <1>6, <1>7 DEF Bookkeeping

LEMMA StutterInv == ASSUME TasksInv, UNCHANGED vars PROVE TasksInv'
<1>1. \A t \in Tasks : clock[t] <= clock[t]
  BY Bounds DEF TasksInv, TaskTypes
<1>2. UNCHANGED vars
  OBVIOUS
<1> QED BY <1>1, <1>2, Quiet
        DEF TasksInv, TaskTypes, vars, lockVars, tasksVars, Retired, IsOwner

LEMMA LockTasks ==
    ASSUME IInv, NEW p \in Processes, LockStep(p) \/ Begin(p)
    PROVE  TasksInv'
<1>1. /\ UNCHANGED tasksVars
      /\ \A q \in Processes : /\ Retired(q) => Retired(q)'
                              /\ IsOwner(q) => IsOwner(q)'
  <2> USE DEF IInv, LockInv, LockTypeOK, Enter, Retired, IsOwner
  <2>1. CASE Acquire(p) /\ UNCHANGED tasksVars
    <3>1. /\ lock[p] \notin {"owner", "releasing", "unlinking", "released"}
          /\ \A q \in Processes \ {p} : lock'[q] = lock[q]
          /\ halted' = halted
      BY <2>1
      DEF Acquire, Probe, Fill, Read, Rewrite, Recover, Retry, CreateOr, Own
    <3> QED BY <2>1, <3>1
  <2>2. CASE (Release(p) \/ Unlink(p)) /\ UNCHANGED tasksVars
    BY <2>2 DEF Release, Unlink, GivenUp
  <2>3. CASE Begin(p)
    BY <2>3 DEF Begin, Start, Shutdown
  <2> QED BY <2>1, <2>2, <2>3 DEF LockStep
<1>2. \A t \in Tasks : clock[t] <= clock[t]
  BY Bounds DEF IInv, TasksInv, TaskTypes
<1> QED BY <1>1, <1>2, Quiet DEF IInv, TasksInv, TaskTypes, tasksVars

LEMMA HeldTasks ==
    ASSUME IInv, NEW p \in Processes, HoldUp(p) \/ TurnEnds(p)
    PROVE  TasksInv'
<1>1. UNCHANGED <<lockVars, disk, clock, sched, ops, created, rest, damaged>>
  BY DEF HoldUp, TurnEnds
<1>2. \A t \in Tasks : clock[t] <= clock[t]
  BY Bounds DEF IInv, TasksInv, TaskTypes
<1> QED BY <1>1, <1>2, Quiet
        DEF IInv, TasksInv, TaskTypes, lockVars, rest, Retired, IsOwner

LEMMA EnableTasks ==
    ASSUME IInv, NEW p \in Processes, Enable(p)
    PROVE  TasksInv'
<1>1. sched' \in [Processes -> Sched]
  BY DEF Enable, IInv, TasksInv, TaskTypes, Sched
<1>2. \A q \in Processes :
         /\ sched'[q].tasks = sched[q].tasks
         /\ sched'[q].next = sched[q].next
         /\ sched'[q].inFlight = sched[q].inFlight
         /\ sched'[q].dirty = sched[q].dirty
         /\ sched'[q].phase = "starting" => sched[q].phase = "starting"
  BY DEF Enable, IInv, TasksInv, TaskTypes, Sched
<1>3. \A t \in Tasks : clock[t] <= clock[t]
  BY Bounds DEF IInv, TasksInv, TaskTypes
<1>4. UNCHANGED <<lockVars, disk, clock, ops, created, rest, damaged>>
  BY DEF Enable
<1> QED BY <1>1, <1>2, <1>3, <1>4, Quiet
        DEF IInv, TasksInv, TaskTypes, lockVars, rest, Retired, IsOwner

LEMMA TimeTasks ==
    ASSUME IInv, NEW t \in Tasks, Time(t)
    PROVE  TasksInv'
<1>1. /\ clock' \in [Tasks -> 0..MaxDue]
      /\ \A u \in Tasks : clock[u] <= clock'[u]
  BY Bounds DEF Time, IInv, TasksInv, TaskTypes
<1>2. UNCHANGED <<lockVars, disk, sched, ops, created, rest, damaged>>
  BY DEF Time
<1> QED BY <1>1, <1>2, Quiet
        DEF IInv, TasksInv, TaskTypes, lockVars, rest, Retired, IsOwner

-----------------------------------------------------------------------------
(***************************************************************************)
(* The scheduler of a process ends.                                        *)
(***************************************************************************)
LEMMA HaltTasks ==
    ASSUME IInv, NEW p \in Processes, Halt(p)
    PROVE  TasksInv'
<1>1. /\ sched' = [sched EXCEPT ![p] = NewSched]
      /\ UNCHANGED <<recurring, disk, clock, ops, created, settled, fired,
                     again, stale, damaged>>
  BY DEF Halt, Stop, rest
<1>2. /\ Retired(p)' /\ ~IsOwner(p)'
      /\ \A q \in Processes \ {p} : IsOwner(q)' <=> IsOwner(q)
      /\ halted' = halted \cup {p}
  BY DEF Halt, Stop, Enter, IsOwner, Retired, IInv, LockInv, LockTypeOK
<1>3. TasksInv /\ sched \in [Processes -> Sched]
  BY DEF IInv, TasksInv, TaskTypes
<1>4. /\ sched' \in [Processes -> Sched] /\ sched'[p] = NewSched
      /\ \A q \in Processes \ {p} : sched'[q] = sched[q]
  BY <1>1, <1>3, NewSchedType
<1> USE DEF TasksInv
<1>5. TaskTypes'
  BY <1>1, <1>3, <1>4 DEF TaskTypes
<1>6. FlightTracked' /\ Disjoint' /\ Truncated' /\ FiredPast'
  BY <1>1, <1>3, <1>4, NewSchedType
  DEF Bookkeeping, FlightTracked, Disjoint, Truncated, FiredPast
<1>7. OpsGood'
  BY <1>1, <1>2, <1>3, <1>4 DEF Bookkeeping, OpsGood, OpGood, Retired
<1>8. Coherent' /\ Fresh'
  BY <1>1, <1>3, <1>4, NewSchedType, EmptyType
  DEF Bookkeeping, Coherent, Fresh, Nowhere, Reading, OutOf
<1>9. Writing'
  BY <1>1, <1>3 DEF Writing, OneWriter, NoTaskLost, Begun, Changed
<1>10. NextAhead'
  <2>1. \A q \in Processes \ {p} : IsOwner(q)' <=> IsOwner(q)
    BY <1>2
  <2>2. (~stale' => ~stale) /\ fired' = fired
    BY <1>1
  <2>3. \A t \in Tasks : sched'[p].next[t] = Unset
    BY <1>4, NewSchedType
  <2> HIDE DEF TasksInv
  <2>4. NextAhead
    BY <1>3 DEF TasksInv, Firing
  <2> QED BY <1>4, <2>1, <2>2, <2>3, <2>4 DEF NextAhead
<1>11. FiredStands' /\ MarkFresh' /\ OnceUnlessRaced'
  BY <1>1, <1>3 DEF Firing, FiredStands, MarkFresh, OnceUnlessRaced, Calm,
                    Stands, Pending, Fires, Once
<1> QED BY <1>5, <1>6, <1>7, <1>8, <1>9, <1>10, <1>11 DEF Bookkeeping, Firing

LEMMA DieTasks ==
    ASSUME IInv, NEW p \in Processes, Die(p)
    PROVE  TasksInv'
<1>1. /\ sched' = [sched EXCEPT ![p] = NewSched]
      /\ ops' = [ops EXCEPT ![p] = {}]
      /\ UNCHANGED <<recurring, disk, clock, created, settled, fired, again>>
  BY DEF Die, Crash
<1>2. \A q \in Processes \ {p} : /\ lock'[q] = lock[q]
                                 /\ q \in halted' <=> q \in halted
  BY DEF Die, Crash, Enter, IInv, LockInv, LockTypeOK
<1>3. TasksInv /\ sched \in [Processes -> Sched] /\ ops \in [Processes -> SUBSET Op]
  BY DEF IInv, TasksInv, TaskTypes
<1>4. /\ sched' \in [Processes -> Sched] /\ sched'[p] = NewSched
      /\ \A q \in Processes \ {p} : sched'[q] = sched[q]
  BY <1>1, <1>3, NewSchedType
<1>5. /\ ops' \in [Processes -> SUBSET Op] /\ ops'[p] = {}
      /\ \A q \in Processes \ {p} : ops'[q] = ops[q]
  BY <1>1, <1>3
<1>6. /\ ~damaged' => /\ ~damaged
                      /\ \A op \in ops[p] : /\ op.kind # "add"
                                            /\ op.stage # "filling"
      /\ ~stale' => ~stale /\ ops[p] = {}
      /\ damaged' \in BOOLEAN /\ stale' \in BOOLEAN
  BY <1>3 DEF Die, TasksInv, TaskTypes
<1> USE DEF TasksInv
<1>7. TaskTypes'
  BY <1>1, <1>3, <1>4, <1>5, <1>6 DEF TaskTypes
<1>8. FlightTracked' /\ Disjoint' /\ Truncated' /\ FiredPast'
  BY <1>1, <1>3, <1>4, <1>5, NewSchedType
  DEF Bookkeeping, FlightTracked, Disjoint, Truncated, FiredPast
<1>9. OpsGood'
  BY <1>1, <1>2, <1>3, <1>4, <1>5 DEF Bookkeeping, OpsGood, OpGood, Retired
<1>10. Coherent'
  BY <1>1, <1>3, <1>4, NewSchedType DEF Bookkeeping, Coherent, Reading
<1>11. Fresh'
  BY <1>1, <1>3, <1>4, <1>5, NewSchedType, EmptyType
  DEF Bookkeeping, Fresh, Nowhere, OutOf
<1>12. OneWriter'
  BY <1>1, <1>3, <1>5, <1>6 DEF Writing, OneWriter, Begun, Changed
<1>13. NoTaskLost'
  BY <1>1, <1>3, <1>5, <1>6 DEF Writing, NoTaskLost
<1>14. NextAhead'
  <2>1. \A q \in Processes \ {p} : IsOwner(q)' <=> IsOwner(q)
    BY <1>2 DEF IsOwner
  <2>2. (~stale' => ~stale) /\ fired' = fired
    BY <1>1, <1>6
  <2>3. \A t \in Tasks : sched'[p].next[t] = Unset
    BY <1>4, NewSchedType
  <2> HIDE DEF TasksInv
  <2>4. NextAhead
    BY <1>3 DEF TasksInv, Firing
  <2> QED BY <1>4, <2>1, <2>2, <2>3, <2>4 DEF NextAhead
<1>15. FiredStands' /\ MarkFresh' /\ OnceUnlessRaced'
  <2>1. Calm' => Calm /\ \A q \in Processes : ops'[q] = ops[q]
    BY <1>1, <1>5, <1>6 DEF Calm
  <2> QED BY <1>1, <1>3, <2>1
          DEF Firing, FiredStands, MarkFresh, OnceUnlessRaced, Calm, Stands,
              Pending, Fires, Once
<1> QED BY <1>7, <1>8, <1>9, <1>10, <1>11, <1>12, <1>13, <1>14, <1>15
        DEF Bookkeeping, Writing, Firing

-----------------------------------------------------------------------------
(***************************************************************************)
(* Loading the file, and adding to it.                                     *)
(***************************************************************************)
LEMMA ReadingType ==
    ASSUME TaskTypes, Bookkeeping
    PROVE  /\ Reading \in Entries
           /\ \A t \in Tasks : disk.entries[t] = Absent => Reading[t] = Absent
BY EmptyType DEF TaskTypes, Reading, Disk

LEMMA ReloadTasks ==
    ASSUME IInv, NEW p \in Processes, Reload(p)
    PROVE  TasksInv'
<1>1. /\ sched[p].dirty
      /\ sched' = [sched EXCEPT ![p].tasks = Reading, ![p].dirty = FALSE]
      /\ UNCHANGED <<recurring, disk, clock, ops, created, settled, fired,
                     again, stale, damaged, lock, halted>>
  BY DEF Reload, rest, lockVars
<1>2. TasksInv /\ sched \in [Processes -> Sched]
  BY DEF IInv, TasksInv, TaskTypes
<1>3. /\ sched' \in [Processes -> Sched]
      /\ sched'[p].tasks = Reading /\ sched'[p].dirty = FALSE
      /\ sched'[p].phase = sched[p].phase
      /\ \A q \in Processes : /\ sched'[q].next = sched[q].next
                             /\ sched'[q].inFlight = sched[q].inFlight
      /\ \A q \in Processes \ {p} : sched'[q] = sched[q]
  BY <1>1, <1>2, ReadingType DEF Sched, TasksInv
<1> USE DEF TasksInv
<1>4. TaskTypes'
  BY <1>1, <1>2, <1>3 DEF TaskTypes
<1>5. FlightTracked' /\ Disjoint' /\ Truncated' /\ FiredPast'
  BY <1>1, <1>2, <1>3
  DEF Bookkeeping, FlightTracked, Disjoint, Truncated, FiredPast
<1>6. OpsGood'
  BY <1>1, <1>2, <1>3 DEF Bookkeeping, OpsGood, OpGood, Retired
<1>7. Coherent'
  <2>1. Reading' = Reading
    BY <1>1 DEF Reading
  <2> QED BY <1>1, <1>2, <1>3, <2>1 DEF Bookkeeping, Coherent
<1>8. Fresh'
  BY <1>1, <1>2, <1>3, ReadingType DEF Bookkeeping, Fresh, Nowhere, OutOf
<1>9. Writing'
  BY <1>1, <1>2 DEF Writing, OneWriter, NoTaskLost, Begun, Changed
<1>10. NextAhead'
  BY <1>1, <1>2, <1>3 DEF Firing, NextAhead, IsOwner
<1>11. FiredStands' /\ MarkFresh' /\ OnceUnlessRaced'
  BY <1>1, <1>2 DEF Firing, FiredStands, MarkFresh, OnceUnlessRaced, Calm,
                    Stands, Pending, Fires, Once
<1> QED BY <1>4, <1>5, <1>6, <1>7, <1>8, <1>9, <1>10, <1>11
        DEF Bookkeeping, Firing

LEMMA LoadInitialTasks ==
    ASSUME IInv, NEW p \in Processes, LoadInitial(p)
    PROVE  TasksInv'
<1> DEFINE new == {NewOp("discard", ids, Empty) : ids \in {Missed} \ {{}}}
<1>1. /\ sched[p].phase = "loading"
      /\ sched' = [sched EXCEPT
            ![p].phase = "running", ![p].tasks = Reading,
            ![p].next = [t \in Tasks |-> IF t \in Missed THEN Never ELSE @[t]]]
      /\ ops' = [ops EXCEPT ![p] = @ \cup new]
      /\ settled' = settled \cup Missed
      /\ UNCHANGED <<recurring, disk, clock, created, fired,
                     again, stale, damaged, lock, halted>>
  BY DEF LoadInitial, lockVars
<1>2. /\ TasksInv /\ sched \in [Processes -> Sched]
      /\ ops \in [Processes -> SUBSET Op]
  BY DEF IInv, TasksInv, TaskTypes
<1>3. Never \in 0..MaxDue + 1 /\ Missed \subseteq Tasks
  BY Bounds DEF Never, Missed, Present
<1>4. /\ sched' \in [Processes -> Sched]
      /\ sched'[p].tasks = Reading /\ sched'[p].phase = "running"
      /\ \A t \in Tasks : \/ sched'[p].next[t] = Never
                          \/ sched'[p].next[t] = sched[p].next[t]
      /\ \A q \in Processes : /\ sched'[q].dirty = sched[q].dirty
                             /\ sched'[q].inFlight = sched[q].inFlight
      /\ \A q \in Processes \ {p} : sched'[q] = sched[q]
  BY <1>1, <1>2, <1>3, ReadingType DEF Sched, TasksInv
<1>5. \A op \in new :
         /\ op \in Op /\ op.kind = "discard" /\ op.ids = Missed
         /\ ~Begun(op) /\ op.stage = "reading"
         /\ \A t \in Tasks : op.out[t] = Absent
  BY <1>3, EmptyType DEF NewOp, Op, Begun
<1> HIDE DEF new
<1>6. /\ ops' \in [Processes -> SUBSET Op]
      /\ ops'[p] = ops[p] \cup new
      /\ \A q \in Processes \ {p} : ops'[q] = ops[q]
  BY <1>1, <1>2, <1>5
<1> USE DEF TasksInv
<1>7. TaskTypes'
  BY <1>1, <1>2, <1>3, <1>4, <1>6 DEF TaskTypes
<1>8. FlightTracked' /\ Truncated' /\ FiredPast'
  BY <1>1, <1>2, <1>4, <1>6
  DEF Bookkeeping, FlightTracked, Truncated, FiredPast
<1>9. Disjoint'
  BY <1>2, <1>5, <1>6 DEF Bookkeeping, Disjoint, Fires
<1>10. OpsGood'
  BY <1>1, <1>2, <1>4, <1>5, <1>6
  DEF Bookkeeping, OpsGood, OpGood, Retired, Fires
<1>11. Coherent'
  <2>1. Reading' = Reading
    BY <1>1 DEF Reading
  <2> QED BY <1>1, <1>2, <1>4, <2>1 DEF Bookkeeping, Coherent
<1>12. Fresh'
  BY <1>1, <1>2, <1>4, <1>5, <1>6, ReadingType
  DEF Bookkeeping, Fresh, Nowhere, OutOf
<1>13. OneWriter'
  BY <1>1, <1>2, <1>5, <1>6 DEF Writing, OneWriter, Begun, Changed
<1>14. NoTaskLost'
  BY <1>1, <1>2, <1>6 DEF Writing, NoTaskLost
<1>15. NextAhead'
  BY <1>1, <1>2, <1>4 DEF Firing, NextAhead, IsOwner
<1>16. FiredStands' /\ MarkFresh' /\ OnceUnlessRaced'
  BY <1>1, <1>2, <1>5, <1>6
  DEF Firing, FiredStands, MarkFresh, OnceUnlessRaced, Calm, Stands, Pending,
      Fires, Once
<1> QED BY <1>7, <1>8, <1>9, <1>10, <1>11, <1>12, <1>13, <1>14, <1>15, <1>16
        DEF Bookkeeping, Writing, Firing

LEMMA CreateTasks ==
    ASSUME IInv, NEW p \in Processes, NEW t \in Tasks, Create(p, t)
    PROVE  TasksInv'
<1> DEFINE new == NewOp("add", {t}, Empty)
<1>1. /\ t \notin created /\ created' = created \cup {t}
      /\ ops' = [ops EXCEPT ![p] = @ \cup {new}]
      /\ UNCHANGED <<recurring, disk, clock, sched, settled, fired,
                     again, stale, damaged, lock, halted>>
  BY DEF Create, lockVars, rest
<1>2. /\ TasksInv /\ sched \in [Processes -> Sched]
      /\ ops \in [Processes -> SUBSET Op]
  BY DEF IInv, TasksInv, TaskTypes
<1>3. /\ new \in Op /\ new.kind = "add" /\ new.ids = {t}
      /\ ~Begun(new) /\ new.stage = "reading"
      /\ \A u \in Tasks : new.out[u] = Absent
  BY EmptyType DEF NewOp, Op, Begun
<1> HIDE DEF new
<1>4. /\ ops' \in [Processes -> SUBSET Op]
      /\ ops'[p] = ops[p] \cup {new}
      /\ \A q \in Processes \ {p} : ops'[q] = ops[q]
  BY <1>1, <1>2, <1>3
<1> USE DEF TasksInv
<1>5. TaskTypes'
  BY <1>1, <1>2, <1>4 DEF TaskTypes
<1>6. FlightTracked' /\ Truncated' /\ FiredPast'
  BY <1>1, <1>2, <1>4
  DEF Bookkeeping, FlightTracked, Truncated, FiredPast
<1>7. Disjoint'
  BY <1>2, <1>3, <1>4 DEF Bookkeeping, Disjoint, Fires
<1>8. OpsGood'
  BY <1>1, <1>2, <1>3, <1>4
  DEF Bookkeeping, OpsGood, OpGood, Retired, Fires
<1>9. Coherent'
  BY <1>1, <1>2 DEF Bookkeeping, Coherent, Reading
<1>10. Fresh'
  <2>1. \A u \in Tasks : Nowhere(u)' <=> Nowhere(u)
    BY <1>1 DEF Nowhere
  <2>2. \A q \in Processes : \A o \in ops[q] : OutOf(t, o)
    BY <1>1, <1>2 DEF Bookkeeping, Fresh
  <2>3. \A u \in Tasks \ {t} : OutOf(u, new)
    BY <1>3 DEF OutOf
  <2>4. Nowhere(t)
    BY <1>1, <1>2 DEF Bookkeeping, Fresh
  <2>5. ASSUME NEW u \in Tasks, u \notin created'
        PROVE  Nowhere(u)' /\ \A q \in Processes : \A o \in ops'[q] : OutOf(u, o)
    BY <1>1, <1>2, <1>4, <2>1, <2>3, <2>5 DEF Bookkeeping, Fresh
  <2>6. ASSUME NEW u \in Tasks, NEW q \in Processes, NEW op \in ops'[q],
               op.kind = "add", u \in op.ids
        PROVE  /\ Nowhere(u)'
               /\ \A r \in Processes : \A o \in ops'[r] :
                     (r = q /\ o = op) \/ OutOf(u, o)
    <3>1. CASE u = t
      BY <1>4, <2>1, <2>2, <2>4, <2>6, <3>1 DEF OutOf
    <3>2. CASE u # t
      <4>1. op \in ops[q]
        BY <1>3, <1>4, <2>6, <3>2
      <4> QED BY <1>2, <1>4, <2>1, <2>3, <2>6, <3>2, <4>1
              DEF Bookkeeping, Fresh
    <3> QED BY <3>1, <3>2
  <2> QED BY <2>5, <2>6 DEF Fresh, OutOf, Nowhere
<1>11. OneWriter'
  BY <1>1, <1>2, <1>3, <1>4 DEF Writing, OneWriter, Begun, Changed
<1>12. NoTaskLost'
  BY <1>1, <1>2, <1>3, <1>4 DEF Writing, NoTaskLost
<1>13. NextAhead'
  BY <1>1, <1>2 DEF Firing, NextAhead, IsOwner
<1>14. FiredStands' /\ MarkFresh' /\ OnceUnlessRaced'
  BY <1>1, <1>2, <1>3, <1>4
  DEF Firing, FiredStands, MarkFresh, OnceUnlessRaced, Calm, Stands, Pending,
      Fires, Once
<1> QED BY <1>5, <1>6, <1>7, <1>8, <1>9, <1>10, <1>11, <1>12, <1>13, <1>14
        DEF Bookkeeping, Writing, Firing

-----------------------------------------------------------------------------
(***************************************************************************)
(* The operations on the file.  An operation goes on, as new, or it ends.  *)
(***************************************************************************)
GoesOn(p, op, new) ==
    /\ ops' = [ops EXCEPT ![p] = (@ \ {op}) \cup {new}]
    /\ new \in Op /\ new.kind = op.kind /\ new.ids = op.ids /\ new.at = op.at

FileRest == <<lock, halted, recurring, clock, created, settled, fired,
              again, stale>>

LEMMA ChangedType ==
    ASSUME TaskTypes, NEW p \in Processes, NEW op \in ops[p],
           NEW read \in Entries
    PROVE  /\ Changed(op, read) \in Entries
           /\ \A t \in Tasks :
                 /\ op.kind \in {"remove", "discard"} /\ t \in op.ids =>
                       Changed(op, read)[t] = Absent
                 /\ op.kind = "mark" /\ t \in op.ids /\ read[t] # Absent =>
                       Changed(op, read)[t] = op.at[t]
                 /\ op.kind = "mark" /\ read[t] = Absent =>
                       Changed(op, read)[t] = Absent
                 /\ op.kind = "add" /\ t \in op.ids =>
                       Changed(op, read)[t] = 0
                 /\ t \notin op.ids => Changed(op, read)[t] = read[t]
<1>1. op \in Op
  BY DEF TaskTypes
<1>2. \A t \in Tasks : /\ op.at[t] \in -1..MaxDue
                       /\ read[t] \in -1..MaxDue
                       /\ 0 \in -1..MaxDue /\ Absent \in -1..MaxDue
  BY <1>1, Bounds DEF Op, Entries
<1>3. op.kind \in {"remove", "discard", "mark", "add"}
  BY <1>1 DEF Op
<1>4. Changed(op, read) \in Entries
  BY <1>2 DEF Changed, Entries
<1>5. \A t \in Tasks : Changed(op, read)[t] =
         CASE t \in op.ids /\ op.kind \in {"remove", "discard"} -> Absent
           [] t \in op.ids /\ op.kind = "mark" /\ read[t] # Absent -> op.at[t]
           [] t \in op.ids /\ op.kind = "add" -> 0
           [] OTHER -> read[t]
  BY DEF Changed
<1> QED BY <1>3, <1>4, <1>5

\* What the bookkeeping makes of an operation that goes on.
LEMMA GoesOnKeeps ==
    ASSUME TasksInv, NEW p \in Processes, NEW op \in ops[p], NEW new,
           GoesOn(p, op, new), UNCHANGED FileRest,
           sched' \in [Processes -> Sched],
           \A q \in Processes : /\ sched'[q].inFlight = sched[q].inFlight
                               /\ sched'[q].next = sched[q].next,
           OpGood(p, new), damaged => damaged'
    PROVE  /\ ops' \in [Processes -> SUBSET Op]
           /\ ops'[p] = (ops[p] \ {op}) \cup {new}
           /\ \A q \in Processes \ {p} : ops'[q] = ops[q]
           /\ FlightTracked' /\ OpsGood' /\ Disjoint' /\ FiredPast'
           /\ NextAhead' /\ MarkFresh' /\ OnceUnlessRaced'
           /\ \A t \in Tasks : Pending(t) => Pending(t)'
<1> USE DEF TasksInv
<1>1. ops \in [Processes -> SUBSET Op] /\ sched \in [Processes -> Sched]
  BY DEF TaskTypes
<1>2. /\ ops' \in [Processes -> SUBSET Op]
      /\ ops'[p] = (ops[p] \ {op}) \cup {new}
      /\ \A q \in Processes \ {p} : ops'[q] = ops[q]
  BY <1>1 DEF GoesOn
<1>3. /\ new.kind = op.kind /\ new.ids = op.ids /\ new.at = op.at
      /\ Fires(new) <=> Fires(op)
  BY DEF GoesOn, Fires
<1>4. FlightTracked'
  BY <1>2, <1>3 DEF Bookkeeping, FlightTracked, Fires
<1>5. OpsGood'
  <2>1. \A q \in Processes : \A o \in Op : OpGood(q, o)' <=> OpGood(q, o)
    BY DEF OpGood, Retired, FileRest
  <2>2. \A q \in Processes : \A o \in ops'[q] : OpGood(q, o) /\ o \in Op
    BY <1>1, <1>2 DEF Bookkeeping, OpsGood
  <2> QED BY <2>1, <2>2 DEF OpsGood
<1>6. Disjoint'
  <2>1. ASSUME NEW o \in ops'[p], NEW r \in ops'[p], Fires(o), Fires(r), o # r
        PROVE  o.ids \cap r.ids = {}
    BY <1>2, <1>3, <2>1 DEF Bookkeeping, Disjoint
  <2> QED BY <1>2, <2>1 DEF Bookkeeping, Disjoint, Fires
<1>7. FiredPast'
  BY DEF Bookkeeping, FiredPast, FileRest
<1>8. NextAhead'
  BY DEF Firing, NextAhead, IsOwner, FileRest
<1>9. \A t \in Tasks : Pending(t) => Pending(t)'
  BY <1>2, <1>3 DEF Pending, Fires
<1>10. MarkFresh' /\ OnceUnlessRaced'
  <2>1. Calm' => Calm
    BY DEF Calm, FileRest
  <2>2. fired' = fired /\ again' = again
    BY DEF FileRest
  <2> QED BY <1>1, <1>2, <1>3, <2>1, <2>2
          DEF Firing, MarkFresh, OnceUnlessRaced, Calm
<1> QED BY <1>2, <1>4, <1>5, <1>6, <1>7, <1>8, <1>9, <1>10

LEMMA ReadTasks ==
    ASSUME IInv, NEW p \in Processes, NEW op \in ops[p],
           OpReads(p, op), UNCHANGED FileRest,
           op.kind = "add" \/ op.ids \cap Present(Reading) # {}
    PROVE  TasksInv'
<1> DEFINE new == [op EXCEPT !.stage = "writing", !.out = Changed(op, Reading)]
<1>1. /\ op.stage = "reading"
      /\ damaged' = (damaged \/ Open # {})
      /\ ops' = [ops EXCEPT ![p] = (@ \ {op}) \cup {new}]
      /\ UNCHANGED <<sched, disk>>
  BY DEF OpReads, Replace
<1>2. TasksInv /\ TaskTypes /\ Bookkeeping /\ op \in Op
  BY DEF IInv, TasksInv, TaskTypes
<1>3. Reading \in Entries
      /\ \A t \in Tasks : disk.entries[t] = Absent => Reading[t] = Absent
  BY <1>2, ReadingType
<1>4. Changed(op, Reading) \in Entries
  BY <1>2, <1>3, ChangedType
<1>5. /\ new \in Op /\ new.kind = op.kind /\ new.ids = op.ids
      /\ new.at = op.at /\ new.stage = "writing"
      /\ new.out = Changed(op, Reading)
  BY <1>2, <1>4 DEF Op
<1> HIDE DEF new
<1>6. op.ids \subseteq Tasks
  BY <1>2 DEF Op
<1>7. OpGood(p, new)
  <2>1. OpGood(p, op)
    BY <1>2 DEF Bookkeeping, OpsGood
  <2>2. \A t \in op.ids :
           /\ op.kind \in {"remove", "discard"} => new.out[t] = Absent
           /\ op.kind = "mark" => new.out[t] = op.at[t] \/ new.out[t] = Absent
           /\ op.kind = "add" => new.out[t] = 0
    BY <1>2, <1>3, <1>5, <1>6, ChangedType
  <2> QED BY <1>5, <2>1, <2>2 DEF OpGood, Fires
<1>8. GoesOn(p, op, new)
  BY <1>1, <1>5 DEF GoesOn
<1>9. sched' \in [Processes -> Sched]
  BY <1>1, <1>2 DEF TaskTypes
<1>10. damaged => damaged' /\ damaged' \in BOOLEAN
  BY <1>1, <1>2 DEF TaskTypes
<1>11. /\ ops' \in [Processes -> SUBSET Op]
       /\ ops'[p] = (ops[p] \ {op}) \cup {new}
       /\ \A q \in Processes \ {p} : ops'[q] = ops[q]
       /\ FlightTracked' /\ OpsGood' /\ Disjoint' /\ FiredPast'
       /\ NextAhead' /\ MarkFresh' /\ OnceUnlessRaced'
       /\ \A t \in Tasks : Pending(t) => Pending(t)'
  BY <1>1, <1>2, <1>7, <1>8, <1>9, <1>10, GoesOnKeeps
<1>12. TaskTypes' /\ Truncated'
  BY <1>1, <1>2, <1>10, <1>11 DEF TaskTypes, FileRest, Bookkeeping, Truncated
<1>13. Coherent'
  BY <1>1, <1>2 DEF Bookkeeping, Coherent, Reading
<1>14. Fresh'
  <2>1. \A t \in Tasks : Nowhere(t)' <=> Nowhere(t)
    BY <1>1 DEF Nowhere, FileRest
  <2>2. ASSUME NEW t \in Tasks, Nowhere(t), OutOf(t, op)
        PROVE  OutOf(t, new)
    <3>1. Reading[t] = Absent
      BY <1>3, <2>2 DEF Nowhere
    <3>2. op.kind \in {"remove", "discard", "mark", "add"}
      BY <1>2 DEF Op
    <3>3. new.out[t] = Absent
      <4>1. CASE t \notin op.ids
        BY <1>2, <1>3, <1>5, <3>1, <4>1, ChangedType
      <4>2. CASE t \in op.ids
        BY <1>2, <1>3, <1>5, <2>2, <3>1, <3>2, <4>2, ChangedType DEF OutOf
      <4> QED BY <4>1, <4>2
    <3> QED BY <1>5, <2>2, <3>3 DEF OutOf
  <2>3. ASSUME NEW t \in Tasks, t \notin created'
        PROVE  Nowhere(t)' /\ \A q \in Processes : \A o \in ops'[q] : OutOf(t, o)
    <3>1. Nowhere(t) /\ \A q \in Processes : \A o \in ops[q] : OutOf(t, o)
      BY <1>2, <2>3 DEF Bookkeeping, Fresh, FileRest
    <3> QED BY <1>11, <2>1, <2>2, <3>1
  <2>4. ASSUME NEW t \in Tasks, NEW q \in Processes, NEW o \in ops'[q],
               o.kind = "add", t \in o.ids
        PROVE  /\ Nowhere(t)'
               /\ \A r \in Processes : \A n \in ops'[r] :
                     (r = q /\ n = o) \/ OutOf(t, n)
    <3>1. CASE q = p /\ o = new
      <4>1. /\ Nowhere(t)
            /\ \A r \in Processes : \A n \in ops[r] :
                  (r = p /\ n = op) \/ OutOf(t, n)
        BY <1>2, <1>5, <2>4, <3>1 DEF Bookkeeping, Fresh
      <4> QED BY <1>11, <2>1, <3>1, <4>1
    <3>2. CASE ~(q = p /\ o = new)
      <4>1. o \in ops[q] /\ ~(q = p /\ o = op)
        BY <1>11, <3>2
      <4>2. /\ Nowhere(t)
            /\ \A r \in Processes : \A n \in ops[r] :
                  (r = q /\ n = o) \/ OutOf(t, n)
        BY <1>2, <2>4, <4>1 DEF Bookkeeping, Fresh
      <4>3. OutOf(t, new)
        BY <2>2, <4>1, <4>2
      <4> QED BY <1>11, <2>1, <4>2, <4>3
    <3> QED BY <3>1, <3>2
  <2> QED BY <2>3, <2>4 DEF Fresh, OutOf, Nowhere
<1>15. ~damaged' => /\ ~damaged /\ disk.whole /\ Reading = disk.entries
                    /\ \A q \in Processes : \A o \in ops[q] : ~Begun(o)
  <2>1. ASSUME ~damaged' PROVE ~damaged /\ Open = {}
    BY <1>1, <2>1
  <2>2. Open = {} => \A q \in Processes : \A o \in ops[q] : ~Begun(o)
    BY DEF Open, Begun
  <2>3. ASSUME ~damaged, \A q \in Processes : \A o \in ops[q] : ~Begun(o)
        PROVE  disk.whole
    BY <1>2, <2>3 DEF TasksInv, Writing, OneWriter, Begun
  <2> QED BY <2>1, <2>2, <2>3 DEF Reading
<1>16. OneWriter'
  <2>1. ASSUME NEW q \in Processes, NEW o \in ops'[q], Begun(o), ~damaged'
        PROVE  q = p /\ o = new
    BY <1>11, <1>15, <2>1
  <2>2. \A q \in Processes : \A o \in ops'[q] : ~damaged' =>
           /\ o.stage = "writing" =>
                 disk'.whole /\ o.out = Changed(o, disk'.entries)
           /\ o.stage # "filling"
    <3>1. ~damaged' => new.out = Changed(new, disk.entries)
      BY <1>5, <1>15 DEF Changed
    <3> QED BY <1>1, <1>5, <1>15, <2>1, <3>1 DEF Begun
  <2>3. ~damaged' => disk'.whole
    BY <1>1, <1>15
  <2> QED BY <2>1, <2>2, <2>3 DEF OneWriter, Begun, Changed
<1>17. NoTaskLost'
  <2>1. ~damaged' => ~damaged
    BY <1>10
  <2>2. op.stage = "reading"
    BY <1>1
  <2> QED BY <1>1, <1>2, <1>5, <1>11, <2>1, <2>2
          DEF TasksInv, Writing, NoTaskLost, FileRest
<1>18. FiredStands'
  <2>1. \A t \in Tasks : \A v : Stands(t, v)' <=> Stands(t, v)
    BY DEF Stands, FileRest
  <2>2. Calm' => Calm
    BY <1>10 DEF Calm, FileRest
  <2>3. \A q \in Processes : \A o \in ops'[q] :
           o.stage = "filling" => o \in ops[q]
    BY <1>5, <1>11
  <2> QED BY <1>1, <1>2, <1>11, <2>1, <2>2, <2>3
          DEF TasksInv, Firing, FiredStands, FileRest, Stands
<1> QED BY <1>11, <1>12, <1>13, <1>14, <1>16, <1>17, <1>18
        DEF TasksInv, Bookkeeping, Writing, Firing

\* What a notification leaves of a scheduler.
LEMMA NotifyType ==
    ASSUME NEW scheds \in [Processes -> Sched]
    PROVE  /\ Notify(scheds) \in [Processes -> Sched]
           /\ \A q \in Processes :
                 /\ Notify(scheds)[q].tasks = scheds[q].tasks
                 /\ Notify(scheds)[q].next = scheds[q].next
                 /\ Notify(scheds)[q].inFlight = scheds[q].inFlight
                 /\ Notify(scheds)[q].phase = scheds[q].phase
                 /\ sched[q].phase # "starting" => Notify(scheds)[q].dirty
                 /\ sched[q].phase = "starting" =>
                       Notify(scheds)[q].dirty = scheds[q].dirty
BY DEF Notify, Watching, Sched

LEMMA TruncateTasks ==
    ASSUME IInv, NEW p \in Processes, NEW op \in ops[p],
           OpTruncates(p, op), UNCHANGED FileRest
    PROVE  TasksInv'
<1> DEFINE new == [op EXCEPT !.stage = "filling"]
<1>1. /\ op.stage = "writing"
      /\ disk' = [whole |-> FALSE, entries |-> Empty]
      /\ ops' = [ops EXCEPT ![p] = (@ \ {op}) \cup {new}]
      /\ sched' = Notify(sched) /\ damaged' = damaged
  BY DEF OpTruncates, Replace
<1>2. /\ TasksInv /\ TaskTypes /\ Bookkeeping /\ op \in Op
      /\ sched \in [Processes -> Sched]
  BY DEF IInv, TasksInv, TaskTypes
<1>3. /\ new \in Op /\ new.kind = op.kind /\ new.ids = op.ids
      /\ new.at = op.at /\ new.stage = "filling" /\ new.out = op.out
  BY <1>2 DEF Op
<1> HIDE DEF new
<1>4. disk' \in Disk /\ ~disk'.whole /\ disk'.entries = Empty
  BY <1>1, EmptyType DEF Disk
<1>5. /\ sched' \in [Processes -> Sched]
      /\ \A q \in Processes :
            /\ sched'[q].tasks = sched[q].tasks
            /\ sched'[q].next = sched[q].next
            /\ sched'[q].inFlight = sched[q].inFlight
            /\ sched'[q].phase = sched[q].phase
            /\ sched[q].phase # "starting" => sched'[q].dirty
            /\ sched[q].phase = "starting" => sched'[q].dirty = sched[q].dirty
  BY <1>1, <1>2, NotifyType
<1>6. OpGood(p, new)
  <2>1. OpGood(p, op)
    BY <1>2 DEF Bookkeeping, OpsGood
  <2> QED BY <1>1, <1>3, <2>1 DEF OpGood, Fires, Begun
<1>7. GoesOn(p, op, new)
  BY <1>1, <1>3 DEF GoesOn
<1>8. /\ ops' \in [Processes -> SUBSET Op]
      /\ ops'[p] = (ops[p] \ {op}) \cup {new}
      /\ \A q \in Processes \ {p} : ops'[q] = ops[q]
      /\ FlightTracked' /\ OpsGood' /\ Disjoint' /\ FiredPast'
      /\ NextAhead' /\ MarkFresh' /\ OnceUnlessRaced'
      /\ \A t \in Tasks : Pending(t) => Pending(t)'
  BY <1>1, <1>2, <1>5, <1>6, <1>7, GoesOnKeeps
<1>9. TaskTypes' /\ Truncated'
  BY <1>1, <1>2, <1>4, <1>5, <1>8 DEF TaskTypes, FileRest, Truncated
<1>10. Coherent'
  BY <1>2, <1>4, <1>5 DEF Bookkeeping, Coherent, Reading
<1>11. Fresh'
  <2>1. \A t \in Tasks : Nowhere(t) => Nowhere(t)'
    BY <1>4, <1>5, EmptyType DEF Nowhere, FileRest
  <2>2. \A t \in Tasks : OutOf(t, new) <=> OutOf(t, op)
    BY <1>3 DEF OutOf
  <2>3. ASSUME NEW t \in Tasks, t \notin created'
        PROVE  Nowhere(t)' /\ \A q \in Processes : \A o \in ops'[q] : OutOf(t, o)
    <3>1. Nowhere(t) /\ \A q \in Processes : \A o \in ops[q] : OutOf(t, o)
      BY <1>2, <2>3 DEF Bookkeeping, Fresh, FileRest
    <3> QED BY <1>8, <2>1, <2>2, <3>1
  <2>4. ASSUME NEW t \in Tasks, NEW q \in Processes, NEW o \in ops'[q],
               o.kind = "add", t \in o.ids
        PROVE  /\ Nowhere(t)'
               /\ \A r \in Processes : \A n \in ops'[r] :
                     (r = q /\ n = o) \/ OutOf(t, n)
    <3>1. CASE q = p /\ o = new
      <4>1. /\ Nowhere(t)
            /\ \A r \in Processes : \A n \in ops[r] :
                  (r = p /\ n = op) \/ OutOf(t, n)
        BY <1>2, <1>3, <2>4, <3>1 DEF Bookkeeping, Fresh
      <4> QED BY <1>8, <2>1, <3>1, <4>1
    <3>2. CASE ~(q = p /\ o = new)
      <4>1. o \in ops[q] /\ ~(q = p /\ o = op)
        BY <1>8, <3>2
      <4>2. /\ Nowhere(t)
            /\ \A r \in Processes : \A n \in ops[r] :
                  (r = q /\ n = o) \/ OutOf(t, n)
        BY <1>2, <2>4, <4>1 DEF Bookkeeping, Fresh
      <4> QED BY <1>8, <2>1, <2>2, <4>1, <4>2
    <3> QED BY <3>1, <3>2
  <2> QED BY <2>3, <2>4 DEF Fresh, OutOf, Nowhere
<1>12. ~damaged =>
          /\ disk.whole /\ op.out = Changed(op, disk.entries)
          /\ \A q \in Processes : \A o \in ops[q] :
                Begun(o) => q = p /\ o = op
  BY <1>1, <1>2 DEF TasksInv, Writing, OneWriter, Begun
<1>13. OneWriter'
  <2>1. ASSUME NEW q \in Processes, NEW o \in ops'[q], Begun(o), ~damaged
        PROVE  q = p /\ o = new
    BY <1>8, <1>12, <2>1
  <2>2. new \in ops'[p]
    BY <1>8
  <2> QED BY <1>1, <1>3, <1>4, <2>1, <2>2 DEF OneWriter, Begun
<1>14. op.ids \subseteq Tasks /\ disk.entries \in Entries
  BY <1>2 DEF Op, TaskTypes, Disk
<1>15. NoTaskLost'
  <2> SUFFICES ASSUME ~damaged, NEW t \in created \ settled
               PROVE  \E q \in Processes : \E o \in ops'[q] :
                         \/ o.stage = "filling" /\ o.out[t] # Absent
                         \/ o.kind = "add" /\ t \in o.ids
    BY <1>1 DEF NoTaskLost, FileRest
  <2>1. t \in Tasks
    BY <1>2 DEF TaskTypes
  <2>2. CASE disk.entries[t] # Absent
    <3>1. OpGood(p, op)
      BY <1>2 DEF Bookkeeping, OpsGood
    <3>2. op.kind \in {"remove", "discard", "mark", "add"}
      BY <1>2 DEF Op
    <3>3. op.out[t] # Absent
      <4>1. CASE t \notin op.ids
        BY <1>2, <1>12, <1>14, <2>1, <2>2, <4>1, ChangedType
      <4>2. CASE t \in op.ids /\ op.kind \in {"remove", "discard"}
        BY <3>1, <4>2 DEF OpGood
      <4>3. CASE t \in op.ids /\ op.kind = "mark"
        <5>1. op.at[t] \in Int /\ op.at[t] >= 0
          BY <1>2, <2>1, <3>1, <4>3, Bounds DEF OpGood, Op, Entries
        <5>2. op.out[t] = op.at[t]
          BY <1>2, <1>12, <1>14, <2>1, <2>2, <4>3, ChangedType
        <5> QED BY <5>1, <5>2, Bounds
      <4>4. CASE t \in op.ids /\ op.kind = "add"
        <5>1. op.out[t] = 0
          BY <1>2, <1>12, <1>14, <2>1, <4>4, ChangedType
        <5> QED BY <5>1, Bounds
      <4> QED BY <3>2, <4>1, <4>2, <4>3, <4>4
    <3> QED BY <1>3, <1>8, <3>3
  <2>3. CASE disk.entries[t] = Absent
    <3>1. PICK q \in Processes : \E o \in ops[q] :
             \/ o.stage = "filling" /\ o.out[t] # Absent
             \/ o.kind = "add" /\ t \in o.ids
      BY <1>2, <2>3 DEF TasksInv, Writing, NoTaskLost
    <3>2. PICK o \in ops[q] :
             \/ o.stage = "filling" /\ o.out[t] # Absent
             \/ o.kind = "add" /\ t \in o.ids
      BY <3>1
    <3>3. o.stage # "filling"
      BY <1>1, <1>12, <3>2 DEF Begun
    <3> QED BY <1>3, <1>8, <3>2, <3>3
  <2> QED BY <2>2, <2>3
<1>16. FiredStands'
  <2>1. \A t \in Tasks : \A v : Stands(t, v)' <=> Stands(t, v)
    BY DEF Stands, FileRest
  <2>2. Calm' => Calm
    BY <1>1 DEF Calm, FileRest
  <2>3. ASSUME Calm, NEW t \in Tasks, fired[t] > 0, ~Pending(t)'
        PROVE  /\ Stands(t, disk'.entries[t])
               /\ \A q \in Processes : \A o \in ops'[q] :
                     o.stage = "filling" => Stands(t, o.out[t])
    <3>1. ~Pending(t) /\ Stands(t, disk.entries[t])
      BY <1>2, <1>8, <2>3 DEF TasksInv, Firing, FiredStands
    <3>2. Stands(t, disk'.entries[t])
      BY <1>4, EmptyType DEF Stands
    <3>3. Stands(t, op.out[t])
      <4>1. CASE t \notin op.ids
        <5>1. op.out[t] = disk.entries[t]
          BY <1>2, <1>12, <1>14, <2>3, <4>1, ChangedType DEF Calm
        <5> QED BY <3>1, <5>1
      <4>2. CASE t \in op.ids
        <5>1. op.kind \in {"remove", "discard", "mark", "add"}
          BY <1>2 DEF Op
        <5>2. ~Fires(op)
          BY <3>1, <4>2 DEF Pending
        <5>3. op.kind # "add"
          <6>1. op.kind = "add" => Nowhere(t)
            BY <1>2, <4>2 DEF Bookkeeping, Fresh
          <6>2. ~Nowhere(t)
            BY <2>3 DEF Nowhere
          <6> QED BY <6>1, <6>2
        <5>4. op.out[t] = Absent
          BY <1>2, <1>12, <1>14, <2>3, <4>2, <5>1, <5>2, <5>3, ChangedType
          DEF Calm, Fires
        <5> QED BY <5>4 DEF Stands
      <4> QED BY <4>1, <4>2
    <3>4. \A q \in Processes : \A o \in ops'[q] :
             o.stage = "filling" => o = new
      BY <1>1, <1>8, <1>12, <2>3 DEF Calm, Begun
    <3> QED BY <1>3, <3>2, <3>3, <3>4
  <2> QED BY <2>1, <2>2, <2>3 DEF FiredStands, FileRest, Stands
<1> QED BY <1>8, <1>9, <1>10, <1>11, <1>13, <1>15, <1>16
        DEF TasksInv, Bookkeeping, Writing, Firing

\* What the bookkeeping makes of an operation that ends.
LEMMA EndsKeeps ==
    ASSUME TasksInv, NEW p \in Processes, NEW op \in ops[p],
           ops' = [ops EXCEPT ![p] = (@ \ {op}) \cup {}],
           UNCHANGED FileRest, sched' \in [Processes -> Sched],
           Fires(op) => sched'[p].inFlight = sched[p].inFlight \ op.ids,
           ~Fires(op) => sched'[p].inFlight = sched[p].inFlight,
           \A q \in Processes \ {p} : sched'[q].inFlight = sched[q].inFlight,
           \A q \in Processes : sched'[q].next = sched[q].next,
           damaged => damaged'
    PROVE  /\ ops' \in [Processes -> SUBSET Op]
           /\ ops'[p] = ops[p] \ {op}
           /\ \A q \in Processes \ {p} : ops'[q] = ops[q]
           /\ FlightTracked' /\ OpsGood' /\ Disjoint' /\ FiredPast'
           /\ NextAhead' /\ MarkFresh' /\ OnceUnlessRaced'
           /\ \A t \in Tasks : Pending(t) =>
                 Pending(t)' \/ (Fires(op) /\ t \in op.ids)
<1> USE DEF TasksInv
<1>1. ops \in [Processes -> SUBSET Op] /\ sched \in [Processes -> Sched]
  BY DEF TaskTypes
<1>2. /\ ops' \in [Processes -> SUBSET Op]
      /\ ops'[p] = ops[p] \ {op}
      /\ \A q \in Processes \ {p} : ops'[q] = ops[q]
  BY <1>1
<1>3. FlightTracked'
  <2>1. ASSUME NEW q \in Processes, NEW t \in sched'[q].inFlight
        PROVE  \E o \in ops'[q] : Fires(o) /\ t \in o.ids
    <3>1. t \in sched[q].inFlight /\ (q = p /\ Fires(op) => t \notin op.ids)
      BY <2>1
    <3>2. PICK o \in ops[q] : Fires(o) /\ t \in o.ids
      BY <3>1 DEF Bookkeeping, FlightTracked
    <3> QED BY <1>2, <3>1, <3>2
  <2> QED BY <2>1 DEF FlightTracked, Fires
<1>4. OpsGood'
  <2>1. ASSUME NEW q \in Processes, NEW o \in ops'[q] PROVE OpGood(q, o)'
    <3>1. o \in ops[q] /\ OpGood(q, o) /\ ~(q = p /\ o = op)
      BY <1>2 DEF Bookkeeping, OpsGood
    <3>2. ASSUME Fires(o), o.ids \subseteq sched[q].inFlight
          PROVE  o.ids \subseteq sched'[q].inFlight
      <4>1. q = p /\ Fires(op) => o.ids \cap op.ids = {}
        BY <3>1, <3>2 DEF Bookkeeping, Disjoint
      <4> QED BY <3>2, <4>1
    <3> QED BY <3>1, <3>2 DEF OpGood, Retired, FileRest, Fires
  <2> QED BY <2>1 DEF OpsGood
<1>5. Disjoint' /\ FiredPast'
  BY <1>2 DEF Bookkeeping, Disjoint, FiredPast, FileRest
<1>6. NextAhead'
  BY DEF Firing, NextAhead, IsOwner, FileRest
<1>7. MarkFresh' /\ OnceUnlessRaced'
  <2>1. Calm' => Calm
    BY DEF Calm, FileRest
  <2>2. fired' = fired /\ again' = again
    BY DEF FileRest
  <2> QED BY <1>2, <2>1, <2>2 DEF Firing, MarkFresh, OnceUnlessRaced, Calm
<1>8. \A t \in Tasks : Pending(t) =>
         Pending(t)' \/ (Fires(op) /\ t \in op.ids)
  BY <1>2 DEF Pending, Fires
<1> QED BY <1>2, <1>3, <1>4, <1>5, <1>6, <1>7, <1>8

LEMMA LandedType ==
    ASSUME TaskTypes, NEW p \in Processes, NEW op \in ops[p]
    PROVE  /\ Landed(p, op) \in [Processes -> Sched]
           /\ Fires(op) => Landed(p, op)[p].inFlight
                           = sched[p].inFlight \ op.ids
           /\ ~Fires(op) => Landed(p, op)[p].inFlight = sched[p].inFlight
           /\ \A q \in Processes \ {p} : Landed(p, op)[q] = sched[q]
           /\ \A q \in Processes :
                 /\ Landed(p, op)[q].tasks = sched[q].tasks
                 /\ Landed(p, op)[q].next = sched[q].next
                 /\ Landed(p, op)[q].phase = sched[q].phase
                 /\ Landed(p, op)[q].dirty = sched[q].dirty
<1>1. sched \in [Processes -> Sched]
  BY DEF TaskTypes
<1>2. CASE Fires(op)
  <2>1. Landed(p, op) = [sched EXCEPT ![p].inFlight = @ \ op.ids]
    BY <1>2 DEF Landed, Fires
  <2> QED BY <1>1, <1>2, <2>1 DEF Sched
<1>3. CASE ~Fires(op)
  <2>1. Landed(p, op) = sched
    BY <1>3 DEF Landed, Fires
  <2> QED BY <1>1, <1>3, <2>1
<1> QED BY <1>2, <1>3

\* The tasks of the operation are not in the file: it writes nothing.
LEMMA ReadEndsTasks ==
    ASSUME IInv, NEW p \in Processes, NEW op \in ops[p],
           OpReads(p, op), UNCHANGED FileRest,
           ~(op.kind = "add" \/ op.ids \cap Present(Reading) # {})
    PROVE  TasksInv'
<1>1. /\ op.stage = "reading"
      /\ damaged' = (damaged \/ Open # {})
      /\ ops' = [ops EXCEPT ![p] = (@ \ {op}) \cup {}]
      /\ sched' = Landed(p, op) /\ disk' = disk
  BY DEF OpReads, Replace
<1>2. TasksInv /\ TaskTypes /\ Bookkeeping /\ op \in Op
  BY DEF IInv, TasksInv, TaskTypes
<1>3. damaged => damaged' /\ damaged' \in BOOLEAN
  BY <1>1, <1>2 DEF TaskTypes
<1>4. /\ sched' \in [Processes -> Sched]
      /\ Fires(op) => sched'[p].inFlight = sched[p].inFlight \ op.ids
      /\ ~Fires(op) => sched'[p].inFlight = sched[p].inFlight
      /\ \A q \in Processes \ {p} : sched'[q].inFlight = sched[q].inFlight
      /\ \A q \in Processes :
            /\ sched'[q].tasks = sched[q].tasks
            /\ sched'[q].next = sched[q].next
            /\ sched'[q].phase = sched[q].phase
            /\ sched'[q].dirty = sched[q].dirty
  BY <1>1, <1>2, LandedType
<1>5. /\ ops' \in [Processes -> SUBSET Op]
      /\ ops'[p] = ops[p] \ {op}
      /\ \A q \in Processes \ {p} : ops'[q] = ops[q]
      /\ FlightTracked' /\ OpsGood' /\ Disjoint' /\ FiredPast'
      /\ NextAhead' /\ MarkFresh' /\ OnceUnlessRaced'
      /\ \A t \in Tasks : Pending(t) =>
            Pending(t)' \/ (Fires(op) /\ t \in op.ids)
  BY <1>1, <1>2, <1>3, <1>4, EndsKeeps
<1>6. TaskTypes' /\ Truncated'
  BY <1>1, <1>2, <1>3, <1>4, <1>5 DEF TaskTypes, FileRest, Bookkeeping, Truncated
<1>7. Coherent'
  <2>1. Reading' = Reading
    BY <1>1 DEF Reading
  <2> QED BY <1>2, <1>4, <2>1 DEF Bookkeeping, Coherent
<1>8. Fresh'
  <2>1. \A t \in Tasks : Nowhere(t)' <=> Nowhere(t)
    BY <1>1, <1>4 DEF Nowhere, FileRest
  <2>2. \A q \in Processes : ops'[q] \subseteq ops[q]
    BY <1>5
  <2>3. created' = created
    BY DEF FileRest
  <2> QED BY <1>2, <2>1, <2>2, <2>3 DEF Bookkeeping, Fresh, OutOf, Nowhere
<1>9. ~damaged' => /\ ~damaged /\ disk.whole /\ Reading = disk.entries
                   /\ \A q \in Processes : \A o \in ops[q] : ~Begun(o)
  <2>1. ASSUME ~damaged' PROVE ~damaged /\ Open = {}
    BY <1>1, <2>1
  <2>2. Open = {} => \A q \in Processes : \A o \in ops[q] : ~Begun(o)
    BY DEF Open, Begun
  <2>3. ASSUME ~damaged, \A q \in Processes : \A o \in ops[q] : ~Begun(o)
        PROVE  disk.whole
    BY <1>2, <2>3 DEF TasksInv, Writing, OneWriter, Begun
  <2> QED BY <2>1, <2>2, <2>3 DEF Reading
<1>10. ~damaged' => \A q \in Processes : \A o \in ops'[q] : ~Begun(o)
  BY <1>5, <1>9
<1>11. OneWriter'
  BY <1>1, <1>9, <1>10 DEF OneWriter, Begun
<1>12. NoTaskLost'
  BY <1>1, <1>2, <1>3, <1>5 DEF TasksInv, Writing, NoTaskLost, FileRest
<1>13. FiredStands'
  <2>1. \A t \in Tasks : \A v : Stands(t, v)' <=> Stands(t, v)
    BY DEF Stands, FileRest
  <2>2. Calm' => Calm /\ ~damaged'
    BY <1>3 DEF Calm, FileRest
  <2>3. ASSUME Calm', NEW t \in Tasks, fired[t] > 0, ~Pending(t)'
        PROVE  Stands(t, disk'.entries[t])
    <3>1. CASE Pending(t)
      <4>1. t \in op.ids
        BY <1>5, <2>3, <3>1
      <4>2. Reading[t] = Absent
        BY <4>1 DEF Present
      <4>3. disk'.entries[t] = Absent
        BY <1>1, <1>9, <2>2, <2>3, <4>2
      <4> QED BY <4>3 DEF Stands
    <3>2. CASE ~Pending(t)
      BY <1>1, <1>2, <2>2, <2>3, <3>2 DEF TasksInv, Firing, FiredStands
    <3> QED BY <3>1, <3>2
  <2>4. Calm' => \A q \in Processes : \A o \in ops'[q] : o.stage # "filling"
    BY <1>10, <2>2 DEF Begun
  <2>5. fired' = fired
    BY DEF FileRest
  <2> QED BY <2>1, <2>3, <2>4, <2>5 DEF FiredStands, Stands
<1> QED BY <1>5, <1>6, <1>7, <1>8, <1>11, <1>12, <1>13
        DEF TasksInv, Bookkeeping, Writing, Firing

\* The operation has filled the file with what it has computed.
LEMMA FillTasks ==
    ASSUME IInv, NEW p \in Processes, NEW op \in ops[p],
           OpFills(p, op), UNCHANGED FileRest
    PROVE  TasksInv'
<1>1. /\ op.stage = "filling"
      /\ disk' = [whole |-> TRUE, entries |-> op.out]
      /\ ops' = [ops EXCEPT ![p] = (@ \ {op}) \cup {}]
      /\ sched' = Notify(Landed(p, op)) /\ damaged' = damaged
  BY DEF OpFills, Replace
<1>2. TasksInv /\ TaskTypes /\ Bookkeeping /\ op \in Op
  BY DEF IInv, TasksInv, TaskTypes
<1>3. disk' \in Disk /\ disk'.whole /\ disk'.entries = op.out
  BY <1>1, <1>2 DEF Disk, Op
<1>4. /\ sched' \in [Processes -> Sched]
      /\ Fires(op) => sched'[p].inFlight = sched[p].inFlight \ op.ids
      /\ ~Fires(op) => sched'[p].inFlight = sched[p].inFlight
      /\ \A q \in Processes \ {p} : sched'[q].inFlight = sched[q].inFlight
      /\ \A q \in Processes :
            /\ sched'[q].tasks = sched[q].tasks
            /\ sched'[q].next = sched[q].next
            /\ sched'[q].phase = sched[q].phase
            /\ sched[q].phase # "starting" => sched'[q].dirty
            /\ sched[q].phase = "starting" => sched'[q].dirty = sched[q].dirty
  <2> DEFINE landed == Landed(p, op)
  <2>1. /\ landed \in [Processes -> Sched]
        /\ Fires(op) => landed[p].inFlight = sched[p].inFlight \ op.ids
        /\ ~Fires(op) => landed[p].inFlight = sched[p].inFlight
        /\ \A q \in Processes \ {p} : landed[q].inFlight = sched[q].inFlight
        /\ \A q \in Processes : /\ landed[q].tasks = sched[q].tasks
                               /\ landed[q].next = sched[q].next
                               /\ landed[q].phase = sched[q].phase
                               /\ landed[q].dirty = sched[q].dirty
    BY <1>2, LandedType
  <2>2. sched' = Notify(landed)
    BY <1>1
  <2> HIDE DEF landed
  <2> QED BY <2>1, <2>2, NotifyType
<1>5. /\ ops' \in [Processes -> SUBSET Op]
      /\ ops'[p] = ops[p] \ {op}
      /\ \A q \in Processes \ {p} : ops'[q] = ops[q]
      /\ FlightTracked' /\ OpsGood' /\ Disjoint' /\ FiredPast'
      /\ NextAhead' /\ MarkFresh' /\ OnceUnlessRaced'
      /\ \A t \in Tasks : Pending(t) =>
            Pending(t)' \/ (Fires(op) /\ t \in op.ids)
  BY <1>1, <1>2, <1>4, EndsKeeps
<1>6. TaskTypes' /\ Truncated'
  BY <1>1, <1>2, <1>3, <1>4, <1>5 DEF TaskTypes, FileRest, Truncated
<1>7. Coherent'
  BY <1>2, <1>4 DEF Bookkeeping, Coherent
<1>8. Fresh'
  <2>1. \A t \in Tasks : Nowhere(t) /\ OutOf(t, op) => Nowhere(t)'
    BY <1>3, <1>4 DEF Nowhere, OutOf, FileRest
  <2>2. ASSUME NEW t \in Tasks, t \notin created'
        PROVE  Nowhere(t)' /\ \A q \in Processes : \A o \in ops'[q] : OutOf(t, o)
    <3>1. Nowhere(t) /\ \A q \in Processes : \A o \in ops[q] : OutOf(t, o)
      BY <1>2, <2>2 DEF Bookkeeping, Fresh, FileRest
    <3> QED BY <1>5, <2>1, <3>1
  <2>3. ASSUME NEW t \in Tasks, NEW q \in Processes, NEW o \in ops'[q],
               o.kind = "add", t \in o.ids
        PROVE  /\ Nowhere(t)'
               /\ \A r \in Processes : \A n \in ops'[r] :
                     (r = q /\ n = o) \/ OutOf(t, n)
    <3>1. o \in ops[q] /\ ~(q = p /\ o = op)
      BY <1>5
    <3>2. /\ Nowhere(t)
          /\ \A r \in Processes : \A n \in ops[r] :
                (r = q /\ n = o) \/ OutOf(t, n)
      BY <1>2, <2>3, <3>1 DEF Bookkeeping, Fresh
    <3>3. OutOf(t, op)
      BY <3>1, <3>2
    <3> QED BY <1>5, <2>1, <3>2, <3>3
  <2> QED BY <2>2, <2>3 DEF Fresh, OutOf, Nowhere
<1>9. ~damaged =>
         /\ ~disk.whole
         /\ \A q \in Processes : \A o \in ops'[q] : ~Begun(o)
  <2>1. ~damaged => \A q \in Processes : \A o \in ops[q] :
                       Begun(o) => q = p /\ o = op
    BY <1>1, <1>2 DEF TasksInv, Writing, OneWriter, Begun
  <2> QED BY <1>1, <1>2, <1>5, <2>1 DEF TasksInv, Writing, OneWriter
<1>10. OneWriter'
  BY <1>1, <1>3, <1>9 DEF OneWriter, Begun
<1>11. OpGood(p, op) /\ Begun(op)
  BY <1>1, <1>2 DEF Bookkeeping, OpsGood, Begun
<1>12. NoTaskLost'
  <2> SUFFICES ASSUME ~damaged, NEW t \in created \ settled
               PROVE  \/ disk'.entries[t] # Absent
                      \/ \E q \in Processes : \E o \in ops'[q] :
                            o.kind = "add" /\ t \in o.ids
    BY <1>1 DEF NoTaskLost, FileRest
  <2>1. t \in Tasks
    BY <1>2 DEF TaskTypes
  <2>2. disk.entries[t] = Absent
    BY <1>2, <1>9, <2>1, EmptyType DEF Bookkeeping, Truncated
  <2>3. PICK q \in Processes : \E o \in ops[q] :
           \/ o.stage = "filling" /\ o.out[t] # Absent
           \/ o.kind = "add" /\ t \in o.ids
    BY <1>2, <2>2 DEF TasksInv, Writing, NoTaskLost
  <2>4. PICK o \in ops[q] :
           \/ o.stage = "filling" /\ o.out[t] # Absent
           \/ o.kind = "add" /\ t \in o.ids
    BY <2>3
  <2>5. CASE q = p /\ o = op
    <3>1. op.out[t] # Absent
      <4>1. CASE op.kind = "add" /\ t \in op.ids
        <5>1. op.out[t] = 0
          BY <1>11, <4>1 DEF OpGood
        <5> QED BY <5>1, Bounds
      <4> QED BY <2>4, <2>5, <4>1
    <3> QED BY <1>3, <3>1
  <2>6. CASE ~(q = p /\ o = op)
    <3>1. o \in ops'[q]
      BY <1>5, <2>6
    <3>2. o.stage # "filling"
      BY <1>9, <3>1 DEF Begun
    <3> QED BY <2>4, <3>1, <3>2
  <2> QED BY <2>5, <2>6
<1>13. FiredStands'
  <2>1. \A t \in Tasks : \A v : Stands(t, v)' <=> Stands(t, v)
    BY DEF Stands, FileRest
  <2>2. Calm' => Calm /\ ~damaged
    BY <1>1 DEF Calm, FileRest
  <2>3. ASSUME Calm, NEW t \in Tasks, fired[t] > 0, ~Pending(t)'
        PROVE  Stands(t, op.out[t])
    <3>1. CASE Pending(t)
      <4>1. Fires(op) /\ t \in op.ids
        BY <1>5, <2>3, <3>1
      <4>2. CASE op.kind = "remove"
        BY <1>11, <4>1, <4>2 DEF OpGood, Stands
      <4>3. CASE op.kind = "mark"
        <5>1. t \in recurring /\ op.out[t] \in {op.at[t], Absent}
          BY <1>11, <4>1, <4>3 DEF OpGood
        <5>2. op.at[t] >= fired[t]
          BY <1>2, <2>3, <4>1, <4>3 DEF TasksInv, Firing, MarkFresh
        <5> QED BY <5>1, <5>2 DEF Stands
      <4> QED BY <4>1, <4>2, <4>3 DEF Fires
    <3>2. CASE ~Pending(t)
      BY <1>1, <1>2, <2>3, <3>2 DEF TasksInv, Firing, FiredStands
    <3> QED BY <3>1, <3>2
  <2>4. Calm' => \A q \in Processes : \A o \in ops'[q] : o.stage # "filling"
    BY <1>9, <2>2 DEF Begun
  <2>5. fired' = fired
    BY DEF FileRest
  <2> QED BY <1>3, <2>1, <2>2, <2>3, <2>4, <2>5 DEF FiredStands, Stands
<1> QED BY <1>5, <1>6, <1>7, <1>8, <1>10, <1>12, <1>13
        DEF TasksInv, Bookkeeping, Writing, Firing

LEMMA FileTasks ==
    ASSUME IInv, NEW p \in Processes, FileOp(p)
    PROVE  TasksInv'
<1>1. UNCHANGED FileRest
  BY DEF FileOp, FileRest, lockVars, rest
<1>2. PICK op \in ops[p] :
         OpReads(p, op) \/ OpTruncates(p, op) \/ OpFills(p, op)
  BY DEF FileOp
<1> QED BY <1>1, <1>2, ReadTasks, ReadEndsTasks, TruncateTasks, FillTasks

-----------------------------------------------------------------------------
(***************************************************************************)
(* A tick.                                                                 *)
(***************************************************************************)
LEMMA CheckTasks ==
    ASSUME IInv, NEW p \in Processes, Check(p)
    PROVE  TasksInv'
<1> DEFINE D == Due(p)
<1>1. PICK aged \in SUBSET (D \cap recurring) :
         LET gone == (D \cap Once) \cup aged
             kept == D \ gone
         IN  /\ sched' = [sched EXCEPT
                   ![p].next = [t \in Tasks |->
                       IF t \in kept THEN clock[t] + 1
                       ELSE IF t \in Seen(p) \ gone THEN NextFire(p, t)
                       ELSE Unset],
                   ![p].inFlight = @ \cup D]
             /\ ops' = [ops EXCEPT ![p] = @
                   \cup {NewOp("remove", {t}, Empty) : t \in gone}
                   \cup {NewOp("mark", ids, clock) : ids \in {kept} \ {{}}}]
             /\ settled' = settled \cup gone
  BY DEF Check
<1> DEFINE gone == (D \cap Once) \cup aged
           kept == D \ gone
           next == [t \in Tasks |->
                       IF t \in kept THEN clock[t] + 1
                       ELSE IF t \in Seen(p) \ gone THEN NextFire(p, t)
                       ELSE Unset]
           new == {NewOp("remove", {t}, Empty) : t \in gone}
                  \cup {NewOp("mark", ids, clock) : ids \in {kept} \ {{}}}
<1>2. /\ sched' = [sched EXCEPT ![p].next = next, ![p].inFlight = @ \cup D]
      /\ ops' = [ops EXCEPT ![p] = @ \cup new]
      /\ settled' = settled \cup gone
      /\ fired' = [t \in Tasks |-> IF t \in D THEN TimeOf(t) ELSE fired[t]]
      /\ again' = again \cup {t \in D : fired[t] = TimeOf(t)}
      /\ stale' = (stale \/ (D # {} /\ Ahead(p)))
      /\ UNCHANGED <<lock, halted, recurring, disk, clock, created, damaged>>
  BY <1>1 DEF Check, lockVars
<1>3. /\ TasksInv /\ TaskTypes /\ Bookkeeping
      /\ sched \in [Processes -> Sched] /\ ops \in [Processes -> SUBSET Op]
      /\ clock \in [Tasks -> 0..MaxDue] /\ fired \in [Tasks -> 0..MaxDue]
  BY DEF IInv, TasksInv, TaskTypes
<1>4. /\ D \subseteq Tasks /\ D \cap sched[p].inFlight = {}
      /\ \A t \in D : /\ IsOwner(p) /\ sched[p].tasks[t] # Absent
                      /\ clock[t] >= NextFire(p, t)
  BY DEF Due, Seen, Present
<1>5. /\ Seen(p) \subseteq Tasks
      /\ \A t \in Seen(p) : IsOwner(p) /\ sched[p].tasks[t] # Absent
  BY DEF Seen, Present
<1>6. /\ gone \subseteq D /\ kept \subseteq D /\ kept \cap gone = {}
      /\ D = gone \cup kept /\ kept \subseteq recurring
  BY <1>4 DEF Once
<1>7. \A t \in Seen(p) : \/ NextFire(p, t) = sched[p].next[t]
                         \/ /\ NextFire(p, t) = sched[p].tasks[t] + 1
                            /\ sched[p].next[t] = Unset
                            /\ t \notin sched[p].inFlight
  BY DEF NextFire
<1>8. \A t \in Tasks : /\ sched[p].next[t] \in 0..MaxDue + 1
                       /\ sched[p].tasks[t] \in -1..MaxDue
                       /\ clock[t] \in 0..MaxDue /\ fired[t] \in 0..MaxDue
  BY <1>3 DEF Sched, Entries
<1>9. next \in [Tasks -> 0..MaxDue + 1]
  <2>1. ASSUME NEW t \in Tasks
        PROVE  /\ clock[t] + 1 \in 0..MaxDue + 1 /\ Unset \in 0..MaxDue + 1
               /\ t \in Seen(p) => NextFire(p, t) \in 0..MaxDue + 1
    <3>1. sched[p].tasks[t] + 1 \in 0..MaxDue + 1 /\ clock[t] + 1 \in 0..MaxDue + 1
      BY <1>8, Bounds
    <3>2. Unset \in 0..MaxDue + 1
      BY Bounds DEF Unset
    <3> QED BY <1>7, <1>8, <3>1, <3>2
  <2> HIDE DEF gone, kept, D
  <2> QED BY <2>1
<1> HIDE DEF new
<1>10. \A op \in new :
          /\ op \in Op /\ op.stage = "reading" /\ ~Begun(op) /\ Fires(op)
          /\ op.ids \subseteq D /\ \A t \in Tasks : op.out[t] = Absent
          /\ \/ /\ op.kind = "remove" /\ op.ids \subseteq gone
                /\ \E t \in gone : op = NewOp("remove", {t}, Empty)
             \/ /\ op.kind = "mark" /\ op.ids = kept /\ op.at = clock
                /\ op = NewOp("mark", kept, clock)
  <2>1. ASSUME NEW op \in new
        PROVE \/ \E t \in gone : op = NewOp("remove", {t}, Empty)
              \/ op = NewOp("mark", kept, clock)
    BY DEF new
  <2>2. clock \in Entries
    BY <1>3, Bounds DEF Entries
  <2>3. ASSUME NEW t \in gone
        PROVE  LET op == NewOp("remove", {t}, Empty) IN
               /\ op \in Op /\ op.stage = "reading" /\ op.kind = "remove"
               /\ op.ids = {t} /\ op.out = Empty
    BY <1>4, <1>6, EmptyType DEF NewOp, Op
  <2>4. LET op == NewOp("mark", kept, clock) IN
        /\ op \in Op /\ op.stage = "reading" /\ op.kind = "mark"
        /\ op.ids = kept /\ op.out = Empty /\ op.at = clock
    BY <1>4, <1>6, <2>2, EmptyType DEF NewOp, Op
  <2> HIDE DEF gone, kept, D
  <2>5. ASSUME NEW op \in new, NEW t \in gone, op = NewOp("remove", {t}, Empty)
        PROVE  /\ op \in Op /\ op.stage = "reading" /\ op.kind = "remove"
               /\ op.ids \subseteq D /\ op.ids \subseteq gone
               /\ \A u \in Tasks : op.out[u] = Absent
    BY <1>6, <2>3, <2>5, EmptyType
  <2>6. ASSUME NEW op \in new, op = NewOp("mark", kept, clock)
        PROVE  /\ op \in Op /\ op.stage = "reading" /\ op.kind = "mark"
               /\ op.ids = kept /\ op.at = clock /\ op.ids \subseteq D
               /\ \A u \in Tasks : op.out[u] = Absent
    BY <1>6, <2>4, <2>6, EmptyType
  <2>7. ASSUME NEW op \in new
        PROVE  /\ op \in Op /\ op.stage = "reading" /\ ~Begun(op) /\ Fires(op)
               /\ op.ids \subseteq D /\ \A t \in Tasks : op.out[t] = Absent
               /\ \/ /\ op.kind = "remove" /\ op.ids \subseteq gone
                     /\ \E t \in gone : op = NewOp("remove", {t}, Empty)
                  \/ /\ op.kind = "mark" /\ op.ids = kept /\ op.at = clock
                     /\ op = NewOp("mark", kept, clock)
    BY <2>1, <2>5, <2>6 DEF Begun, Fires
  <2> QED BY <2>7
<1>11. \A t \in D : \E op \in new : Fires(op) /\ t \in op.ids
  <2>1. ASSUME NEW t \in gone PROVE \E op \in new : t \in op.ids
    <3>1. NewOp("remove", {t}, Empty) \in new
      BY DEF new
    <3>2. t \in NewOp("remove", {t}, Empty).ids
      BY DEF NewOp
    <3> QED BY <3>1, <3>2
  <2>2. ASSUME NEW t \in kept PROVE \E op \in new : t \in op.ids
    <3>1. NewOp("mark", kept, clock) \in new
      BY DEF new
    <3>2. t \in NewOp("mark", kept, clock).ids
      BY DEF NewOp
    <3> QED BY <3>1, <3>2
  <2> HIDE DEF gone, kept, D
  <2> QED BY <1>6, <1>10, <2>1, <2>2
<1>12. /\ sched' \in [Processes -> Sched]
       /\ sched'[p].next = next
       /\ sched'[p].inFlight = sched[p].inFlight \cup D
       /\ \A q \in Processes \ {p} : sched'[q] = sched[q]
       /\ \A q \in Processes : /\ sched'[q].tasks = sched[q].tasks
                              /\ sched'[q].dirty = sched[q].dirty
                              /\ sched'[q].phase = sched[q].phase
  <2> HIDE DEF next, gone, kept, D
  <2> QED BY <1>2, <1>3, <1>4, <1>9 DEF Sched
<1>13. \A t \in Tasks :
          /\ t \in kept => next[t] = clock[t] + 1
          /\ t \notin kept =>
                next[t] = Unset \/ (t \in Seen(p) /\ next[t] = NextFire(p, t))
  <2> HIDE DEF gone, kept, D
  <2> QED OBVIOUS
<1>14. /\ ops' \in [Processes -> SUBSET Op]
       /\ ops'[p] = ops[p] \cup new
       /\ \A q \in Processes \ {p} : ops'[q] = ops[q]
  <2> HIDE DEF gone, kept, D
  <2> QED BY <1>2, <1>3, <1>10
<1> HIDE DEF next
<1>15. \A t \in D : /\ TimeOf(t) \in 0..MaxDue
                    /\ TimeOf(t) <= clock[t] /\ clock[t] >= 1
                    /\ t \in Once => TimeOf(t) = 1
                    /\ t \in recurring => TimeOf(t) = clock[t]
  <2>1. ASSUME NEW t \in D PROVE clock[t] >= 1
    <3>1. t \in Tasks /\ t \in Seen(p) /\ t \notin sched[p].inFlight
      BY <1>4 DEF Due
    <3>2. NextFire(p, t) >= 1 /\ NextFire(p, t) \in Int
      <4>1. CASE sched[p].next[t] = Unset
        <5>1. NextFire(p, t) = sched[p].tasks[t] + 1
          BY <3>1, <4>1 DEF NextFire
        <5> QED BY <1>4, <1>8, <3>1, <5>1, Bounds
      <4>2. CASE sched[p].next[t] # Unset
        <5>1. NextFire(p, t) = sched[p].next[t]
          BY <4>2 DEF NextFire
        <5> QED BY <1>8, <3>1, <4>2, <5>1, Bounds DEF Unset
      <4> QED BY <4>1, <4>2
    <3> HIDE DEF D
    <3> QED BY <1>4, <1>8, <3>1, <3>2
  <2>2. \A t \in D : \/ t \in Once /\ TimeOf(t) = 1 /\ t \notin recurring
                     \/ t \in recurring /\ TimeOf(t) = clock[t] /\ t \notin Once
    BY <1>4 DEF TimeOf, Once
  <2> HIDE DEF D
  <2> QED BY <1>4, <1>8, <2>1, <2>2, Bounds
<1>16. /\ fired' \in [Tasks -> 0..MaxDue]
       /\ \A t \in D : fired'[t] = TimeOf(t)
       /\ \A t \in Tasks \ D : fired'[t] = fired[t]
  <2> HIDE DEF D
  <2> QED BY <1>2, <1>4, <1>8, <1>15
<1> HIDE DEF D, gone, kept
<1>17. TaskTypes'
  BY <1>2, <1>3, <1>4, <1>6, <1>12, <1>14, <1>16 DEF TaskTypes
<1>18. FlightTracked'
  <2>1. ASSUME NEW t \in sched'[p].inFlight
        PROVE  \E op \in ops'[p] : Fires(op) /\ t \in op.ids
    <3>1. CASE t \in D
      BY <1>11, <1>14, <3>1
    <3>2. CASE t \in sched[p].inFlight
      BY <1>3, <1>14, <3>2 DEF Bookkeeping, FlightTracked
    <3> QED BY <1>12, <2>1, <3>1, <3>2
  <2>2. ASSUME NEW q \in Processes \ {p}, NEW t \in sched'[q].inFlight
        PROVE  \E op \in ops'[q] : Fires(op) /\ t \in op.ids
    BY <1>3, <1>12, <1>14, <2>2 DEF Bookkeeping, FlightTracked
  <2> QED BY <2>1, <2>2 DEF FlightTracked, Fires
<1>19. OpsGood'
  <2>1. ASSUME NEW q \in Processes, NEW op \in ops[q] PROVE OpGood(q, op)'
    <3>1. OpGood(q, op) /\ sched[q].inFlight \subseteq sched'[q].inFlight
      BY <1>3, <1>12 DEF Bookkeeping, OpsGood
    <3> QED BY <1>2, <3>1 DEF OpGood, Retired
  <2>2. ASSUME NEW op \in new PROVE OpGood(p, op)'
    <3>1. op.ids \subseteq sched'[p].inFlight
      BY <1>10, <1>12
    <3>2. op.kind = "mark" =>
             op.ids \subseteq recurring' /\ \A t \in Tasks : op.at[t] >= 0
      BY <1>2, <1>6, <1>8, <1>10
    <3>3. op.kind \in {"remove", "discard"} => op.ids \subseteq settled'
      BY <1>2, <1>10
    <3> QED BY <1>10, <3>1, <3>2, <3>3 DEF OpGood
  <2> QED BY <1>14, <2>1, <2>2 DEF OpsGood
<1>20. \A op \in ops[p] : D # {} /\ Fires(op) => op.ids \cap D = {}
  <2>1. D # {} => ~Retired(p)
    BY <1>4 DEF IsOwner, Retired
  <2> QED BY <1>3, <1>4, <2>1 DEF Bookkeeping, OpsGood, OpGood
<1>21. Disjoint'
  <2>1. ASSUME NEW op \in new, NEW o \in new, op # o
        PROVE  op.ids \cap o.ids = {}
    <3>1. \A n \in new : \/ \E t \in gone : /\ n = NewOp("remove", {t}, Empty)
                                            /\ n.ids = {t}
                         \/ /\ n = NewOp("mark", kept, clock) /\ n.ids = kept
      BY <1>10 DEF NewOp
    <3> QED BY <1>6, <2>1, <3>1
  <2>2. ASSUME NEW op \in ops[p], NEW o \in new, Fires(op)
        PROVE  op.ids \cap o.ids = {}
    BY <1>10, <1>20, <2>2
  <2>3. ASSUME NEW op \in ops'[p], NEW o \in ops'[p], Fires(op), Fires(o),
               op # o
        PROVE  op.ids \cap o.ids = {}
    BY <1>3, <1>14, <2>1, <2>2, <2>3 DEF Bookkeeping, Disjoint
  <2>4. ASSUME NEW q \in Processes \ {p}, NEW op \in ops'[q], NEW o \in ops'[q],
               Fires(op), Fires(o), op # o
        PROVE  op.ids \cap o.ids = {}
    BY <1>3, <1>14, <2>4 DEF Bookkeeping, Disjoint
  <2> QED BY <2>3, <2>4 DEF Disjoint, Fires
<1>22. Coherent' /\ Truncated'
  BY <1>2, <1>3, <1>12 DEF Bookkeeping, Coherent, Truncated, Reading
<1>23. Fresh'
  <2>1. \A t \in Tasks : Nowhere(t) => Nowhere(t)'
    <3>1. \A t \in Tasks : Nowhere(t) => t \notin D
      BY <1>4 DEF Nowhere
    <3> QED BY <1>2, <1>12, <1>16, <3>1 DEF Nowhere
  <2>2. \A t \in Tasks : \A op \in new : OutOf(t, op) /\ op.kind # "add"
    BY <1>10 DEF OutOf
  <2>3. ASSUME NEW t \in Tasks, t \notin created'
        PROVE  Nowhere(t)' /\ \A q \in Processes : \A o \in ops'[q] : OutOf(t, o)
    <3>1. Nowhere(t) /\ \A q \in Processes : \A o \in ops[q] : OutOf(t, o)
      BY <1>2, <1>3, <2>3 DEF Bookkeeping, Fresh
    <3> QED BY <1>14, <2>1, <2>2, <3>1
  <2>4. ASSUME NEW t \in Tasks, NEW q \in Processes, NEW o \in ops'[q],
               o.kind = "add", t \in o.ids
        PROVE  /\ Nowhere(t)'
               /\ \A r \in Processes : \A n \in ops'[r] :
                     (r = q /\ n = o) \/ OutOf(t, n)
    <3>1. o \in ops[q]
      BY <1>14, <2>2, <2>4
    <3>2. /\ Nowhere(t)
          /\ \A r \in Processes : \A n \in ops[r] :
                (r = q /\ n = o) \/ OutOf(t, n)
      BY <1>3, <2>4, <3>1 DEF Bookkeeping, Fresh
    <3> QED BY <1>14, <2>1, <2>2, <3>2
  <2> QED BY <2>3, <2>4 DEF Fresh, OutOf, Nowhere
<1>24. FiredPast'
  <2>1. \A t \in Tasks : fired[t] <= clock[t]
    BY <1>3 DEF Bookkeeping, FiredPast
  <2> QED BY <1>2, <1>15, <1>16, <2>1 DEF FiredPast
<1>25. OneWriter'
  <2>1. OneWriter /\ disk' = disk /\ damaged' = damaged
    BY <1>2, <1>3 DEF TasksInv, Writing
  <2>2. \A q \in Processes : \A o \in ops'[q] : Begun(o) => o \in ops[q]
    BY <1>10, <1>14
  <2>3. \A q \in Processes : ops[q] \subseteq ops'[q]
    BY <1>14
  <2> QED BY <2>1, <2>2, <2>3 DEF OneWriter, Begun, Changed
<1>26. NoTaskLost'
  BY <1>2, <1>3, <1>14 DEF TasksInv, Writing, NoTaskLost
<1>27. NextAhead'
  <2> SUFFICES ASSUME ~stale', NEW q \in Processes, NEW t \in Tasks
               PROVE  \/ sched'[q].next[t] = Unset \/ sched'[q].next[t] = Never
                      \/ IsOwner(q) /\ sched'[q].next[t] > fired'[t]
    BY <1>2 DEF NextAhead, IsOwner
  <2>9. ~stale /\ (D # {} => ~Ahead(p))
    BY <1>2
  <2>1. \/ sched[q].next[t] = Unset \/ sched[q].next[t] = Never
        \/ IsOwner(q) /\ sched[q].next[t] > fired[t]
    BY <1>3, <2>9 DEF TasksInv, Firing, NextAhead
  <2>2. fired[t] <= clock[t]
    BY <1>3 DEF Bookkeeping, FiredPast
  <2>3. CASE q # p
    <3>1. IsOwner(q) => t \notin D
      BY <2>3, <2>9 DEF Ahead
    <3> QED BY <1>12, <1>16, <2>1, <2>3, <3>1
  <2>4. CASE q = p /\ t \in kept
    <3>1. fired'[t] = clock[t] /\ next[t] = clock[t] + 1
      BY <1>6, <1>13, <1>15, <1>16, <2>4
    <3>2. next[t] > fired'[t]
      BY <1>8, <3>1
    <3> QED BY <1>4, <1>6, <1>12, <2>4, <3>2
  <2>5. CASE q = p /\ t \notin kept /\ next[t] # Unset
    <3>1. t \in Seen(p) /\ next[t] = NextFire(p, t)
      BY <1>13, <2>5
    <3>2. CASE NextFire(p, t) = sched[p].next[t]
      <4>1. CASE t \notin D
        BY <1>5, <1>12, <1>16, <2>1, <2>5, <3>1, <3>2, <4>1
      <4>2. CASE t \in D
        <5>1. next[t] = Never \/ next[t] > fired[t]
          BY <2>1, <2>5, <3>1, <3>2
        <5>2. t \in gone
          BY <1>6, <2>5, <4>2
        <5>3. next[t] = Unset
          BY <2>5, <5>2 DEF next
        <5> QED BY <2>5, <5>3
      <4> QED BY <4>1, <4>2
    <3>3. CASE /\ NextFire(p, t) = sched[p].tasks[t] + 1
               /\ t \notin sched[p].inFlight
      <4>1. t \notin D
        <5>1. t \in D => t \in gone
          BY <1>6, <2>5
        <5>2. t \in gone => next[t] = Unset
          BY <2>5 DEF next
        <5> QED BY <2>5, <5>1, <5>2
      <4>2. ~(clock[t] >= NextFire(p, t))
        BY <3>1, <3>3, <4>1 DEF D, Due
      <4>3. next[t] > fired[t]
        BY <1>8, <2>2, <3>1, <3>3, <4>2
      <4> QED BY <1>5, <1>12, <1>16, <2>5, <3>1, <4>1, <4>3
    <3> QED BY <1>7, <3>1, <3>2, <3>3
  <2>6. CASE q = p /\ t \notin kept /\ next[t] = Unset
    BY <1>12, <2>6
  <2> QED BY <2>3, <2>4, <2>5, <2>6
<1>28. FiredStands'
  <2>1. Calm' => Calm
    BY <1>2 DEF Calm
  <2>2. ASSUME Calm, NEW t \in Tasks, fired'[t] > 0, ~Pending(t)'
        PROVE  /\ disk'.entries[t] # Absent =>
                     t \in recurring' /\ disk'.entries[t] >= fired'[t]
               /\ \A q \in Processes : \A o \in ops'[q] :
                     o.stage = "filling" /\ o.out[t] # Absent =>
                        t \in recurring' /\ o.out[t] >= fired'[t]
    <3>1. t \notin D
      BY <1>11, <1>14, <2>2 DEF Pending, Fires
    <3>2. fired'[t] = fired[t]
      BY <1>16, <3>1
    <3>3. ~Pending(t)
      BY <1>14, <2>2 DEF Pending, Fires
    <3>4. \A q \in Processes : \A o \in ops'[q] :
             o.stage = "filling" => o \in ops[q]
      BY <1>10, <1>14
    <3>5. /\ Stands(t, disk.entries[t])
          /\ \A q \in Processes : \A o \in ops[q] :
                o.stage = "filling" => Stands(t, o.out[t])
      BY <1>3, <2>2, <3>2, <3>3 DEF TasksInv, Firing, FiredStands
    <3> QED BY <1>2, <3>2, <3>4, <3>5 DEF Stands
  <2> QED BY <2>1, <2>2 DEF FiredStands, Stands
<1>29. Calm' /\ D # {} => /\ ~sched[p].dirty
                          /\ \A q \in Processes \ {p} : ops[q] = {}
  BY <1>2 DEF Calm, Ahead
<1>30. MarkFresh'
  <2> SUFFICES ASSUME Calm', NEW q \in Processes, NEW op \in ops'[q],
                      op.kind = "mark", NEW t \in op.ids
               PROVE  op.at[t] >= fired'[t]
    BY DEF MarkFresh
  <2>1. Calm
    BY <1>2 DEF Calm
  <2>2. CASE q = p /\ op \in new
    <3>1. t \in kept /\ op.at = clock
      BY <1>10, <2>2
    <3>2. fired'[t] = clock[t] /\ clock[t] \in Int
      BY <1>4, <1>6, <1>8, <1>15, <1>16, <3>1
    <3> QED BY <3>1, <3>2
  <2>3. CASE op \in ops[q]
    <3>1. op.at[t] >= fired[t]
      BY <1>3, <2>1, <2>3 DEF TasksInv, Firing, MarkFresh
    <3>2. t \notin D
      BY <1>20, <1>29, <2>3 DEF Fires
    <3>3. t \in Tasks
      BY <1>3, <2>3 DEF Op
    <3> QED BY <1>16, <3>1, <3>2, <3>3
  <2> QED BY <1>14, <2>2, <2>3
<1>31. OnceUnlessRaced'
  <2> SUFFICES ASSUME Calm', NEW t \in D, fired[t] = TimeOf(t)
               PROVE  FALSE
    <3>1. Calm' => again = {}
      BY <1>2, <1>3 DEF Calm, TasksInv, Firing, OnceUnlessRaced
    <3> QED BY <1>2, <3>1 DEF OnceUnlessRaced, Calm
  <2>1. Calm /\ t \in Tasks /\ t \in Seen(p) /\ t \notin sched[p].inFlight
    BY <1>2, <1>4 DEF Calm, D, Due
  <2>2. fired[t] > 0
    <3>1. TimeOf(t) = 1 \/ TimeOf(t) = clock[t]
      BY <1>15, <2>1 DEF Once
    <3> QED BY <1>8, <1>15, <2>1, <3>1
  <2>3. ~Pending(t)
    BY <1>20, <1>29 DEF Pending
  <2>4. Stands(t, disk.entries[t])
    BY <1>3, <2>1, <2>2, <2>3 DEF TasksInv, Firing, FiredStands
  <2>5. sched[p].tasks[t] = disk.entries[t] /\ disk.entries[t] # Absent
    <3>1. sched[p].tasks = Reading \/ sched[p].tasks = Empty
      BY <1>3, <1>29 DEF Bookkeeping, Coherent
    <3> QED BY <1>4, <2>1, <3>1, EmptyType DEF Reading
  <2>6. t \in recurring /\ sched[p].tasks[t] >= fired[t] /\ fired[t] = clock[t]
    BY <1>15, <2>4, <2>5 DEF Stands
  <2>7. CASE sched[p].next[t] = Unset
    <3>1. NextFire(p, t) = sched[p].tasks[t] + 1
      BY <2>1, <2>7 DEF NextFire
    <3> QED BY <1>4, <1>8, <2>1, <2>6, <3>1
  <2>8. CASE sched[p].next[t] # Unset
    <3>1. NextFire(p, t) = sched[p].next[t]
      BY <2>8 DEF NextFire
    <3>2. sched[p].next[t] = Never \/ sched[p].next[t] > fired[t]
      BY <1>3, <2>1, <2>8 DEF TasksInv, Firing, NextAhead, Calm
    <3>3. sched[p].next[t] > clock[t]
      BY <1>8, <2>1, <2>6, <3>2, Bounds DEF Never
    <3> QED BY <1>4, <1>8, <2>1, <3>1, <3>3
  <2> QED BY <2>7, <2>8
<1> QED BY <1>17, <1>18, <1>19, <1>21, <1>22, <1>23, <1>24, <1>25, <1>26,
           <1>27, <1>28, <1>30, <1>31
        DEF TasksInv, Bookkeeping, Writing, Firing

-----------------------------------------------------------------------------
LEMMA InitInv == ASSUME Init PROVE IInv
<1>1. LockInv
  BY LockInitial DEF Init, FirstState, NoHistory
<1>2. TaskTypes
  <2>1. disk \in Disk
    BY Bounds DEF Init, FirstState, Disk, Entries
  <2>2. 0 \in 0..MaxDue
    BY Bounds
  <2> QED BY <2>1, <2>2, NewSchedType DEF Init, FirstState, NoHistory, TaskTypes
<1>3. /\ \A p \in Processes : sched[p] = NewSched /\ ops[p] = {}
      /\ \A t \in Tasks : clock[t] = 0 /\ fired[t] = 0
      /\ disk.whole /\ again = {}
      /\ \A t \in Tasks : disk.entries[t] = IF t \in created THEN 0 ELSE Absent
  BY DEF Init, FirstState, NoHistory
<1>4. Bookkeeping
  <2>1. FlightTracked /\ OpsGood /\ Disjoint /\ Truncated /\ Coherent
    BY <1>3, NewSchedType
    DEF FlightTracked, OpsGood, Disjoint, Truncated, Coherent
  <2>2. Fresh
    BY <1>3, NewSchedType, EmptyType DEF Fresh, Nowhere
  <2>3. FiredPast
    BY <1>3 DEF FiredPast
  <2> QED BY <2>1, <2>2, <2>3 DEF Bookkeeping
<1>5. Writing
  <2>1. \A t \in created : t \in Tasks /\ disk.entries[t] # Absent
    BY <1>2, <1>3, Bounds DEF TaskTypes
  <2> QED BY <1>3, <2>1 DEF Writing, OneWriter, NoTaskLost
<1>6. Firing
  BY <1>3, NewSchedType
  DEF Firing, NextAhead, FiredStands, MarkFresh, OnceUnlessRaced, Stands
<1>7. HeldOK
  BY DEF Init, FirstState, HeldOK
<1> QED BY <1>1, <1>2, <1>4, <1>5, <1>6, <1>7 DEF IInv, TasksInv

\* Only processes that run are held up.
LEMMA HeldKept ==
    ASSUME HeldOK, [Next]_vars PROVE HeldOK'
<1> USE DEF HeldOK
<1>1. ASSUME NEW p \in Processes,
             LockStep(p) \/ Halt(p) \/ Begin(p) \/ Die(p) \/ Progress(p)
             \/ Check(p) \/ HoldUp(p) \/ TurnEnds(p)
      PROVE  HeldOK'
  BY <1>1 DEF LockStep, Halt, Begin, Die, Progress, Enable, LoadInitial,
              Reload, FileOp, Check, HoldUp, TurnEnds, tasksVars
<1>2. ASSUME NEW p \in Processes, NEW t \in Tasks, Create(p, t) PROVE HeldOK'
  BY <1>2 DEF Create
<1>3. ASSUME NEW t \in Tasks, Time(t) PROVE HeldOK'
  BY <1>3 DEF Time
<1>4. CASE UNCHANGED vars
  BY <1>4 DEF vars, tasksVars
<1> QED BY <1>1, <1>2, <1>3, <1>4 DEF Next

LEMMA NextInv == ASSUME IInv, [Next]_vars PROVE IInv'
<1> DEFINE Rest == LockInv /\ TasksInv
<1> USE DEF IInv
<1>1. ASSUME NEW p \in Processes, LockStep(p) PROVE Rest'
  BY <1>1, AcquireInv, ReleaseInv, LockTasks DEF LockStep
<1>2. ASSUME NEW p \in Processes, Halt(p) PROVE Rest'
  BY <1>2, ReleaseInv, HaltTasks DEF Halt
<1>3. ASSUME NEW p \in Processes, Begin(p) PROVE Rest'
  BY <1>3, ProcessInv, ReleaseInv, LockTasks DEF Begin
<1>4. ASSUME NEW p \in Processes, Die(p) PROVE Rest'
  BY <1>4, ProcessInv, DieTasks DEF Die
<1>5. ASSUME NEW p \in Processes, Enable(p) PROVE Rest'
  BY <1>5, LockKept, EnableTasks DEF Enable
<1>6. ASSUME NEW p \in Processes, LoadInitial(p) PROVE Rest'
  BY <1>6, LockKept, LoadInitialTasks DEF LoadInitial
<1>7. ASSUME NEW p \in Processes, Reload(p) PROVE Rest'
  BY <1>7, LockKept, ReloadTasks DEF Reload
<1>8. ASSUME NEW p \in Processes, Check(p) PROVE Rest'
  BY <1>8, LockKept, CheckTasks DEF Check
<1>9. ASSUME NEW p \in Processes, FileOp(p) PROVE Rest'
  BY <1>9, LockKept, FileTasks DEF FileOp
<1>10. ASSUME NEW p \in Processes, NEW t \in Tasks, Create(p, t) PROVE Rest'
  BY <1>10, LockKept, CreateTasks DEF Create
<1>11. ASSUME NEW t \in Tasks, Time(t) PROVE Rest'
  BY <1>11, LockKept, TimeTasks DEF Time
<1>12. ASSUME NEW p \in Processes, HoldUp(p) \/ TurnEnds(p) PROVE Rest'
  BY <1>12, LockKept, HeldTasks DEF HoldUp, TurnEnds
<1>13. ASSUME UNCHANGED vars PROVE Rest'
  BY <1>13, LockKept, StutterInv DEF vars
<1>14. HeldOK'
  BY HeldKept
<1>15. Rest'
  <2> HIDE DEF Rest, IInv
  <2> QED BY <1>1, <1>2, <1>3, <1>4, <1>5, <1>6, <1>7, <1>8, <1>9, <1>10,
             <1>11, <1>12, <1>13 DEF Next, Progress
<1> QED BY <1>14, <1>15

\* The processes, their schedulers and the task file are always in the
\* relation that IInv states, whatever the interleaving.
THEOREM Invariance == Spec => []IInv
<1>1. Init => IInv
  BY InitInv
<1>2. IInv /\ [Next]_vars => IInv'
  BY NextInv
<1> QED BY <1>1, <1>2, PTL DEF Spec

\* The types of the lock and of the scheduler (cronTasksLock.ts,
\* cronScheduler.ts); a task is in flight only while its operation runs.
THEOREM TypeCorrect == Spec => []TypeOK
<1>1. IInv => TypeOK
  <2> SUFFICES ASSUME IInv PROVE TypeOK
    OBVIOUS
  <2>1. \A p \in Processes :
           sched[p].inFlight \subseteq UNION {op.ids : op \in ops[p]}
    BY DEF IInv, TasksInv, Bookkeeping, FlightTracked
  <2> QED BY <2>1 DEF IInv, LockInv, TasksInv, TaskTypes, HeldOK, TypeOK
<1> QED BY <1>1, Invariance, PTL

\* Among the processes that have not lost the lock, to a recovery
\* (cronTasksLock.ts:165), to another process of their session (139-144), to
\* their own shutdown (93-98) or to one that goes on after it had lost it, at
\* most one session drives the scheduler, for any number of both.
THEOREM OneOwnerCorrect == Spec => []OneOwner
<1>1. IInv => OneOwner
  BY OneOwnerHolds DEF IInv
<1> QED BY <1>1, Invariance, PTL

\* No task is fired twice for one time (cronScheduler.ts, check and process)
\* unless file operations overlap, or one fires ahead of the file or beside
\* another owner, for any number of processes, tasks and operations under
\* way, and however the lock changes hands.
THEOREM OnceUnlessRacedCorrect == Spec => []OnceUnlessRaced
<1>1. IInv => OnceUnlessRaced
  BY DEF IInv, TasksInv, Firing
<1> QED BY <1>1, Invariance, PTL

\* No task is lost from the file before its time as long as the
\* read-modify-writes of cronTasks.ts do not overlap and none is cut short.
THEOREM NoTaskLostCorrect == Spec => []NoTaskLost
<1>1. IInv => NoTaskLost
  BY DEF IInv, TasksInv, Writing
<1> QED BY <1>1, Invariance, PTL
=============================================================================
