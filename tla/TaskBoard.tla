----------------------------- MODULE TaskBoard -----------------------------
(***************************************************************************)
(* The task list that the agents of a team share through files             *)
(* (utils/tasks.ts): one file per task, a high-water mark for identifiers, *)
(* a lock for the list and a lock per task (proper-lockfile).  Creating    *)
(* and clearing take the lock of the list, updating and claiming that of   *)
(* the task, deleting and reading take none.                               *)
(*                                                                         *)
(* An agent, a process or a teammate inside one, runs one operation at a   *)
(* time; a step is one file operation.  A file is written by truncating    *)
(* it and then filling it, so a reader may find it empty.  An agent can    *)
(* crash at any step; its locks go stale and are taken over.               *)
(***************************************************************************)
EXTENDS Integers, Sequences, FiniteSetsExt, SequencesExt

CONSTANTS
    Agent,      \* the agents
    None,       \* no owner, no file
    Empty,      \* a file that was truncated and not filled yet
    MaxId,      \* bound on the identifiers of tasks
    MaxOps,     \* bound on the operations begun
    MaxCrashes  \* bound on the crashes

ASSUME BoundsAssumption == MaxId \in Nat /\ MaxOps \in Nat /\ MaxCrashes \in Nat

VARIABLES
    file,       \* the file of each task
    mark,       \* the high-water mark, or Empty
    taskLock,   \* holder of the lock of each task, or None
    listLock,   \* holder of the lock of the list, or None
    op,         \* the operation of each agent
    ops, crashes,
    used,       \* history: identifiers that have been given to a task
    reused,     \* history: one of them was given again
    edges,      \* history: the pairs for which blockTask has succeeded,
                \* and which no delete or reset has dissolved
    blurred,    \* history: a torn file has been passed over, a completed
                \* task reopened, or a deleted one written again
    raced,      \* history: a delete has overlapped a create, a reset or
                \* another delete
    crossed     \* history: two agents were writing arrays at once

vars == <<file, mark, taskLock, listLock, op, ops, crashes, used, reused,
          edges, blurred, raced, crossed>>

-----------------------------------------------------------------------------
Id == 1..MaxId
Status == {"pending", "in_progress", "completed"}
Task == [owner : Agent \cup {None}, status : Status,
         blocks : SUBSET Id, blockedBy : SUBSET Id]

\* None and Empty are no tasks, no agents and no numbers.
ASSUME NamesAssumption ==
    /\ None # Empty /\ None \notin Agent
    /\ {None, Empty} \cap Task = {} /\ Empty \notin Nat

NewTask == [owner |-> None, status |-> "pending",
            blocks |-> {}, blockedBy |-> {}]

(***************************************************************************)
(* The operation of an agent: its kind and where it stands; the task it is *)
(* at; what it last read of that task; the updates it has still to make    *)
(* (identifier and changed fields); a number read from file names or the   *)
(* mark; the files it has still to unlink.                                 *)
(***************************************************************************)
Idle == [kind |-> "idle", pc |-> "idle", id |-> 0, seen |-> None,
         todo |-> <<>>, high |-> 0, rest |-> {}]

Kinds == {"idle", "create", "delete", "claim", "update", "reset"}

Places == {"idle", "list_lock", "scan", "read_names", "read_mark",
           "write_mark", "fill_mark", "create", "fill_new", "unlink",
           "sweep", "cascade", "precheck", "lock", "claim_read",
           "claim_list", "read", "truncate", "fill"}

Readable(i) == file[i] \notin {None, Empty}

\* listTasks: the tasks whose files can be parsed at this moment.
Listed == {i \in Id : Readable(i)}

Unresolved(i) == Readable(i) /\ file[i].status # "completed"

\* readHighWaterMark: an empty file counts as 0.
MarkRead == IF mark = Empty THEN 0 ELSE mark

\* findHighestTaskIdFromFiles looks at names, so empty files count.
HighestFile == Max({0} \cup {i \in Id : file[i] # None})

\* The fields of a task after an update.
Patched(task, changes) ==
    [field \in DOMAIN task |->
        IF field \in DOMAIN changes THEN changes[field] ELSE task[field]]

Init ==
    /\ \E n \in 0..2 :
          /\ used = 1..n \cap Id
          /\ file = [i \in Id |-> IF i \in used THEN NewTask ELSE None]
    /\ mark = 0
    /\ taskLock = [i \in Id |-> None]
    /\ listLock = None
    /\ op = [a \in Agent |-> Idle]
    /\ ops = 0 /\ crashes = 0
    /\ edges = {}
    /\ reused = FALSE /\ blurred = FALSE /\ raced = FALSE /\ crossed = FALSE

-----------------------------------------------------------------------------
(* Beginning an operation, up to its first wait. *)

Start(a, o) ==
    /\ op[a] = Idle
    /\ ops < MaxOps
    /\ ops' = ops + 1
    /\ op' = [op EXCEPT ![a] = o]
    /\ UNCHANGED <<file, mark, taskLock, listLock, crashes, used, reused,
                   edges, blurred>>

Updates(todo) == [Idle EXCEPT !.kind = "update", !.pc = "precheck",
                              !.todo = todo]

BeginCreate(a) ==
    /\ Start(a, [Idle EXCEPT !.kind = "create", !.pc = "list_lock"])

\* TaskUpdate with status deleted looks at the task first.
BeginDelete(a, i) ==
    /\ Readable(i)
    /\ Start(a, [Idle EXCEPT !.kind = "delete", !.pc = "read_mark", !.id = i])

\* tryClaimNextTask picks a task that is free at this moment.
BeginClaim(a, i) ==
    /\ Readable(i) /\ file[i].status = "pending" /\ file[i].owner = None
    /\ \A b \in file[i].blockedBy : ~Unresolved(b)
    /\ Start(a, [Idle EXCEPT !.kind = "claim", !.pc = "lock", !.id = i])

\* TaskUpdate to in_progress: an agent that finds no owner adds itself.
BeginWork(a, i) ==
    /\ Readable(i) /\ file[i].status = "pending"
    /\ LET changes == IF file[i].owner = None
                      THEN [status |-> "in_progress", owner |-> a]
                      ELSE [status |-> "in_progress"]
       IN Start(a, Updates(<< <<i, changes>> >>))

BeginComplete(a, i) ==
    /\ Readable(i) /\ file[i].status # "completed"
    /\ Start(a, Updates(<< <<i, [status |-> "completed"]>> >>))

\* Mutant: the array is written anew.
OnlyBlocker(task, i) == {i}

AddBlocker(task, i) == task.blockedBy \cup {i}

\* blockTask: both tasks are read now, and their arrays written later.
BeginBlock(a, i, j) ==
    /\ Readable(i) /\ Readable(j)
    /\ LET source == IF j \in file[i].blocks THEN <<>>
                     ELSE << <<i, [blocks |-> file[i].blocks \cup {j}]>> >>
           target == IF i \in file[j].blockedBy THEN <<>>
                     ELSE << <<j, [blockedBy |-> AddBlocker(file[j], i)]>> >>
       IN /\ source \o target # <<>>
          /\ Start(a, Updates(source \o target))

Released == [owner |-> None, status |-> "pending"]

\* unassignTeammateTasks: the open tasks of a teammate are read now, in the
\* order of the directory.
BeginUnassign(a, mate) ==
    LET theirs == {i \in Listed : Unresolved(i) /\ file[i].owner = mate}
    IN /\ theirs # {}
       /\ \E order \in SetToSeqs(theirs) :
             Start(a, Updates([k \in DOMAIN order |->
                                  <<order[k], Released>>]))

\* The hide timer of useTasksV2: the list is reset when every task of it was
\* completed at this moment.
BeginReset(a) ==
    /\ Listed # {} /\ \A i \in Listed : file[i].status = "completed"
    /\ Start(a, [Idle EXCEPT !.kind = "reset", !.pc = "list_lock"])

Begin(a) ==
    \/ BeginCreate(a)
    \/ BeginReset(a)
    \/ \E i \in Id : \/ BeginDelete(a, i) \/ BeginClaim(a, i)
                     \/ BeginWork(a, i) \/ BeginComplete(a, i)
    \/ \E i, j \in Id : i # j /\ BeginBlock(a, i, j)
    \/ \E mate \in Agent : BeginUnassign(a, mate)

-----------------------------------------------------------------------------
(* Under the lock of the list: createTask and resetTaskList. *)

At(a, kind, pc) == op[a].kind = kind /\ op[a].pc = pc
Goto(a, pc) == op' = [op EXCEPT ![a].pc = pc]
files == <<file, mark>>
locks == <<taskLock, listLock>>
counters == <<ops, crashes>>
history == <<used, reused, edges, blurred>>

TakeListLock(a) ==
    /\ op[a].pc = "list_lock"
    /\ listLock = None
    /\ listLock' = a
    /\ Goto(a, "scan")
    /\ UNCHANGED <<files, taskLock, counters, history>>

EndUnderListLock(a) ==
    /\ op' = [op EXCEPT ![a] = Idle]
    /\ listLock' = None

\* createTask reads the names of the files and the mark in parallel, in
\* either order.
CreateScan(a) ==
    /\ At(a, "create", "scan")
    /\ \/ op' = [op EXCEPT ![a].high = HighestFile, ![a].pc = "read_mark"]
       \/ op' = [op EXCEPT ![a].high = MarkRead, ![a].pc = "read_names"]
    /\ UNCHANGED <<files, locks, counters, history>>

\* Mutant: the identifiers of deleted tasks are not remembered.
NextIdFromNames(a) == HighestFile + 1

\* One more than the highest of the names and the mark.
NextId(a) ==
    Max({op[a].high, IF op[a].pc = "read_mark" THEN MarkRead ELSE HighestFile})
        + 1

CreateChoose(a) ==
    /\ op[a].kind = "create" /\ op[a].pc \in {"read_mark", "read_names"}
    /\ NextId(a) \in Id
    /\ op' = [op EXCEPT ![a].id = NextId(a), ![a].pc = "create"]
    /\ UNCHANGED <<files, locks, counters, history>>

CreateFile(a) ==
    /\ At(a, "create", "create")
    /\ file' = [file EXCEPT ![op[a].id] = Empty]
    /\ used' = used \cup {op[a].id}
    /\ reused' = (reused \/ op[a].id \in used)
    /\ Goto(a, "fill_new")
    /\ UNCHANGED <<mark, locks, counters, edges, blurred>>

CreateFill(a) ==
    /\ At(a, "create", "fill_new")
    /\ file' = [file EXCEPT ![op[a].id] = IF @ = Empty THEN NewTask ELSE @]
    /\ EndUnderListLock(a)
    /\ UNCHANGED <<mark, taskLock, counters, history>>

Create(a) ==
    CreateScan(a) \/ CreateChoose(a) \/ CreateFile(a) \/ CreateFill(a)

\* resetTaskList: without files there is no mark to write.
ResetScan(a) ==
    /\ At(a, "reset", "scan")
    /\ op' = [op EXCEPT ![a].id = HighestFile,
                        ![a].pc = IF HighestFile > 0 THEN "read_mark"
                                                     ELSE "sweep"]
    /\ UNCHANGED <<files, locks, counters, history>>

Dissolved(i) == {e \in edges : i \notin {e[1], e[2]}}

\* The files there are by now are unlinked, one after the other.
ResetSweep(a) ==
    /\ At(a, "reset", "sweep")
    /\ op' = [op EXCEPT ![a].rest = {i \in Id : file[i] # None},
                        ![a].pc = "unlink"]
    /\ UNCHANGED <<files, locks, counters, history>>

ResetUnlink(a) ==
    /\ At(a, "reset", "unlink")
    /\ \E i \in op[a].rest :
          /\ file' = [file EXCEPT ![i] = None]
          /\ edges' = Dissolved(i)
          /\ op' = [op EXCEPT ![a].rest = @ \ {i}]
    /\ UNCHANGED <<mark, locks, counters, used, reused, blurred>>

ResetEnd(a) ==
    /\ At(a, "reset", "unlink")
    /\ op[a].rest = {}
    /\ EndUnderListLock(a)
    /\ UNCHANGED <<files, taskLock, counters, history>>

Reset(a) == ResetScan(a) \/ ResetSweep(a) \/ ResetUnlink(a) \/ ResetEnd(a)

-----------------------------------------------------------------------------
(* The mark, raised by a reset and, without any lock, by a delete. *)

AfterMark(a) == IF op[a].kind = "delete" THEN "unlink" ELSE "sweep"

ReadMark(a) ==
    /\ op[a].kind \in {"delete", "reset"} /\ op[a].pc = "read_mark"
    /\ Goto(a, IF op[a].id > MarkRead THEN "write_mark" ELSE AfterMark(a))
    /\ UNCHANGED <<files, locks, counters, history>>

WriteMark(a) ==
    /\ op[a].pc = "write_mark"
    /\ mark' = Empty
    /\ Goto(a, "fill_mark")
    /\ UNCHANGED <<file, locks, counters, history>>

FillMark(a) ==
    /\ op[a].pc = "fill_mark"
    /\ mark' = op[a].id
    /\ Goto(a, AfterMark(a))
    /\ UNCHANGED <<file, locks, counters, history>>

\* deleteTask: unlink, then list the tasks that refer to the deleted one.
DeleteUnlink(a) ==
    /\ At(a, "delete", "unlink")
    /\ IF file[op[a].id] = None
       THEN op' = [op EXCEPT ![a] = Idle] /\ UNCHANGED file
       ELSE Goto(a, "cascade") /\ file' = [file EXCEPT ![op[a].id] = None]
    /\ edges' = Dissolved(op[a].id)
    /\ UNCHANGED <<mark, locks, counters, used, reused, blurred>>

DeleteCascade(a) ==
    /\ At(a, "delete", "cascade")
    /\ LET gone == op[a].id
           related == {i \in Listed : gone \in file[i].blocks
                                      \/ gone \in file[i].blockedBy}
       IN \E order \in SetToSeqs(related) :
             op' = [op EXCEPT ![a] =
                IF related = {} THEN Idle
                ELSE Updates([k \in DOMAIN order |->
                        <<order[k],
                          [blocks |-> file[order[k]].blocks \ {gone},
                           blockedBy |-> file[order[k]].blockedBy
                                            \ {gone}]>>])]
    /\ UNCHANGED <<files, locks, counters, history>>

RaiseMark(a) == ReadMark(a) \/ WriteMark(a) \/ FillMark(a)
Delete(a) == DeleteUnlink(a) \/ DeleteCascade(a)
-----------------------------------------------------------------------------
(* Under the lock of a task: claimTask and updateTask. *)

Target(a) == IF op[a].kind = "claim" THEN op[a].id ELSE Head(op[a].todo)[1]

\* The updates that are left when the first one is over.
Rest(a) == Tail(op[a].todo)

\* updateTask looks whether the task is there, and passes it over if not.
Precheck(a) ==
    /\ op[a].pc = "precheck"
    /\ op' = [op EXCEPT ![a] =
          IF Readable(Target(a)) THEN [@ EXCEPT !.pc = "lock"]
          ELSE IF Len(@.todo) = 1 THEN Idle
          ELSE [@ EXCEPT !.todo = Rest(a)]]
    /\ blurred' = (blurred \/ file[Target(a)] = Empty)
    /\ UNCHANGED <<files, locks, counters, used, reused, edges>>

Free(i) == taskLock[i] = None

LockTask(a) ==
    /\ op[a].pc = "lock"
    /\ file[Target(a)] # None
    /\ Free(Target(a))
    /\ taskLock' = [taskLock EXCEPT ![Target(a)] = a]
    /\ Goto(a, IF op[a].kind = "claim" THEN "claim_read" ELSE "read")
    /\ UNCHANGED <<files, listLock, counters, history>>

\* lock throws when the file is gone, or after its retries: the operation
\* fails as a whole.
LockFails(a) ==
    /\ op[a].pc \in {"lock", "list_lock"}
    /\ \/ op[a].pc = "list_lock" /\ listLock # None
       \/ op[a].pc = "lock" /\ (file[Target(a)] = None \/ ~Free(Target(a)))
    /\ op' = [op EXCEPT ![a] = Idle]
    /\ UNCHANGED <<files, locks, counters, history>>

\* Mutant: the owner is looked at only when the task is picked.
ClaimableByAll(task, a) == task.status # "completed"

Claimable(task, a) ==
    task.owner \in {None, a} /\ task.status # "completed"

Abandon(a) ==
    /\ op' = [op EXCEPT ![a] = Idle]
    /\ taskLock' = [taskLock EXCEPT ![Target(a)] = None]

ClaimRead(a) ==
    /\ op[a].pc = "claim_read"
    /\ IF Readable(op[a].id) /\ Claimable(file[op[a].id], a)
       THEN /\ op' = [op EXCEPT ![a].pc = "claim_list",
                                ![a].seen = file[op[a].id]]
            /\ UNCHANGED taskLock
       ELSE Abandon(a)
    /\ UNCHANGED <<files, listLock, counters, history>>

\* Mutant: only what is being worked on blocks.
BlockersAtWork(task) ==
    {b \in task.blockedBy : Unresolved(b) /\ file[b].status = "in_progress"}

Blockers(task) == {b \in task.blockedBy : Unresolved(b)}

\* The blockers are listed; the write follows, under the same lock.
ClaimList(a) ==
    /\ op[a].pc = "claim_list"
    /\ IF Blockers(op[a].seen) = {}
       THEN /\ op' = [op EXCEPT ![a].pc = "read",
                                ![a].todo = << <<op[a].id, [owner |-> a]>> >>]
            /\ UNCHANGED taskLock
       ELSE Abandon(a)
    /\ blurred' = (blurred \/ \E b \in op[a].seen.blockedBy : file[b] = Empty)
    /\ UNCHANGED <<files, listLock, counters, used, reused, edges>>

\* The update is over: the lock is released, and the next update begun.  A
\* claim is followed by an update to in_progress.
Done(a) ==
    /\ taskLock' = [taskLock EXCEPT ![Target(a)] = None]
    /\ op' = [op EXCEPT ![a] =
          IF @.kind = "claim"
          THEN Updates(<< <<@.id, [status |-> "in_progress"]>> >>)
          ELSE IF Len(@.todo) = 1 THEN Idle
          ELSE [@ EXCEPT !.todo = Rest(a), !.pc = "precheck", !.seen = None]]

\* updateTaskUnsafe: read, then write what was read with the changes.
Read(a) ==
    /\ op[a].pc = "read"
    /\ IF Readable(Target(a))
       THEN /\ op' = [op EXCEPT ![a].pc = "truncate",
                                ![a].seen = file[Target(a)]]
            /\ UNCHANGED taskLock
       ELSE Done(a)
    /\ blurred' = (blurred \/ file[Target(a)] = Empty)
    /\ UNCHANGED <<files, listLock, counters, used, reused, edges>>

\* Opening for writing creates the file when it was deleted meanwhile.
Truncate(a) ==
    /\ op[a].pc = "truncate"
    /\ file' = [file EXCEPT ![Target(a)] = Empty]
    /\ Goto(a, "fill")
    /\ blurred' = (blurred \/ file[Target(a)] = None)
    /\ UNCHANGED <<mark, locks, counters, used, reused, edges>>

Written(a) == Patched(op[a].seen, Head(op[a].todo)[2])

\* What is written to a file unlinked since it was opened is lost.
Fill(a) ==
    /\ op[a].pc = "fill"
    /\ file' = [file EXCEPT ![Target(a)] = IF @ = Empty THEN Written(a) ELSE @]
    /\ Done(a)
    /\ edges' = edges \cup
          {<<i, Target(a)>> : i \in Written(a).blockedBy
                                     \ op[a].seen.blockedBy}
    /\ blurred' = (blurred \/ (/\ op[a].seen.status = "completed"
                               /\ Written(a).status # "completed"))
    /\ UNCHANGED <<mark, listLock, counters, used, reused>>

Update(a) == \/ Precheck(a) \/ LockTask(a) \/ LockFails(a) \/ ClaimRead(a)
             \/ ClaimList(a) \/ Read(a) \/ Truncate(a) \/ Fill(a)

-----------------------------------------------------------------------------
\* The agent dies; its locks go stale and count as free.
Crash(a) ==
    /\ op[a] # Idle
    /\ crashes < MaxCrashes
    /\ crashes' = crashes + 1
    /\ op' = [op EXCEPT ![a] = Idle]
    /\ taskLock' = [i \in Id |-> IF taskLock[i] = a THEN None ELSE taskLock[i]]
    /\ listLock' = IF listLock = a THEN None ELSE listLock
    /\ UNCHANGED <<files, ops, history>>

Step(a) == \/ Begin(a) \/ TakeListLock(a) \/ Create(a) \/ Reset(a)
           \/ RaiseMark(a) \/ Delete(a) \/ Update(a) \/ Crash(a)

\* Where an operation depends on what identifiers are taken.
Numbering(a) ==
    \/ op[a].kind \in {"create", "reset"} /\ op[a].pc # "list_lock"
    \/ op[a].kind = "delete" /\ op[a].pc # "cascade"

Overlap ==
    \E a, b \in Agent : /\ a # b /\ Numbering(a) /\ Numbering(b)
                        /\ op[a].kind = "delete"

\* Where an operation writes arrays computed from an earlier read.
WritesArrays(a) ==
    \E k \in DOMAIN op[a].todo :
        DOMAIN op[a].todo[k][2] \cap {"blocks", "blockedBy"} # {}

Crossing == \E a, b \in Agent : a # b /\ WritesArrays(a) /\ WritesArrays(b)

Next ==
    /\ \E a \in Agent : Step(a)
    /\ raced' = (raced \/ Overlap')
    /\ crossed' = (crossed \/ Crossing')

Spec == Init /\ [][Next]_vars

-----------------------------------------------------------------------------
(* Properties. *)

TypeOK ==
    /\ file \in [Id -> Task \cup {None, Empty}]
    /\ mark \in 0..MaxId \cup {Empty}
    /\ taskLock \in [Id -> Agent \cup {None}]
    /\ listLock \in Agent \cup {None}
    /\ \A a \in Agent :
          /\ op[a].kind \in Kinds /\ op[a].pc \in Places
          /\ op[a].id \in 0..MaxId /\ op[a].high \in 0..MaxId
          /\ op[a].seen \in Task \cup {None}
          /\ op[a].rest \subseteq Id
    /\ used \subseteq Id

\* As long as no delete has overlapped a create, a reset or another delete,
\* no identifier is ever given to a second task, whatever crashes: the mark
\* is raised before a file goes, and a torn mark is covered by the file that
\* was to go.  deleteTask takes no lock, which is why the condition is there.
IdsNeverReused == ~raced => ~reused

\* An update or claim applies to the task it has read: between the read and
\* the write of one holder of the lock nobody else writes the task, though
\* it can be unlinked.
UpdateAtomic ==
    ~reused => \A a \in Agent :
        /\ op[a].pc = "truncate" => file[Target(a)] \in {op[a].seen, None}
        /\ op[a].pc = "fill" => file[Target(a)] \in {Empty, None}

\* A claim that is about to be written rests on resolved blockers: nobody
\* adds a blocker or changes one meanwhile, except by reopening a completed
\* task on a stale reading, and none was passed over for being torn.
BlockersHonoured ==
    ~blurred /\ ~reused => \A a \in Agent :
        op[a].kind = "claim" /\ op[a].pc \in {"read", "truncate", "fill"} =>
            \A b \in op[a].seen.blockedBy : ~Unresolved(b)

\* A dependency that blockTask has recorded keeps its task blocked: no other
\* operation drops it, unless two agents were writing arrays at once (which
\* they compute before they take the lock), a torn file was passed over, or
\* an update has brought a deleted task back.
EdgeKept ==
    ~crossed /\ ~blurred /\ ~reused =>
        \A e \in edges : file[e[1]] # None /\ Readable(e[2]) =>
                            e[1] \in file[e[2]].blockedBy

\* A claim never takes a task from another agent: what it overwrites, under
\* the lock of the task, had no owner or belonged to itself.
NoTheft ==
    [][\A a \in Agent :
          op[a].kind = "claim" /\ Truncate(a) /\ ~reused =>
              \/ file[op[a].id] = None
              \/ file[op[a].id].owner \in {None, a}]_vars
=============================================================================
