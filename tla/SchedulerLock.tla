--------------------------- MODULE SchedulerLock ---------------------------
(***************************************************************************)
(* The lease lock of the scheduler (utils/cronTasksLock.ts): the processes *)
(* of one project directory agree on the one that fires the scheduled      *)
(* tasks through a lock file with the session and the process of its       *)
(* owner.  Every await is a step of its own: the file is created           *)
(* exclusively, but filled, read and removed in separate calls, and        *)
(* processes may stop, shut down and die anywhere.  A session that is      *)
(* resumed has a second process, while the first lives or after it: only   *)
(* the session is compared when a lock is taken for one's own.             *)
(***************************************************************************)
EXTENDS Integers

CONSTANTS
    Processes,      \* each runs one scheduler in its life
    Sessions

VARIABLES
    session,    \* the session of each process
    lockFile,   \* the lock file, or NoFile
    lock,       \* where each process is in acquiring or releasing
    opened,     \* the file that a process is about to fill
    halted,     \* the processes whose scheduler has been stopped
    lost        \* history: processes whose lock file was removed or written
                \* over under them, or released by themselves

lockVars == <<session, lockFile, lock, opened, halted, lost>>

-----------------------------------------------------------------------------
(***************************************************************************)
(* A lock file: which file it is (named after the process that created it, *)
(* each creates at most one) and what it says, once it has been filled:    *)
(* the process, and with it the session.                                   *)
(***************************************************************************)
LockFile == [inode : Processes, by : Processes, full : BOOLEAN]
NoFile == [full |-> FALSE]

Stages == {"unborn", "starting", "passive", "reading", "rewriting", "stale",
           "retry", "filling", "owner", "releasing", "unlinking", "released",
           "down"}

LockInit ==
    /\ session \in [Processes -> Sessions]
    /\ lockFile = NoFile
    /\ lock = [p \in Processes |-> "unborn"]
    /\ opened = [p \in Processes |-> NoFile]
    /\ halted = {}

\* isProcessRunning: the process id belongs to a live process.
Alive(p) == lock[p] \notin {"unborn", "down"}

Running(p) == Alive(p) /\ p \notin halted

\* isOwner: set when the lock is acquired, cleared by stop only.
IsOwner(p) ==
    /\ lock[p] \in {"owner", "releasing", "unlinking", "released"}
    /\ p \notin halted

\* An owner that has not given the lock up in its shutdown.
Drives(p) == IsOwner(p) /\ lock[p] # "released"

Enter(p, stage) == lock' = [lock EXCEPT ![p] = stage]

\* The lock is acquired: a scheduler stopped meanwhile releases it at once.
Own(p) == Enter(p, IF p \in halted THEN "releasing" ELSE "owner")

(***************************************************************************)
(* Those to whose session the lock file belongs and who count on it.       *)
(***************************************************************************)
Holding == {"rewriting", "filling", "owner", "releasing", "unlinking",
            "released"}
Reliant == {p \in Processes : /\ lock[p] \in Holding /\ lockFile # NoFile
                              /\ session[p] = session[lockFile.by]}

\* Whom a process takes the lock from when it goes on with what it began
\* before it lost the lock.
Robbed(p) == IF p \in lost THEN Reliant ELSE {}
-----------------------------------------------------------------------------
(* tryAcquireSchedulerLock. *)

\* Mutant: the file is opened with 'w'.
CreateOver(p, otherwise) ==
    /\ lockFile' = [inode |-> p, by |-> p, full |-> FALSE]
    /\ opened' = [opened EXCEPT ![p] = p]
    /\ Enter(p, "filling")

\* tryCreateExclusive: the open of writeFile with 'wx'.
CreateOr(p, otherwise) ==
    IF lockFile = NoFile
    THEN /\ lockFile' = [inode |-> p, by |-> p, full |-> FALSE]
         /\ opened' = [opened EXCEPT ![p] = p]
         /\ Enter(p, "filling")
    ELSE /\ Enter(p, otherwise)
         /\ UNCHANGED <<lockFile, opened>>

\* The first attempt of a probe: of the first one, or of the timer's.
Probe(p) ==
    /\ \/ lock[p] = "starting"
       \/ lock[p] = "passive" /\ p \notin halted
    /\ CreateOr(p, "reading")
    /\ UNCHANGED <<session, halted, lost>>

\* The write of writeFile: lost when the file was removed meanwhile.  The
\* process takes itself for the owner.
Fill(p) ==
    /\ lock[p] = "filling"
    /\ lockFile' =
          IF lockFile # NoFile /\ lockFile.inode = opened[p]
          THEN [lockFile EXCEPT !.by = p, !.full = TRUE]
          ELSE lockFile
    /\ lost' = IF lockFile' = lockFile THEN lost ELSE lost \cup Robbed(p)
    /\ opened' = [opened EXCEPT ![p] = NoFile]
    /\ Own(p)
    /\ UNCHANGED <<session, halted>>

Mine(p) == lockFile.full /\ session[lockFile.by] = session[p]

\* Mutant: the process in the lock is not probed.
StaleIfUnreadable == ~lockFile.full

\* Without owner: gone, corrupt, not filled yet, or of a dead process.
Stale == lockFile.full => ~Alive(lockFile.by)

\* readLock, and what the process makes of it.
Read(p) ==
    /\ lock[p] = "reading"
    /\ \/ Mine(p) /\ lockFile.by = p /\ Own(p)
       \/ Mine(p) /\ lockFile.by # p /\ Enter(p, "rewriting")
       \/ ~Mine(p) /\ Stale /\ Enter(p, "stale")
       \/ ~Mine(p) /\ ~Stale /\ Enter(p, "passive")
    /\ UNCHANGED <<session, lockFile, opened, halted, lost>>

\* The lock of another process of the session, dead or alive, is written
\* over: the file is truncated, or created if it is gone.
Rewrite(p) ==
    /\ lock[p] = "rewriting"
    /\ lockFile' = [inode |-> IF lockFile = NoFile THEN p
                                                   ELSE lockFile.inode,
                    by |-> p, full |-> FALSE]
    /\ opened' = [opened EXCEPT ![p] = lockFile'.inode]
    /\ lost' = lost \cup Robbed(p)
    /\ Enter(p, "filling")
    /\ UNCHANGED <<session, halted>>

\* The stale lock, or whatever is there by now, is removed.
Recover(p) ==
    /\ lock[p] = "stale"
    /\ lockFile' = NoFile
    /\ lost' = lost \cup Reliant
    /\ Enter(p, "retry")
    /\ UNCHANGED <<session, opened, halted>>

Retry(p) ==
    /\ lock[p] = "retry"
    /\ CreateOr(p, "passive")
    /\ UNCHANGED <<session, halted, lost>>

Acquire(p) == Probe(p) \/ Fill(p) \/ Read(p) \/ Rewrite(p) \/ Recover(p)
              \/ Retry(p)
-----------------------------------------------------------------------------
(* releaseSchedulerLock and its two callers, and the processes. *)

\* The scheduler is stopped: an owner releases the lock, and one who is
\* about to acquire it will do so then.
Stop(p) ==
    /\ Running(p) /\ lock[p] \notin {"releasing", "unlinking"}
    /\ halted' = halted \cup {p}
    /\ Enter(p, IF IsOwner(p) THEN "releasing" ELSE lock[p])
    /\ UNCHANGED <<session, lockFile, opened, lost>>

\* gracefulShutdown runs the cleanup that the owner has registered.  The
\* scheduler is not stopped: isOwner and the timers stay.
Shutdown(p) ==
    /\ lock[p] = "owner"
    /\ Enter(p, "releasing")
    /\ UNCHANGED <<session, lockFile, opened, halted, lost>>

\* Given up: stopped for good, or still taking itself for the owner.
GivenUp(p) == IF p \in halted THEN "passive" ELSE "released"

\* The lock is read before it is removed.
Release(p) ==
    /\ lock[p] = "releasing"
    /\ Enter(p, IF Mine(p) THEN "unlinking" ELSE GivenUp(p))
    /\ UNCHANGED <<session, lockFile, opened, halted, lost>>

\* What is removed is taken from all processes of the session.
Unlink(p) ==
    /\ lock[p] = "unlinking"
    /\ lockFile' = NoFile
    /\ lost' = lost \cup {p} \cup Robbed(p)
                    \cup {q \in Reliant : session[q] = session[p]}
    /\ Enter(p, GivenUp(p))
    /\ UNCHANGED <<session, opened, halted>>

Crash(p) ==
    /\ Alive(p)
    /\ Enter(p, "down")
    /\ opened' = [opened EXCEPT ![p] = NoFile]
    /\ halted' = halted \ {p} /\ lost' = lost \ {p}
    /\ UNCHANGED <<session, lockFile>>

\* A session is started, or resumed in a new process.
Start(p) ==
    /\ lock[p] = "unborn"
    /\ Enter(p, "starting")
    /\ UNCHANGED <<session, lockFile, opened, halted, lost>>
-----------------------------------------------------------------------------
LockTypeOK ==
    /\ session \in [Processes -> Sessions]
    /\ lockFile \in LockFile \cup {NoFile}
    /\ lock \in [Processes -> Stages]
    /\ opened \in [Processes -> Processes \cup {NoFile}]
    /\ halted \subseteq Processes /\ lost \subseteq Processes

\* At most one session drives the scheduler, but for processes that have
\* lost the lock: to a recovery, which decides on what it has read and
\* removes what is there later; to another process of their session, which
\* takes the lock for its own and releases it; to their own shutdown, which
\* releases it and leaves them owners; or to one of those that writes over
\* or removes what it had before.  Neither a creation, nor a resumed session,
\* nor a stop or shutdown that reads first and removes later, nor the
\* recovery of a dead owner's lock takes it from anybody else.
OneOwner ==
    \A p, q \in Processes \ lost :
        IsOwner(p) /\ IsOwner(q) => session[p] = session[q]
=============================================================================
