---------------------------- MODULE CommandQueue ----------------------------
(***************************************************************************)
(* The unified command queue (utils/messageQueueManager.ts) and the choice *)
(* of the commands to run between turns (utils/queueProcessor.ts).         *)
(*                                                                         *)
(* A command is queued as an object: two objects may carry one text.  An   *)
(* object is [cmd, copy] with copy = 0 as first queued and n + 1 for the   *)
(* plain text of copy n that onQuery queued again.                         *)
(***************************************************************************)
EXTENDS Filter, SequencesExt

Mode     == {"prompt", "bash", "task-notification"}
Priority == 0..2                             \* now, next, later

\* via: typed by the user, queued by the program, or posted by the inbox
\* poller; main: addressed to the main thread; slash: a slash command;
\* meta: its messages are not user-visible text.
Class == [mode : Mode, priority : Priority, main : BOOLEAN, slash : BOOLEAN,
          meta : BOOLEAN, via : {"user", "program", "inbox"}]

Object(c) == [cmd |-> c, copy |-> 0]

\* What onQuery queues for a message it cannot start a query with.
CopyOf(o) == [o EXCEPT !.copy = @ + 1]
TextClass == [mode |-> "prompt", priority |-> 1, main |-> TRUE, slash |-> FALSE,
              meta |-> FALSE, via |-> "program"]

ClassOf(class, o) == IF o.copy = 0 THEN class[o.cmd] ELSE TextClass

Enqueue(queue, os) == queue \o os

Without(queue, os) == At(queue, {i \in DOMAIN queue : queue[i] \notin os})

\* isQueuedCommandEditable
Editable(k) == k.mode # "task-notification" /\ ~k.meta

\* getCommandsByMaxPriority
UpToPriority(class, queue, p) ==
    At(queue, {i \in DOMAIN queue : ClassOf(class, queue[i]).priority <= p})

\* Mutant: peek without its main-thread filter.
AnyThread(class, queue) == DOMAIN queue

MainThread(class, queue) == {i \in DOMAIN queue : ClassOf(class, queue[i]).main}

\* peek(isMainThread): the position of the first of the highest priority, as a
\* set that is empty when peek returns undefined.
Peek(class, queue) ==
    LET main    == MainThread(class, queue)
        rank(i) == ClassOf(class, queue[i]).priority
    IN {i \in main : \A j \in main : rank(i) < rank(j) \/ (rank(i) = rank(j) /\ i <= j)}

\* processQueueIfReady: the commands of one turn.  A slash or bash command goes
\* alone; otherwise everything of the same mode goes together.
Batch(class, queue) ==
    LET next  == queue[CHOOSE i \in Peek(class, queue) : TRUE]
        k     == ClassOf(class, next)
    IN IF Peek(class, queue) = {} THEN <<>>
       ELSE IF k.slash \/ k.mode = "bash" THEN <<next>>
       ELSE At(queue, {i \in DOMAIN queue :
                          LET c == ClassOf(class, queue[i]) IN
                          c.main /\ ~c.slash /\ c.mode = k.mode})
=============================================================================
