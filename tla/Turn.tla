-------------------------------- MODULE Turn --------------------------------
(***************************************************************************)
(* The turns of the interactive session: who may run, and what becomes of  *)
(* every command.  Composes QueryGuard and CommandQueue with               *)
(*   - executeUserInput (utils/handlePromptSubmit.ts) and onQuery, onCancel *)
(*     and handleIncomingPrompt (screens/REPL.tsx);                        *)
(*   - the queue processor effect (hooks/useQueueProcessor.ts);            *)
(*   - the mid-turn drain of the query loop (query.ts).                    *)
(*                                                                         *)
(* An execution takes a slot from the call of executeUserInput (or of      *)
(* onQuery, for an inbox message) until that call returns.  A step is what *)
(* runs between two awaits.  React runs the effect in a microtask, so it   *)
(* may come between the last microtasks of an execution; input, timers and *)
(* I/O come only when the execution is past them (Settled).                *)
(***************************************************************************)
EXTENDS QueryGuard, CommandQueue

CONSTANTS
    Exec,       \* slots: executions that can overlap
    Cmd,        \* commands of a session
    Classes,    \* classes the commands can have
    none        \* no abort controller is installed

ASSUME NoneAssumption == none \notin Exec
ASSUME ClassesAssumption == Classes \subseteq Class

\* "processing": processUserInput; "querying": onQueryImpl; "draining":
\* between the snapshot of the queue and the removal; "ended": end(gen) was
\* true and mrOnTurnComplete is awaited; "returning": before the finally.
Phase == {"free", "processing", "querying", "draining", "ended", "returning"}

VARIABLES
    class,      \* class of each command
    sent,       \* commands that reached the session
    queue,      \* commandQueue
    dirty,      \* the effect of useQueueProcessor is to run again
    guard,      \* queryGuard
    phase,      \* where each execution stands
    batch,      \* the objects an execution runs
    gen,        \* thisGeneration of its onQuery
    snap,       \* queuedCommandsSnapshot of its mid-turn drain
    cancelled,  \* executions under way whose controller is aborted
    installed,  \* the execution whose controller Escape would abort
    handed,     \* history: how often a command was given to the conversation
    returned,   \* history: commands put back in the input box
    dropped     \* history: commands that one of two errors drops

execVars == <<phase, batch, gen, snap, cancelled>>
vars == <<class, sent, queue, dirty, guard, execVars, installed, handed, returned, dropped>>

-----------------------------------------------------------------------------
Querying == {e \in Exec : phase[e] \in {"querying", "draining"}}
Owners   == {e \in Querying : Ends(guard, gen[e])}

\* Objects of a sequence with their commands handed to the conversation.
HandOver(os) == handed' = [c \in Cmd |-> handed[c] + Cardinality({i \in DOMAIN os : os[i].cmd = c})]

\* Microtasks of an execution that is about to return come before any I/O.
Settled == \A e \in Exec : phase[e] \notin {"ended", "returning"}

UserPending ==
    \E i \in DOMAIN queue : ClassOf(class, queue[i]).mode \in {"prompt", "bash"}

-----------------------------------------------------------------------------
Init ==
    /\ class \in [Cmd -> Classes]
    /\ sent = {}
    /\ queue = <<>>
    /\ dirty = FALSE
    /\ guard = IdleGuard
    /\ phase = [e \in Exec |-> "free"]
    /\ batch = [e \in Exec |-> <<>>]
    /\ gen = [e \in Exec |-> 0]
    /\ snap = [e \in Exec |-> <<>>]
    /\ cancelled = {}
    /\ installed = none
    /\ handed = [c \in Cmd |-> 0]
    /\ returned = {}
    /\ dropped = {}

\* executeUserInput up to its first await.  The result of reserve is ignored.
Execute(e, os) ==
    /\ phase[e] = "free"
    /\ phase' = [phase EXCEPT ![e] = "processing"]
    /\ batch' = [batch EXCEPT ![e] = os]
    /\ installed' = e
    /\ guard' = reserve(guard)
    /\ UNCHANGED <<gen, snap, cancelled>>

\* handlePromptSubmit: what the user submits runs at once if no turn is
\* active, and is queued otherwise.
Submit(c) ==
    /\ Settled
    /\ c \notin sent
    /\ class[c].via = "user"
    /\ sent' = sent \cup {c}
    /\ dirty' = TRUE
    /\ IF isActive(guard)
       THEN /\ queue' = Enqueue(queue, <<Object(c)>>)
            /\ UNCHANGED <<guard, execVars, installed>>
       ELSE /\ \E e \in Exec : Execute(e, <<Object(c)>>)
            /\ UNCHANGED queue
    /\ UNCHANGED <<class, handed, returned, dropped>>

\* enqueue or enqueuePendingNotification by a task, a timer or a subagent.
Notify(c) ==
    /\ Settled
    /\ c \notin sent
    /\ class[c].via = "program"
    /\ sent' = sent \cup {c}
    /\ queue' = Enqueue(queue, <<Object(c)>>)
    /\ dirty' = TRUE
    /\ UNCHANGED <<class, guard, execVars, installed, handed, returned, dropped>>

\* The effect of useQueueProcessor: it runs again only when the queue or the
\* activity of the guard changed, and does nothing while a turn is active.
ProcessQueue ==
    /\ dirty
    /\ LET os == Batch(class, queue) IN
         IF isActive(guard) \/ os = <<>>
         THEN dirty' = FALSE /\ UNCHANGED <<queue, guard, execVars, installed>>
         ELSE /\ \E e \in Exec : Execute(e, os)
              /\ queue' = Without(queue, ToSet(os))
              /\ UNCHANGED dirty
    /\ UNCHANGED <<class, sent, handed, returned, dropped>>

(* onQuery *)

\* tryStart succeeded: the messages join the conversation.
Start(e, os) ==
    /\ guard' = Started(guard)
    /\ gen' = [gen EXCEPT ![e] = guard.generation + 1]
    /\ HandOver(os)

\* handleIncomingPrompt: an inbox message starts a turn of its own, unless a
\* turn is active or the user's commands wait; else it stays in the inbox.
IncomingPrompt(c) ==
    /\ Settled
    /\ c \notin sent
    /\ class[c].via = "inbox"
    /\ ~isActive(guard)
    /\ ~UserPending
    /\ sent' = sent \cup {c}
    /\ \E e \in Exec :
          /\ phase[e] = "free"
          /\ phase' = [phase EXCEPT ![e] = "querying"]
          /\ batch' = [batch EXCEPT ![e] = <<Object(c)>>]
          /\ installed' = e
          /\ Start(e, <<Object(c)>>)
    /\ dirty' = TRUE
    /\ UNCHANGED <<class, queue, snap, cancelled, returned, dropped>>

Inbox(e) == class[batch[e][1].cmd].via = "inbox"

\* Mutant: the messages that cannot start a query are dropped.
NoReplay(os) == <<>>

\* The text of the user-visible messages, queued again as plain prompts.
Replay(os) ==
    LET visible == At(os, {i \in DOMAIN os : ~ClassOf(class, os[i]).meta})
    IN [i \in DOMAIN visible |-> CopyOf(visible[i])]

MayStart(g) == CanStart(g)

\* processUserInput returned messages: onQuery up to its first await.
StartQuery(e) ==
    /\ phase[e] = "processing"
    /\ IF MayStart(guard)
       THEN /\ Start(e, batch[e])
            /\ phase' = [phase EXCEPT ![e] = "querying"]
            /\ dirty' = TRUE
            /\ UNCHANGED queue
       ELSE /\ queue' = Enqueue(queue, Replay(batch[e]))
            /\ phase' = [phase EXCEPT ![e] = "returning"]
            /\ dirty' = (dirty \/ Replay(batch[e]) # <<>>)
            /\ UNCHANGED <<guard, gen, handed>>
    /\ UNCHANGED <<class, sent, batch, snap, cancelled, installed, returned, dropped>>

\* A local slash command returned no messages: it is done.
FinishLocal(e) ==
    /\ phase[e] = "processing"
    /\ ClassOf(class, batch[e][1]).slash
    /\ guard' = cancelReservation(guard)
    /\ installed' = none
    /\ phase' = [phase EXCEPT ![e] = "returning"]
    /\ HandOver(batch[e])
    /\ dirty' = TRUE
    /\ UNCHANGED <<class, sent, queue, batch, gen, snap, cancelled, returned, dropped>>

\* processUserInput threw for one command: those of the whole batch are gone.
FailInput(e) ==
    /\ phase[e] = "processing"
    /\ phase' = [phase EXCEPT ![e] = "returning"]
    /\ dropped' = dropped \cup {o.cmd : o \in ToSet(batch[e])}
    /\ UNCHANGED <<class, sent, queue, dirty, guard, batch, gen, snap, cancelled,
                   installed, handed, returned>>

(* The mid-turn drain of query.ts, after the tools of an iteration *)

\* What the main thread attaches: no slash command, which waits for its turn.
Attachable(os) ==
    At(os, {i \in DOMAIN os :
               LET c == ClassOf(class, os[i]) IN c.main /\ ~c.slash})

\* The snapshot: up to 'next', or everything if the Sleep tool ran.  A query
\* that was aborted returns before it.
SnapQueue(e) ==
    /\ Settled
    /\ phase[e] = "querying"
    /\ e \notin cancelled
    /\ ClassOf(class, batch[e][1]).mode # "bash"
    /\ \E p \in {1, 2} :
          LET os == Attachable(UpToPriority(class, queue, p)) IN
            /\ os # <<>>
            /\ snap' = [snap EXCEPT ![e] = os]
    /\ phase' = [phase EXCEPT ![e] = "draining"]
    /\ UNCHANGED <<class, sent, queue, dirty, guard, batch, gen, cancelled, installed,
                   handed, returned, dropped>>

NotBash(os) == At(os, {i \in DOMAIN os : ClassOf(class, os[i]).mode # "bash"})

\* The attachments are complete: they join the conversation, and the commands
\* they were made from leave the queue, those that are still in it.  If making
\* them threw, maybe() returns none, and the commands leave the queue as well.
ConsumeDrain(e) ==
    /\ Settled
    /\ phase[e] = "draining"
    /\ LET os == NotBash(snap[e]) IN
         /\ \/ HandOver(os) /\ UNCHANGED dropped
            \/ /\ dropped' = dropped \cup {o.cmd : o \in ToSet(os)}
               /\ UNCHANGED handed
         /\ queue' = Without(queue, ToSet(os))
    /\ dirty' = (dirty \/ queue' # queue)
    /\ snap' = [snap EXCEPT ![e] = <<>>]
    /\ phase' = [phase EXCEPT ![e] = "querying"]
    /\ UNCHANGED <<class, sent, guard, batch, gen, cancelled, installed, returned>>

(* The end of an execution *)

\* Mutants: end() does not compare generations, or is off by one.
EndsAny(e)  == guard.status = "running"
EndsLast(e) == Ends(guard, gen[e] + 1)

EndsTurn(e) == Ends(guard, gen[e])

\* An inbox message's call of onQuery has nobody waiting for it.
Leave(e) ==
    /\ batch' = [batch EXCEPT ![e] = <<>>]
    /\ gen' = [gen EXCEPT ![e] = 0]
    /\ cancelled' = cancelled \ {e}

\* onQueryImpl returned or threw: the finally of onQuery.
EndQuery(e) ==
    /\ Settled
    /\ phase[e] = "querying"
    /\ guard' = IF EndsTurn(e) THEN [guard EXCEPT !.status = "idle"] ELSE guard
    /\ dirty' = (dirty \/ EndsTurn(e))
    /\ installed' = IF ClassOf(class, batch[e][1]).mode = "bash" THEN none ELSE installed
    /\ IF EndsTurn(e)
       THEN phase' = [phase EXCEPT ![e] = "ended"] /\ UNCHANGED <<batch, gen, cancelled>>
       ELSE IF Inbox(e)
       THEN phase' = [phase EXCEPT ![e] = "free"] /\ Leave(e)
       ELSE phase' = [phase EXCEPT ![e] = "returning"] /\ UNCHANGED <<batch, gen, cancelled>>
    /\ UNCHANGED <<class, sent, queue, snap, handed, returned, dropped>>

\* mrOnTurnComplete was awaited: the controller is cleared.
ClearController(e) ==
    /\ phase[e] = "ended"
    /\ installed' = none
    /\ IF Inbox(e)
       THEN phase' = [phase EXCEPT ![e] = "free"] /\ Leave(e)
       ELSE phase' = [phase EXCEPT ![e] = "returning"] /\ UNCHANGED <<batch, gen, cancelled>>
    /\ UNCHANGED <<class, sent, queue, dirty, guard, snap, handed, returned, dropped>>

ForgetBatch(e) == Leave(e)

\* Mutant: the guard does not notify its subscribers.
SilentRelease == UNCHANGED dirty

NotifyRelease == dirty' = (dirty \/ guard' # guard)

\* The finally of executeUserInput.
Return(e) ==
    /\ phase[e] = "returning"
    /\ guard' = cancelReservation(guard)
    /\ NotifyRelease
    /\ phase' = [phase EXCEPT ![e] = "free"]
    /\ ForgetBatch(e)
    /\ UNCHANGED <<class, sent, queue, snap, installed, handed, returned, dropped>>

(* The user interrupts *)

\* Escape while a controller is installed: onCancel.
Cancel ==
    /\ Settled
    /\ installed \in Exec
    /\ guard' = forceEnd(guard)
    /\ dirty' = TRUE
    /\ cancelled' = cancelled \cup {e \in Exec : e = installed /\ phase[e] # "free"}
    /\ installed' = none
    /\ UNCHANGED <<class, sent, queue, phase, batch, gen, snap, handed, returned, dropped>>

\* Up arrow, or Escape when no controller is installed: popAllEditable.
PopQueue ==
    /\ Settled
    /\ LET os == {o \in ToSet(queue) : Editable(ClassOf(class, o))} IN
         /\ os # {}
         /\ queue' = Without(queue, os)
         /\ returned' = returned \cup {o.cmd : o \in os}
    /\ dirty' = TRUE
    /\ UNCHANGED <<class, sent, guard, execVars, installed, handed, dropped>>

-----------------------------------------------------------------------------
Next ==
    \/ \E c \in Cmd : Submit(c) \/ Notify(c) \/ IncomingPrompt(c)
    \/ ProcessQueue
    \/ \E e \in Exec :
          \/ StartQuery(e) \/ FinishLocal(e) \/ FailInput(e)
          \/ SnapQueue(e) \/ ConsumeDrain(e)
          \/ EndQuery(e) \/ ClearController(e) \/ Return(e)
    \/ Cancel \/ PopQueue

Spec == Init /\ [][Next]_vars

\* Promise callbacks and effects run; processing, attachments and queries end.
Fairness ==
    /\ WF_vars(ProcessQueue)
    /\ \A e \in Exec :
          /\ WF_vars(StartQuery(e) \/ FinishLocal(e) \/ FailInput(e))
          /\ WF_vars(ConsumeDrain(e)) /\ SF_vars(EndQuery(e))
          /\ WF_vars(ClearController(e)) /\ WF_vars(Return(e))

FairSpec == Spec /\ Fairness

-----------------------------------------------------------------------------
(* Properties *)

\* Every variable has its type; an execution runs something until it returns.
TypeOK ==
    /\ class \in [Cmd -> Classes]
    /\ sent \subseteq Cmd
    /\ \A o \in ToSet(queue) : o.cmd \in sent
    /\ dirty \in BOOLEAN
    /\ guard \in Guard
    /\ phase \in [Exec -> Phase]
    /\ \A e \in Exec : (phase[e] = "free") <=> (batch[e] = <<>>)
    /\ gen \in [Exec -> Nat]
    /\ \A e \in Exec : snap[e] # <<>> => phase[e] = "draining"
    /\ cancelled \subseteq {e \in Exec : phase[e] # "free"}
    /\ installed \in Exec \cup {none}
    /\ handed \in [Cmd -> Nat]
    /\ returned \subseteq sent
    /\ dropped \subseteq sent

\* A running guard has exactly one owner: never two queries, and never none
\* (the session would show a turn that nothing ends).
SoleOwner == guard.status = "running" => \E e \in Exec : Owners = {e}

\* The executions and the guard implement the abstract turn: one owner at a
\* time, and a cancelled query that unwinds late never ends its successor's
\* turn (the reason for the generations of QueryGuard).
Owner == INSTANCE TurnOwner WITH unfinished <- Querying, owners <- Owners

ImplementsTurnOwner == Owner!Spec

\* No command of the user disappears: it is queued, being processed, given to
\* the conversation, or back in the input box, whatever is cancelled and
\* whichever queries collide.  Only an error loses one: of processUserInput for a
\* command of its batch, or of making the attachments of its drain.
NothingLost ==
    \A c \in sent :
        \/ class[c].meta
        \/ \E o \in ToSet(queue) : o.cmd = c
        \/ \E e \in Exec : phase[e] = "processing" /\ \E o \in ToSet(batch[e]) : o.cmd = c
        \/ handed[c] > 0
        \/ c \in returned
        \/ c \in dropped

\* The queue of the main thread is never left behind: between turns, while
\* commands wait, the effect that runs them is due.
WakeupPending ==
    ~isActive(guard) /\ MainThread(class, queue) # {} => dirty

\* A queued command addressed to the main thread leaves the queue in the end.
Served ==
    \A c \in Cmd :
        (\E i \in MainThread(class, queue) : queue[i].cmd = c)
            ~> ~(\E i \in MainThread(class, queue) : queue[i].cmd = c)
=============================================================================
