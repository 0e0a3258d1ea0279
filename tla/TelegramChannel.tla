-------------------------- MODULE TelegramChannel --------------------------
(***************************************************************************)
(* The Telegram gateway for one chat: messages are debounced into a batch  *)
(* (channels/telegram/telegramChannel.ts), each batch is given to an       *)
(* aiko-code subprocess that starts or resumes the session of the chat     *)
(* (entrypoints/gateway/telegram-gateway.ts), and what the subprocess      *)
(* prints is shown by editing one reply.                                   *)
(*                                                                         *)
(* A debounce window closes while the batches before it may still be under *)
(* way, so several flushes and several subprocesses of the chat can run at *)
(* once.  The gateway may be killed and restarted by its service manager   *)
(* at any moment; the subprocesses it has spawned are not killed with it.  *)
(***************************************************************************)
EXTENDS Integers, Sequences, SequencesExt, FiniteSets

CONSTANTS
    MaxMessages,    \* bound on the messages the chat sends
    MaxFlushes,     \* bound on the flushes of one life of the gateway
    MaxChunks,      \* bound on the chunks a subprocess prints
    MaxRestarts     \* bound on the restarts of the gateway

ASSUME BoundsAssumption ==
    /\ MaxMessages \in Nat /\ MaxFlushes \in Nat
    /\ MaxChunks \in Nat   /\ MaxRestarts \in Nat

VARIABLES
    received,       \* messages of this life handed to debounceMessage
    window,         \* the messages of the pending entry, {} without entry
    timers,         \* armed debounce timers, oldest first: the opening
                    \* message of the entry each was armed for
    flushing,       \* the chat is in the set of chats being flushed
    flush,          \* the flushes of this life
    begun,          \* how many of them have begun
    established,    \* the gateway believes the session is on disk
    transcript,     \* the session is on disk
    orphan,         \* a subprocess of an earlier life is still to create
                    \* the session
    late,           \* history: one has done so since this life began
    sent,           \* messages sent over all lives
    restarts

disk == <<transcript, orphan, late>>
vars == <<received, window, timers, flushing, flush, begun, established,
          disk, sent, restarts>>

-----------------------------------------------------------------------------
Messages == 1..MaxMessages

Flushes == 1..MaxFlushes
Counts == 0..MaxChunks

(***************************************************************************)
(* A flush: flushPending and streamReply (phase; acc, the length of        *)
(* accumulated; draft, whether draftTimer is armed), the subprocess and    *)
(* the generator of engineRoute (mode, engine, asked, answer, queued), and *)
(* what Telegram does (drafts, the texts of the draft edits in flight;     *)
(* final; screen, the text the user sees).  written and overlap are        *)
(* history: what the subprocess printed in all, and whether a draft edit   *)
(* was in flight when the final edit was sent.                             *)
(***************************************************************************)
Flush == [phase : {"unused", "placeholder", "streaming", "final", "done",
                   "failed"},
          batch : SUBSET Messages,
          mode : {"none", "create", "resume"},
          engine : {"none", "running", "succeeded", "failed"},
          asked : BOOLEAN, answer : {"none", "chunk", "done"},
          queued : Counts, written : Counts, acc : Counts,
          draft : BOOLEAN, drafts : SUBSET Counts,
          final : {"none", "shown", "refused"}, screen : Counts,
          overlap : BOOLEAN]

Unused == [phase |-> "unused", batch |-> {}, mode |-> "none",
           engine |-> "none", asked |-> FALSE, answer |-> "none",
           queued |-> 0, written |-> 0, acc |-> 0, draft |-> FALSE,
           drafts |-> {}, final |-> "none", screen |-> 0, overlap |-> FALSE]

Init ==
    /\ received = {}
    /\ window = {}
    /\ timers = <<>>
    /\ flushing = FALSE
    /\ flush = [f \in Flushes |-> Unused]
    /\ begun = 0
    /\ transcript \in BOOLEAN
    /\ established = transcript
    /\ orphan = FALSE
    /\ late = FALSE
    /\ sent = 0
    /\ restarts = 0

\* A chunk is there: awaited by the generator, or queued before it asked.
HasChunk(f) == flush[f].answer = "chunk" \/ flush[f].queued > 0

\* The generator ends: it was told so, or finds the subprocess finished and
\* no chunk queued.
AtEnd(f) ==
    \/ flush[f].answer = "done"
    \/ /\ ~flush[f].asked /\ flush[f].answer = "none"
       /\ flush[f].queued = 0
       /\ flush[f].engine \in {"succeeded", "failed"}

Ready(f) == flush[f].phase = "streaming" /\ (HasChunk(f) \/ AtEnd(f))

\* Promise callbacks run before the event loop takes a timer, an update or
\* an answer of Telegram.  The handlers of the subprocess may be called
\* several times in one turn of the loop, so they do not wait for this.
Settled == \A f \in Flushes : ~Ready(f)

chat == <<received, sent>>
debounce == <<window, timers>>
session == <<established, disk>>

-----------------------------------------------------------------------------
(* The inbound side. *)

\* Mutant: re-entry is prevented by opening no window during a flush.
ArmUnlessFlushing(m) ==
    timers' = IF window = {} /\ ~flushing THEN Append(timers, m) ELSE timers

\* The entry and its window are opened by the first message.
Arm(m) == timers' = IF window = {} THEN Append(timers, m) ELSE timers

\* The message handler up to debounceMessage: the message joins the entry.
Receive ==
    /\ Settled
    /\ sent < MaxMessages
    /\ sent' = sent + 1
    /\ received' = received \cup {sent'}
    /\ window' = window \cup {sent'}
    /\ Arm(sent')
    /\ UNCHANGED <<flushing, flush, begun, session, restarts>>

\* Mutant: the entry outlives the first await of flushPending, as if the
\* delete stood after an awaited flush; the messages that arrive in between
\* are deleted with it.
ForgetEntryLate == window' = window

\* What becomes of the entry when its timer has begun a flush.
ForgetEntry == window' = {}

\* The timer callback: flushPending up to its first await, then the delete.
\* All timers have the same delay, so they fire in the order they were
\* armed.  A timer whose entry an error deleted flushes the entry that was
\* opened since, or nothing.
WindowCloses ==
    /\ Settled
    /\ timers # <<>>
    /\ timers' = Tail(timers)
    /\ ForgetEntry
    /\ flushing' = (window # {})
    /\ IF window = {}
       THEN UNCHANGED <<flush, begun>>
       ELSE /\ begun < MaxFlushes
            /\ begun' = begun + 1
            /\ flush' = [flush EXCEPT ![begun'].phase = "placeholder",
                                      ![begun'].batch = window]
    /\ UNCHANGED <<chat, session, restarts>>

\* The catch of flushPending: the entry of the chat is deleted, whichever
\* messages it holds by now; its timer stays armed.
Fail(f, rec) ==
    /\ flush' = [flush EXCEPT ![f] = [rec EXCEPT !.phase = "failed",
                                                 !.draft = FALSE]]
    /\ window' = {}
    /\ flushing' = FALSE
-----------------------------------------------------------------------------
(* Begin of a flush: the placeholder, then the subprocess. *)

\* sendReply failed: the generator was created but never started.
PlaceholderFails(f) ==
    /\ Settled
    /\ flush[f].phase = "placeholder"
    /\ Fail(f, flush[f])
    /\ UNCHANGED <<chat, timers, begun, session, restarts>>

MarkWhenSpawned == established' = TRUE

\* sendReply answered; the generator starts, spawns the subprocess and asks
\* for the first chunk.
Spawn(f) ==
    /\ Settled
    /\ flush[f].phase = "placeholder"
    /\ flush' = [flush EXCEPT
          ![f].phase = "streaming", ![f].engine = "running",
          ![f].mode = IF established THEN "resume" ELSE "create",
          ![f].asked = TRUE]
    /\ MarkWhenSpawned
    /\ UNCHANGED <<chat, debounce, flushing, begun, disk, restarts>>

-----------------------------------------------------------------------------
(* The subprocess, from main.tsx: it refuses to create a session that is   *)
(* on disk or to resume one that is not, saves the message before it asks  *)
(* the model, and may exit with an error at any point.                     *)

\* QueryEngine writes the transcript before the query loop.
EngineSaves(f) ==
    /\ flush[f].engine = "running"
    /\ flush[f].mode = "create"
    /\ ~transcript
    /\ transcript' = TRUE
    /\ UNCHANGED <<chat, debounce, flushing, flush, begun, established,
                   orphan, late, restarts>>

\* The stdout handler of engineRoute.
EngineWrites(f) ==
    /\ flush[f].engine = "running"
    /\ transcript
    /\ flush[f].written < MaxChunks
    /\ flush' = [flush EXCEPT
          ![f].written = @ + 1,
          ![f].asked = FALSE,
          ![f].answer = IF flush[f].asked THEN "chunk" ELSE @,
          ![f].queued = IF flush[f].asked THEN @ ELSE @ + 1]
    /\ UNCHANGED <<chat, debounce, flushing, begun, session, restarts>>

\* Mutant: the close handler does not wake the waiting generator.
NoticeExitAsleep(rec, how) == [rec EXCEPT !.engine = how]

\* The close and error handlers: finished and exitErr are set, and the
\* generator that waits is told.
NoticeExit(rec, how) ==
    [rec EXCEPT !.engine = how, !.asked = FALSE,
                !.answer = IF rec.asked THEN "done" ELSE @]

EngineExits(f) ==
    /\ flush[f].engine = "running"
    /\ \E how \in {"succeeded", "failed"} :
          /\ how = "succeeded" => transcript
          /\ flush' = [flush EXCEPT ![f] = NoticeExit(@, how)]
    /\ UNCHANGED <<chat, debounce, flushing, begun, session, restarts>>

-----------------------------------------------------------------------------
(* streamReply, with the generator of engineRoute it iterates. *)

\* The chunks left in the queue when the generator has taken one.
Left(f) == IF flush[f].answer = "chunk" THEN flush[f].queued
                                        ELSE flush[f].queued - 1

\* The body of the for-await loop: the chunk is accumulated and the draft
\* timer armed anew; the generator then looks for the next chunk.
TakeChunk(f) ==
    /\ flush[f].phase = "streaming"
    /\ HasChunk(f)
    /\ flush' = [flush EXCEPT
          ![f].acc = @ + 1,
          ![f].draft = TRUE,
          ![f].answer = "none",
          ![f].queued = Left(f),
          ![f].asked = Left(f) = 0 /\ flush[f].engine = "running"]
    /\ UNCHANGED <<chat, debounce, flushing, begun, session, restarts>>

\* The draft timer fires: an edit with the text of this moment is sent.
DraftFires(f) ==
    /\ Settled
    /\ flush[f].phase = "streaming"
    /\ flush[f].draft
    /\ flush' = [flush EXCEPT ![f].draft = FALSE,
                              ![f].drafts = @ \cup {flush[f].acc}]
    /\ UNCHANGED <<chat, debounce, flushing, begun, session, restarts>>

\* Mutant: the final edit is skipped when no draft is due any more.
SendFinalIfDue(rec) ==
    [rec EXCEPT !.phase = IF rec.draft THEN "final" ELSE "done",
                !.final = IF rec.draft THEN @ ELSE "shown",
                !.draft = FALSE, !.overlap = rec.drafts # {}]

\* The final flush: the draft timer is cleared and the whole text is sent.
SendFinal(rec) ==
    [rec EXCEPT !.phase = "final", !.draft = FALSE,
                !.overlap = rec.drafts # {}]

\* The generator returned: the final edit is sent.
EndOfReply(f) ==
    /\ flush[f].phase = "streaming"
    /\ AtEnd(f)
    /\ flush[f].engine = "succeeded"
    /\ flush' = [flush EXCEPT ![f] = SendFinal([@ EXCEPT !.answer = "none"])]
    /\ UNCHANGED <<chat, debounce, flushing, begun, session, restarts>>

\* The generator threw the error of the subprocess.
ReplyFails(f) ==
    /\ flush[f].phase = "streaming"
    /\ AtEnd(f)
    /\ flush[f].engine = "failed"
    /\ Fail(f, [flush[f] EXCEPT !.answer = "none"])
    /\ UNCHANGED <<chat, timers, begun, session, restarts>>

\* Mutant: the entry is deleted at the end as on the error path.
EndFlushDeleting ==
    flushing' = FALSE /\ window' = {} /\ UNCHANGED timers

\* The finally of flushPending.
EndFlush == flushing' = FALSE /\ UNCHANGED debounce

\* Telegram answers the final edit, applied or refused; flushPending ends.
FinalAnswered(f) ==
    /\ Settled
    /\ flush[f].phase = "final"
    /\ \E ok \in BOOLEAN :
          flush' = [flush EXCEPT
             ![f].phase = "done",
             ![f].final = IF ok THEN "shown" ELSE "refused",
             ![f].screen = IF ok THEN flush[f].acc ELSE @]
    /\ EndFlush
    /\ UNCHANGED <<chat, begun, session, restarts>>

\* Telegram answers a draft edit.  Requests in flight are answered in any
\* order, and a draft may be answered after the flush has ended.
DraftAnswered(f) ==
    /\ Settled
    /\ \E text \in flush[f].drafts, ok \in BOOLEAN :
          flush' = [flush EXCEPT ![f].drafts = @ \ {text},
                                 ![f].screen = IF ok THEN text ELSE @]
    /\ UNCHANGED <<chat, debounce, flushing, begun, session, restarts>>
-----------------------------------------------------------------------------
\* Mutant: a restarted gateway takes every session for a new one.
SeedEmpty == FALSE

\* A subprocess that is to create the session and still runs.
Creating(f) == flush[f].mode = "create" /\ flush[f].engine = "running"

\* sessionEstablished is seeded from the transcripts on disk.
Seed == transcript

\* The gateway dies and is started again.  Telegram has been told that the
\* updates were taken, so the window is gone.  Its subprocesses may live on:
\* the gateway never kills them, a service manager may.
Restart ==
    /\ restarts < MaxRestarts
    /\ restarts' = restarts + 1
    /\ received' = {}
    /\ window' = {}
    /\ timers' = <<>>
    /\ flushing' = FALSE
    /\ flush' = [f \in Flushes |-> Unused]
    /\ begun' = 0
    /\ established' = Seed
    /\ \E left \in BOOLEAN :
          /\ left => /\ ~transcript
                     /\ orphan \/ \E f \in Flushes : Creating(f)
          /\ orphan' = left
    /\ late' = FALSE
    /\ UNCHANGED <<transcript, sent>>

\* An orphan saves the session, after the restarted gateway has looked.
OrphanSaves ==
    /\ orphan
    /\ ~transcript
    /\ transcript' = TRUE
    /\ orphan' = FALSE
    /\ late' = TRUE
    /\ UNCHANGED <<chat, debounce, flushing, flush, begun, established,
                   restarts>>

\* The last orphan exits, or finds the session created by another.
OrphanExits ==
    /\ orphan
    /\ orphan' = FALSE
    /\ UNCHANGED <<chat, debounce, flushing, flush, begun, established,
                   transcript, late, restarts>>

Engine(f) == EngineSaves(f) \/ EngineWrites(f) \/ EngineExits(f)
Reply(f) == \/ Spawn(f) \/ PlaceholderFails(f) \/ TakeChunk(f)
            \/ EndOfReply(f) \/ ReplyFails(f) \/ FinalAnswered(f)

Next ==
    \/ Receive
    \/ WindowCloses
    \/ Restart \/ OrphanSaves \/ OrphanExits
    \/ \E f \in Flushes : \/ Engine(f) \/ Reply(f) \/ DraftFires(f)
                          \/ DraftAnswered(f)

Spec == Init /\ [][Next]_vars

-----------------------------------------------------------------------------
(* Properties. *)

TypeOK ==
    /\ received \subseteq Messages /\ window \subseteq Messages
    /\ timers \in Seq(Messages)
    /\ flushing \in BOOLEAN
    /\ flush \in [Flushes -> Flush]
    /\ begun \in 0..MaxFlushes
    /\ established \in BOOLEAN /\ transcript \in BOOLEAN
    /\ orphan \in BOOLEAN /\ late \in BOOLEAN
    /\ sent \in 0..MaxMessages /\ restarts \in 0..MaxRestarts

\* As long as no flush has failed, every message the gateway has taken is in
\* the window or in a batch: nothing falls between the closing of a window
\* and the opening of the next one.  A failed flush deletes the window that
\* newer messages have opened (flushPending's catch), which is why the
\* condition is there.
NothingLost ==
    (\A f \in Flushes : flush[f].phase # "failed") =>
        received = window \cup UNION {flush[f].batch : f \in Flushes}

\* No message reaches the model twice, and batches are given to it in the
\* order of arrival, also when a timer whose entry an error has deleted
\* closes the window of a later entry early.
ServedOnceInOrder ==
    \A f, g \in Flushes : f < g =>
        \A m \in flush[f].batch :
            /\ \A n \in flush[g].batch : m < n
            /\ \A n \in window : m < n

\* An open window has the timer that was armed for it, whatever deleted
\* entries and orphaned timers came before: it cannot stay open for ever.
WindowHasTimer ==
    window # {} => \E i \in DOMAIN timers : \A n \in window : timers[i] <= n
                                            /\ timers[i] \in window

\* The gateway asks once in its life to create the session, however its
\* flushes overlap, and never when the session is on disk, which the
\* subprocess refuses; after a restart neither, unless a subprocess of the
\* life before has saved it since the gateway looked.  It asks to resume a
\* session that is not there only when the subprocess that was to create it
\* is still at it, or has failed before it could.
SessionTracked ==
    /\ \A f, g \in Flushes :
          flush[f].mode = "create" /\ flush[g].mode = "create" => f = g
    /\ transcript => established \/ late
    /\ established /\ ~transcript =>
          \E f \in Flushes : /\ flush[f].mode = "create"
                             /\ flush[f].engine \in {"running", "failed"}

\* A reply whose final edit was accepted, and met no draft edit in flight,
\* shows all that the subprocess has printed, for good: no chunk is lost
\* between the stdout handler and the generator, and no draft comes late.
ReplyComplete ==
    \A f \in Flushes :
        flush[f].final = "shown" /\ ~flush[f].overlap =>
            flush[f].screen = flush[f].written

\* A generator is never left waiting for what has already come: it waits
\* only while the subprocess runs and nothing is queued, however chunks and
\* exits interleave with its reads.  So every reply ends once its subprocess
\* does and Telegram answers.
NeverAsleep ==
    \A f \in Flushes :
        flush[f].phase = "streaming" =>
            \/ Ready(f)
            \/ /\ flush[f].asked /\ flush[f].engine = "running"
               /\ flush[f].queued = 0
=============================================================================
