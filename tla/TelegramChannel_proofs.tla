----------------------- MODULE TelegramChannel_proofs -----------------------
(***************************************************************************)
(* The safety of the gateway of one chat, for any number of messages,      *)
(* flushes, chunks and restarts.                                           *)
(*                                                                         *)
(* The proofs go from the types, which need that what a flush has in hand  *)
(* never exceeds what its subprocess has printed, to the facts about one   *)
(* flush (Hand, Reply), and then to those that relate the flushes of the   *)
(* chat with its window and its session.                                   *)
(***************************************************************************)
EXTENDS TelegramChannel, TLAPS

(***************************************************************************)
(* Every action on a flush rewrites the record of one flush, f, with one   *)
(* of the records below.  What the lemmas say of a record, they say of r,  *)
(* with the values transcript and established had when it was written.     *)
(***************************************************************************)
One(r) == IF r.answer = "chunk" THEN 1 ELSE 0

\* What the subprocess has printed is in hand, handed over or queued; the
\* generator waits only if nothing is, and is told only while it waits.
Hand(r) ==
    /\ r.written = r.acc + r.queued + One(r)
    /\ r.asked => r.answer = "none" /\ r.queued = 0 /\ r.engine = "running"
    /\ r.answer = "done" => r.queued = 0 /\ r.engine # "running"

\* Before its subprocess is spawned a flush has nothing in hand.
Stages(r) ==
    /\ r.phase \in {"unused", "placeholder"} =>
          /\ r.mode = "none" /\ r.engine = "none" /\ r.answer = "none"
          /\ ~r.asked /\ r.queued = 0 /\ r.written = 0 /\ r.acc = 0
          /\ r.drafts = {}
    /\ r.phase = "streaming" => r.engine # "none"

\* The final edit has all the text, and is the last unless a draft overlaps.
Ending(r) ==
    /\ r.phase \in {"final", "done"} =>
          /\ r.engine = "succeeded" /\ r.acc = r.written
          /\ r.overlap \/ r.drafts = {}
    /\ r.final = "shown" =>
          /\ r.phase = "done"
          /\ r.overlap \/ r.screen = r.acc

Awake(r) ==
    r.phase = "streaming" =>
        \/ r.answer # "none" \/ r.queued > 0 \/ r.asked
        \/ r.engine \in {"succeeded", "failed"}

Good(r) ==
    r \in Flush /\ Hand(r) /\ Stages(r) /\ Ending(r) /\ Awake(r)

\* The flush f has become r, and the others are as they were.
Becomes(f, r) == flush' = [flush EXCEPT ![f] = r]

LEMMA TakeOne ==
    ASSUME NEW r \in Flush, Good(r), r.phase = "streaming",
           r.answer = "chunk" \/ r.queued > 0,
           NEW left, r.answer = "chunk" => left = r.queued,
           r.answer # "chunk" => left = r.queued - 1,
           NEW wait \in BOOLEAN,
           wait = TRUE => left = 0 /\ r.engine = "running",
           wait = FALSE => left # 0 \/ r.engine # "running"
    PROVE  Good([r EXCEPT !.acc = @ + 1, !.draft = TRUE, !.answer = "none",
                          !.queued = left, !.asked = wait])
<1> DEFINE s == [r EXCEPT !.acc = @ + 1, !.draft = TRUE, !.answer = "none",
                          !.queued = left, !.asked = wait]
<1>1. left \in Counts /\ r.acc + 1 \in Counts
  <2>1. /\ r.acc \in Nat /\ r.queued \in Nat /\ r.written \in Nat
        /\ r.written <= MaxChunks
    BY BoundsAssumption DEF Flush, Counts
  <2>2. r.written = r.acc + r.queued + One(r)
    BY DEF Good, Hand
  <2> QED BY <2>1, <2>2, BoundsAssumption DEF One, Counts
<1>2. s \in Flush
  BY <1>1 DEF Flush
<1>0. /\ s.phase = r.phase /\ s.engine = r.engine /\ s.written = r.written /\ s.mode = r.mode
      /\ s.acc = r.acc + 1 /\ s.answer = "none" /\ s.queued = left /\ s.asked = wait
      /\ s.final = r.final
  BY DEF Flush
<1>3. Hand(s)
  <2>1. /\ r.acc \in Nat /\ r.queued \in Nat /\ r.written \in Nat
    BY BoundsAssumption DEF Flush, Counts
  <2>2. r.written = r.acc + r.queued + One(r)
    BY DEF Good, Hand
  <2> HIDE DEF s
  <2> QED BY <2>1, <2>2, <1>1, <1>0 DEF One, Counts, Hand
<1>4. Stages(s) /\ Ending(s) /\ Awake(s)
  <2> HIDE DEF s
  <2>1. left \in Nat /\ r.engine \in {"none", "running", "succeeded", "failed"}
    BY <1>1, BoundsAssumption DEF Counts, Flush
  <2>2. Stages(s) /\ Ending(s)
    BY <1>0, <2>1 DEF Good, Stages, Ending
  <2>3. CASE wait = TRUE
    BY <1>0, <2>2, <2>3 DEF Awake
  <2>4. CASE wait = FALSE
    <3>1. left > 0 \/ r.engine \in {"succeeded", "failed"}
      BY <2>1, <2>4 DEF Good, Stages
    <3> QED BY <1>0, <2>2, <3>1 DEF Awake
  <2> QED BY <2>3, <2>4
<1> QED BY <1>2, <1>3, <1>4 DEF Good

(***************************************************************************)
(* What each step on the flush f makes of it.                              *)
(***************************************************************************)
Turns(f) ==
    /\ flush' = [flush EXCEPT ![f] = flush'[f]]
    /\ Good(flush'[f])
    /\ flush'[f].batch = flush[f].batch
    /\ flush[f].phase # "unused"

LEMMA TakeStep ==
    ASSUME NEW f \in Flushes, flush \in [Flushes -> Flush], Good(flush[f]),
           TakeChunk(f)
    PROVE  /\ Turns(f)
           /\ flush[f].phase # "failed" /\ flush'[f].phase # "failed"
           /\ flush'[f].mode = flush[f].mode
           /\ flush'[f].engine = flush[f].engine
<1> DEFINE r == flush[f]
           wait == Left(f) = 0 /\ r.engine = "running"
           s == [r EXCEPT !.acc = @ + 1, !.draft = TRUE, !.answer = "none",
                          !.queued = Left(f), !.asked = wait]
<1>1. flush'[f] = s /\ flush' = [flush EXCEPT ![f] = s]
  BY DEF TakeChunk, Flush
<1>2. /\ r \in Flush /\ r.phase = "streaming"
      /\ r.answer = "chunk" \/ r.queued > 0
      /\ r.answer = "chunk" => Left(f) = r.queued
      /\ r.answer # "chunk" => Left(f) = r.queued - 1
      /\ wait \in BOOLEAN
  BY DEF TakeChunk, HasChunk, Left
<1>3. Good(s)
  <2> HIDE DEF s, r, wait
  <2>1. /\ Good(r)
        /\ wait = TRUE => Left(f) = 0 /\ r.engine = "running"
        /\ wait = FALSE => Left(f) # 0 \/ r.engine # "running"
    BY DEF r, wait
  <2> QED BY <1>2, <2>1, TakeOne DEF s
<1>4. /\ s.phase = r.phase /\ s.batch = r.batch /\ s.mode = r.mode
      /\ s.engine = r.engine
  BY <1>2 DEF Flush
<1> QED BY <1>1, <1>2, <1>3, <1>4 DEF Turns

LEMMA DraftStep ==
    ASSUME NEW f \in Flushes, flush \in [Flushes -> Flush], Good(flush[f]),
           DraftFires(f) \/ DraftAnswered(f)
    PROVE  /\ Turns(f)
           /\ flush'[f].phase = flush[f].phase
           /\ flush'[f].mode = flush[f].mode
           /\ flush'[f].engine = flush[f].engine
<1> DEFINE r == flush[f]
<1>0. r \in Flush /\ Good(r)
  OBVIOUS
<1>1. CASE DraftFires(f)
  <2> DEFINE s == [r EXCEPT !.draft = FALSE, !.drafts = @ \cup {r.acc}]
  <2>1. flush'[f] = s /\ flush' = [flush EXCEPT ![f] = s]
    BY <1>1 DEF DraftFires, Flush
  <2>2. s \in Flush /\ r.phase = "streaming"
    BY <1>0, <1>1 DEF DraftFires, Flush
  <2>3. /\ s.phase = r.phase /\ s.batch = r.batch /\ s.mode = r.mode
        /\ s.engine = r.engine /\ s.answer = r.answer /\ s.asked = r.asked
        /\ s.queued = r.queued /\ s.written = r.written /\ s.acc = r.acc
        /\ s.final = r.final /\ s.screen = r.screen
        /\ s.overlap = r.overlap
    BY <1>0 DEF Flush
  <2>4. Good(s)
    <3> HIDE DEF s, r
    <3> QED BY <1>0, <2>2, <2>3
           DEF Good, Hand, One, Stages, Ending, Awake
  <2> QED BY <2>1, <2>2, <2>3, <2>4 DEF Turns
<1>2. CASE DraftAnswered(f)
  <2>1. PICK text \in r.drafts, ok \in BOOLEAN :
          flush' = [flush EXCEPT ![f].drafts = @ \ {text},
                                 ![f].screen = IF ok THEN text ELSE @]
    BY <1>2 DEF DraftAnswered
  <2> DEFINE shown == IF ok THEN text ELSE r.screen
             s == [r EXCEPT !.drafts = @ \ {text}, !.screen = shown]
  <2>2. flush'[f] = s /\ flush' = [flush EXCEPT ![f] = s]
    BY <2>1 DEF Flush
  <2>3. shown \in Counts
    BY <1>0, <2>1 DEF Flush
  <2> HIDE DEF shown
  <2>4. s \in Flush
    BY <1>0, <2>3 DEF Flush
  <2>5. /\ s.phase = r.phase /\ s.batch = r.batch /\ s.mode = r.mode
        /\ s.engine = r.engine /\ s.answer = r.answer /\ s.asked = r.asked
        /\ s.queued = r.queued /\ s.written = r.written /\ s.acc = r.acc
        /\ s.final = r.final /\ s.drafts \subseteq r.drafts
        /\ s.overlap = r.overlap
    BY <1>0 DEF Flush
  <2>6. /\ r.drafts # {}
        /\ r.phase # "unused"
    BY <1>0, <2>1 DEF Good, Stages
  <2>7. Good(s)
    <3> HIDE DEF s, r
    <3>1. Hand(s) /\ Stages(s) /\ Awake(s)
      BY <1>0, <2>5, <2>6 DEF Good, Hand, One, Stages, Awake
    <3>2. Ending(s)
      BY <1>0, <2>5, <2>6 DEF Good, Ending
    <3> QED BY <2>4, <3>1, <3>2 DEF Good
  <2> QED BY <2>2, <2>5, <2>6, <2>7 DEF Turns
<1> QED BY <1>1, <1>2
LEMMA SpawnStep ==
    ASSUME NEW f \in Flushes, flush \in [Flushes -> Flush], Good(flush[f]),
           Spawn(f)
    PROVE  /\ Turns(f)
           /\ flush[f].phase = "placeholder"
           /\ flush[f].engine = "none" /\ flush[f].mode = "none"
           /\ flush'[f].phase = "streaming"
           /\ flush'[f].engine = "running"
           /\ ~established => flush'[f].mode = "create"
           /\ established => flush'[f].mode # "create"
<1> DEFINE r == flush[f]
           how == IF established THEN "resume" ELSE "create"
           s == [r EXCEPT !.phase = "streaming", !.engine = "running",
                          !.mode = how, !.asked = TRUE]
<1>0. r \in Flush /\ Good(r) /\ r.phase = "placeholder"
  BY DEF Spawn
<1>1. flush'[f] = s /\ flush' = [flush EXCEPT ![f] = s]
  BY DEF Spawn, Flush
<1>2. /\ how \in {"resume", "create"}
      /\ ~established => how = "create"
      /\ established => how # "create"
  OBVIOUS
<1> HIDE DEF how
<1>3. s \in Flush
  BY <1>0, <1>2 DEF Flush
<1>4. /\ s.phase = "streaming" /\ s.engine = "running" /\ s.mode = how
      /\ s.asked = TRUE /\ s.batch = r.batch /\ s.answer = r.answer
      /\ s.queued = r.queued /\ s.written = r.written /\ s.acc = r.acc
      /\ s.final = r.final
  BY <1>0 DEF Flush
<1>5. Good(s)
  <2> HIDE DEF s, r
  <2> QED BY <1>0, <1>3, <1>4
         DEF Good, Hand, One, Stages, Ending, Awake
<1>6. r.engine = "none" /\ r.mode = "none"
  BY <1>0 DEF Good, Stages
<1> QED BY <1>0, <1>1, <1>2, <1>4, <1>5, <1>6 DEF Turns

LEMMA WriteStep ==
    ASSUME NEW f \in Flushes, flush \in [Flushes -> Flush], Good(flush[f]),
           EngineWrites(f)
    PROVE  /\ Turns(f)
           /\ flush'[f].phase = flush[f].phase
           /\ flush'[f].mode = flush[f].mode
           /\ flush'[f].engine = flush[f].engine
<1> DEFINE r == flush[f]
           got == IF r.asked THEN "chunk" ELSE r.answer
           left == IF r.asked THEN r.queued ELSE r.queued + 1
           s == [r EXCEPT !.written = @ + 1, !.asked = FALSE, !.answer = got,
                          !.queued = left]
<1>0. /\ r \in Flush /\ Good(r) /\ r.engine = "running"
      /\ r.written < MaxChunks
  BY DEF EngineWrites
<1>1. flush'[f] = s /\ flush' = [flush EXCEPT ![f] = s]
  BY DEF EngineWrites, Flush
<1>2. /\ r.asked => got = "chunk" /\ left = r.queued
      /\ ~r.asked => got = r.answer /\ left = r.queued + 1
  OBVIOUS
<1> HIDE DEF got, left
<1>3. /\ r.acc \in Nat /\ r.queued \in Nat /\ r.written \in Nat
  BY <1>0, BoundsAssumption DEF Flush, Counts
<1>4. /\ r.written = r.acc + r.queued + One(r)
      /\ r.asked => r.answer = "none" /\ r.queued = 0
      /\ r.answer # "done"
  BY <1>0 DEF Good, Hand
<1>5. /\ left \in Nat /\ r.written + 1 \in Counts
      /\ r.written + 1 = r.acc + left + (IF got = "chunk" THEN 1 ELSE 0)
  <2>1. CASE r.asked
    BY <2>1, <1>0, <1>2, <1>3, <1>4, BoundsAssumption DEF One, Counts
  <2>2. CASE ~r.asked
    BY <2>2, <1>0, <1>2, <1>3, <1>4, BoundsAssumption DEF One, Counts
  <2> QED BY <2>1, <2>2
<1>6. got \in {"none", "chunk"} /\ left \in Counts
  <2>1. r.answer \in {"none", "chunk", "done"}
    BY <1>0 DEF Flush
  <2>2. left <= r.written + 1
    BY <1>3, <1>5
  <2>3. got \in {"none", "chunk"}
    BY <1>2, <1>4, <2>1
  <2> QED BY <1>5, <2>2, <2>3, <1>3, BoundsAssumption DEF Counts
<1>7. s \in Flush
  BY <1>0, <1>5, <1>6 DEF Flush
<1>8. /\ s.phase = r.phase /\ s.engine = r.engine /\ s.mode = r.mode
      /\ s.asked = FALSE /\ s.batch = r.batch /\ s.answer = got
      /\ s.queued = left /\ s.written = r.written + 1 /\ s.acc = r.acc
      /\ s.final = r.final
  BY <1>0 DEF Flush
<1>9. Hand(s)
  <2> HIDE DEF s, r
  <2> QED BY <1>5, <1>6, <1>8 DEF Hand, One
<1>10. r.phase \notin {"unused", "placeholder", "final", "done"}
  BY <1>0 DEF Good, Stages, Ending
<1>11. Stages(s) /\ Ending(s) /\ Awake(s)
  <2>1. got # "none" \/ left > 0
    <3>1. CASE r.asked
      BY <3>1, <1>2
    <3>2. CASE ~r.asked
      BY <3>2, <1>2, <1>3
    <3> QED BY <3>1, <3>2
  <2> HIDE DEF s, r
  <2> QED BY <1>0, <1>8, <1>10, <2>1 DEF Good, Stages, Ending, Awake
<1>12. Good(s)
  BY <1>7, <1>9, <1>11 DEF Good
<1> QED BY <1>1, <1>8, <1>10, <1>12 DEF Turns

LEMMA ExitStep ==
    ASSUME NEW f \in Flushes, flush \in [Flushes -> Flush], Good(flush[f]),
           EngineExits(f)
    PROVE  /\ Turns(f)
           /\ flush'[f].phase = flush[f].phase
           /\ flush'[f].mode = flush[f].mode
           /\ flush[f].engine = "running"
           /\ flush'[f].engine \in {"succeeded", "failed"}
           /\ ~transcript => flush'[f].engine = "failed"
<1> DEFINE r == flush[f]
<1>1. PICK how \in {"succeeded", "failed"} :
         /\ how = "succeeded" => transcript
         /\ flush' = [flush EXCEPT ![f] = NoticeExit(@, how)]
  BY DEF EngineExits
<1> DEFINE told == IF r.asked THEN "done" ELSE r.answer
           s == [r EXCEPT !.engine = how, !.asked = FALSE, !.answer = told]
<1>0. r \in Flush /\ Good(r) /\ r.engine = "running"
  BY DEF EngineExits
<1>2. flush'[f] = s /\ flush' = [flush EXCEPT ![f] = s]
  BY <1>1 DEF NoticeExit, Flush
<1>3. /\ r.asked => told = "done"
      /\ ~r.asked => told = r.answer
  OBVIOUS
<1> HIDE DEF told
<1>4. s \in Flush
  <2>1. told \in {"none", "chunk", "done"}
    BY <1>0, <1>3 DEF Flush
  <2> QED BY <1>0, <1>1, <2>1 DEF Flush
<1>5. /\ s.phase = r.phase /\ s.engine = how /\ s.mode = r.mode
      /\ s.asked = FALSE /\ s.batch = r.batch /\ s.answer = told
      /\ s.queued = r.queued /\ s.written = r.written /\ s.acc = r.acc
      /\ s.final = r.final
  BY <1>0 DEF Flush
<1>6. Hand(s)
  <2>1. Hand(r)
    BY <1>0 DEF Good
  <2> HIDE DEF s, r
  <2>2. CASE r.asked
    BY <1>1, <1>3, <1>5, <2>1, <2>2 DEF Hand, One
  <2>3. CASE ~r.asked
    BY <1>0, <1>1, <1>3, <1>5, <2>1, <2>3 DEF Hand, One
  <2> QED BY <2>2, <2>3
<1>7. r.phase \notin {"unused", "placeholder", "final", "done"}
  BY <1>0 DEF Good, Stages, Ending
<1>8. Stages(s) /\ Ending(s) /\ Awake(s)
  <2> HIDE DEF s, r
  <2> QED BY <1>0, <1>1, <1>5, <1>7 DEF Good, Stages, Ending, Awake
<1>9. Good(s)
  BY <1>4, <1>6, <1>8 DEF Good
<1> QED BY <1>0, <1>1, <1>2, <1>5, <1>7, <1>9 DEF Turns
LEMMA EndStep ==
    ASSUME NEW f \in Flushes, flush \in [Flushes -> Flush], Good(flush[f]),
           EndOfReply(f)
    PROVE  /\ Turns(f)
           /\ flush[f].phase # "failed" /\ flush'[f].phase # "failed"
           /\ flush'[f].mode = flush[f].mode
           /\ flush'[f].engine = flush[f].engine
<1> DEFINE r == flush[f]
           met == r.drafts # {}
           s == [r EXCEPT !.answer = "none", !.phase = "final",
                          !.draft = FALSE, !.overlap = met]
<1>0. /\ r \in Flush /\ Good(r) /\ r.phase = "streaming"
      /\ r.engine = "succeeded"
      /\ r.answer = "done" \/ (r.answer = "none" /\ r.queued = 0)
  BY DEF EndOfReply, AtEnd
<1>1. flush'[f] = s /\ flush' = [flush EXCEPT ![f] = s]
  BY DEF EndOfReply, SendFinal, Flush
<1>2. met \in BOOLEAN /\ (met = TRUE \/ r.drafts = {})
  OBVIOUS
<1> HIDE DEF met
<1>3. s \in Flush
  BY <1>0, <1>2 DEF Flush
<1>4. /\ s.phase = "final" /\ s.engine = r.engine /\ s.mode = r.mode
      /\ s.asked = r.asked /\ s.batch = r.batch /\ s.answer = "none"
      /\ s.queued = r.queued /\ s.written = r.written /\ s.acc = r.acc
      /\ s.final = r.final /\ s.drafts = r.drafts /\ s.overlap = met
  BY <1>0 DEF Flush
<1>5. /\ r.acc \in Nat /\ r.queued = 0 /\ r.written \in Nat
  BY <1>0, BoundsAssumption DEF Flush, Counts, Good, Hand
<1>6. r.acc = r.written
  BY <1>0, <1>5 DEF Good, Hand, One
<1>7. Good(s)
  <2> HIDE DEF s, r
  <2>1. Hand(s)
    BY <1>0, <1>4, <1>5, <1>6 DEF Good, Hand, One
  <2>2. Stages(s) /\ Awake(s)
    BY <1>4 DEF Stages, Awake
  <2>3. Ending(s)
    BY <1>0, <1>2, <1>4, <1>6 DEF Good, Ending
  <2> QED BY <1>3, <2>1, <2>2, <2>3 DEF Good
<1> QED BY <1>0, <1>1, <1>4, <1>7 DEF Turns

LEMMA FailStep ==
    ASSUME NEW f \in Flushes, flush \in [Flushes -> Flush], Good(flush[f]),
           PlaceholderFails(f) \/ ReplyFails(f)
    PROVE  /\ Turns(f)
           /\ flush'[f].phase = "failed"
           /\ flush'[f].mode = flush[f].mode
           /\ flush'[f].engine = flush[f].engine
           /\ window' = {} /\ flushing' = FALSE
<1> DEFINE r == flush[f]
<1>0. /\ r \in Flush /\ Good(r) /\ r.phase \in {"placeholder", "streaming"}
      /\ r.answer # "chunk"
  BY DEF PlaceholderFails, ReplyFails, AtEnd, Good, Stages
<1>1. PICK told \in {"none", r.answer} :
        flush' = [flush EXCEPT ![f] = [r EXCEPT !.answer = told,
                                         !.phase = "failed", !.draft = FALSE]]
  <2>1. CASE PlaceholderFails(f)
    <3>1. [r EXCEPT !.phase = "failed", !.draft = FALSE]
            = [r EXCEPT !.answer = r.answer, !.phase = "failed",
                        !.draft = FALSE]
      BY <1>0 DEF Flush
    <3> HIDE DEF r
    <3> QED BY <2>1, <3>1 DEF PlaceholderFails, Fail, r
  <2>2. CASE ReplyFails(f)
    <3>1. [[r EXCEPT !.answer = "none"] EXCEPT !.phase = "failed",
                                               !.draft = FALSE]
            = [r EXCEPT !.answer = "none", !.phase = "failed",
                        !.draft = FALSE]
      BY <1>0 DEF Flush
    <3> QED BY <2>2, <3>1 DEF ReplyFails, Fail
  <2> QED BY <2>1, <2>2
<1> DEFINE s == [r EXCEPT !.answer = told, !.phase = "failed",
                          !.draft = FALSE]
<1>2. /\ flush'[f] = s /\ flush' = [flush EXCEPT ![f] = s]
      /\ told \in {"none", "done"} /\ (told = "none" \/ told = r.answer)
  <2>1. r.answer \in {"none", "done"}
    BY <1>0 DEF Flush
  <2> QED BY <1>1, <2>1
<1>3. s \in Flush
  BY <1>0, <1>2 DEF Flush
<1>4. /\ s.phase = "failed" /\ s.engine = r.engine /\ s.mode = r.mode
      /\ s.asked = r.asked /\ s.batch = r.batch /\ s.answer = told
      /\ s.queued = r.queued /\ s.written = r.written /\ s.acc = r.acc
      /\ s.final = r.final
  BY <1>0 DEF Flush
<1>5. Good(s)
  <2> HIDE DEF s, r
  <2>1. Hand(s)
    BY <1>0, <1>2, <1>4 DEF Good, Hand, One
  <2>2. Stages(s) /\ Awake(s) /\ Ending(s)
    BY <1>0, <1>4 DEF Good, Stages, Awake, Ending
  <2> QED BY <1>3, <2>1, <2>2 DEF Good
<1>6. window' = {} /\ flushing' = FALSE
  BY DEF PlaceholderFails, ReplyFails, Fail
<1> QED BY <1>0, <1>2, <1>4, <1>5, <1>6 DEF Turns

LEMMA FinalStep ==
    ASSUME NEW f \in Flushes, flush \in [Flushes -> Flush], Good(flush[f]),
           FinalAnswered(f)
    PROVE  /\ Turns(f)
           /\ flush[f].phase # "failed" /\ flush'[f].phase # "failed"
           /\ flush'[f].mode = flush[f].mode
           /\ flush'[f].engine = flush[f].engine
<1> DEFINE r == flush[f]
<1>1. PICK ok \in BOOLEAN :
         flush' = [flush EXCEPT
             ![f].phase = "done",
             ![f].final = IF ok THEN "shown" ELSE "refused",
             ![f].screen = IF ok THEN flush[f].acc ELSE @]
  BY DEF FinalAnswered
<1> DEFINE how == IF ok THEN "shown" ELSE "refused"
           text == IF ok THEN r.acc ELSE r.screen
           s == [r EXCEPT !.phase = "done", !.final = how, !.screen = text]
<1>0. r \in Flush /\ Good(r) /\ r.phase = "final"
  BY DEF FinalAnswered
<1>2. flush'[f] = s /\ flush' = [flush EXCEPT ![f] = s]
  BY <1>1 DEF Flush
<1>3. /\ how \in {"shown", "refused"} /\ (how = "shown" => text = r.acc)
      /\ text \in Counts
  BY <1>0 DEF Flush
<1> HIDE DEF how, text
<1>4. s \in Flush
  BY <1>0, <1>3 DEF Flush
<1>5. /\ s.phase = "done" /\ s.engine = r.engine /\ s.mode = r.mode
      /\ s.asked = r.asked /\ s.batch = r.batch /\ s.answer = r.answer
      /\ s.queued = r.queued /\ s.written = r.written /\ s.acc = r.acc
      /\ s.final = how /\ s.drafts = r.drafts /\ s.overlap = r.overlap
      /\ s.screen = text
  BY <1>0 DEF Flush
<1>6. Good(s)
  <2> HIDE DEF s, r
  <2>1. Hand(s)
    BY <1>0, <1>5 DEF Good, Hand, One
  <2>2. Stages(s) /\ Awake(s) /\ Ending(s)
    BY <1>0, <1>3, <1>5 DEF Good, Stages, Awake, Ending
  <2> QED BY <1>4, <2>1, <2>2 DEF Good
<1> QED BY <1>0, <1>2, <1>5, <1>6 DEF Turns
(***************************************************************************)
(* The inductive invariant: the types, every flush is good, those that     *)
(* have not begun hold nothing, messages stand in the order of arrival,    *)
(* and the session is known as soon as a subprocess was spawned for it, so *)
(* that one subprocess at most is to create it.                            *)
(***************************************************************************)
Fresh ==
    \A f \in Flushes : f > begun => /\ flush[f].phase = "unused"
                                    /\ flush[f].batch = {}

Arrived ==
    /\ \A n \in window : n <= sent
    /\ \A f \in Flushes : \A m \in flush[f].batch : m <= sent

InOrder ==
    /\ \A f \in Flushes : \A m \in flush[f].batch, n \in window : m < n
    /\ \A f, g \in Flushes : f < g =>
          \A m \in flush[f].batch, n \in flush[g].batch : m < n

Chat ==
    /\ TypeOK /\ (\A f \in Flushes : Good(flush[f]))
    /\ Fresh /\ Arrived /\ InOrder /\ NothingLost /\ WindowHasTimer

Creator(f) == /\ flush[f].mode = "create"
              /\ flush[f].engine \in {"running", "failed"}

Known ==
    /\ transcript => established \/ late
    /\ \A f \in Flushes :
          flush[f].engine # "none" \/ flush[f].mode # "none" => established
    /\ \A f, g \in Flushes :
          flush[f].mode = "create" /\ flush[g].mode = "create" => f = g
    /\ established /\ ~transcript => \E f \in Flushes : Creator(f)

IInv == Chat /\ Known

USE DEF disk

LEMMA InitInv == Init => IInv
<1> SUFFICES ASSUME Init PROVE IInv
    OBVIOUS
<1> USE BoundsAssumption DEF BoundsAssumption, Init
<1>1. Unused \in Flush
  BY DEF Unused, Flush, Counts
<1>2. Good(Unused)
  BY <1>1 DEF Good, Hand, One, Stages, Ending, Awake, Unused
<1>3. \A f \in Flushes : flush[f] = Unused
  OBVIOUS
<1>4. TypeOK
  <2>1. flush \in [Flushes -> Flush]
    BY <1>1
  <2>2. timers \in Seq(Messages)
    OBVIOUS
  <2>3. /\ received \subseteq Messages /\ window \subseteq Messages
        /\ flushing \in BOOLEAN
    OBVIOUS
  <2>4. /\ begun \in 0..MaxFlushes
        /\ sent \in 0..MaxMessages /\ restarts \in 0..MaxRestarts
    OBVIOUS
  <2>5. /\ established \in BOOLEAN /\ transcript \in BOOLEAN
        /\ orphan \in BOOLEAN /\ late \in BOOLEAN
    OBVIOUS
  <2> HIDE DEF Init
  <2> QED BY <2>1, <2>2, <2>3, <2>4, <2>5 DEF TypeOK
<1>5. \A f \in Flushes : /\ Good(flush[f])
                         /\ flush[f].phase = "unused"
                         /\ flush[f].batch = {} /\ flush[f].engine = "none"
                         /\ flush[f].mode = "none"
  BY <1>2, <1>3 DEF Unused
<1> HIDE DEF Init
<1>6. window = {} /\ received = {} /\ established = transcript
  BY DEF Init
<1>7. Fresh /\ Arrived /\ InOrder /\ NothingLost /\ WindowHasTimer
  BY <1>5, <1>6 DEF Fresh, Arrived, InOrder, NothingLost, WindowHasTimer
<1>8. Known
  BY <1>5, <1>6 DEF Known
<1> QED BY <1>4, <1>5, <1>7, <1>8 DEF IInv, Chat

(***************************************************************************)
(* A step on the flush f leaves the messages where they are, or deletes    *)
(* the window when the flush fails.                                        *)
(***************************************************************************)
LEMMA ChatKept ==
    ASSUME Chat, NEW f \in Flushes, Turns(f),
           UNCHANGED <<received, sent, timers, begun, restarts>>,
           flushing' \in BOOLEAN, established' \in BOOLEAN,
           transcript' \in BOOLEAN, orphan' \in BOOLEAN, late' \in BOOLEAN,
           \/ /\ window' = window
              /\ flush'[f].phase = "failed" <=> flush[f].phase = "failed"
           \/ window' = {} /\ flush'[f].phase = "failed"
    PROVE  Chat'
<1> USE DEF Chat
<1>1. /\ flush' \in [Flushes -> Flush]
      /\ \A g \in Flushes : Good(flush'[g])
      /\ \A g \in Flushes : flush'[g].batch = flush[g].batch
      /\ \A g \in Flushes \ {f} : flush'[g] = flush[g]
  BY DEF Turns, TypeOK, Good
<1>2. window' \subseteq window
  OBVIOUS
<1>3. TypeOK'
  <2>1. TypeOK
    OBVIOUS
  <2>2. /\ received' = received /\ timers' = timers /\ begun' = begun
        /\ sent' = sent /\ restarts' = restarts
    OBVIOUS
  <2> HIDE DEF Chat
  <2> QED BY <1>1, <1>2, <2>1, <2>2 DEF TypeOK
<1>4. Fresh'
  BY <1>1 DEF Fresh, Turns
<1>5. Arrived' /\ InOrder'
  BY <1>1, <1>2 DEF Arrived, InOrder
<1>6. NothingLost'
  <2>1. UNION {flush'[g].batch : g \in Flushes}
          = UNION {flush[g].batch : g \in Flushes}
    BY <1>1
  <2>2. CASE flush'[f].phase = "failed"
    BY <2>2 DEF NothingLost
  <2>3. CASE flush'[f].phase # "failed"
    BY <1>1, <2>1, <2>3 DEF NothingLost
  <2> QED BY <2>2, <2>3
<1>7. WindowHasTimer'
  BY DEF WindowHasTimer
<1> QED BY <1>1, <1>3, <1>4, <1>5, <1>6, <1>7

(***************************************************************************)
(* A step that leaves the session and the modes and states of the          *)
(* subprocesses as they are.                                               *)
(***************************************************************************)
LEMMA KnownKept ==
    ASSUME Known, UNCHANGED session,
           \A f \in Flushes : /\ flush'[f].mode = flush[f].mode
                              /\ flush'[f].engine = flush[f].engine
    PROVE  Known'
BY DEF Known, Creator, session

LEMMA ReceiveInv == ASSUME IInv, Receive PROVE IInv'
<1> USE BoundsAssumption DEF IInv, Chat
<1>1. /\ sent \in 0..MaxMessages /\ sent' = sent + 1
      /\ sent' \in Messages /\ window' = window \cup {sent'}
      /\ received' = received \cup {sent'} /\ flush' = flush
      /\ begun' = begun /\ restarts' = restarts /\ flushing' = flushing
      /\ established' = established /\ UNCHANGED disk
      /\ window \subseteq Messages
  BY DEF Receive, TypeOK, Messages, session
<1>2. timers' = IF window = {} THEN Append(timers, sent') ELSE timers
  BY DEF Receive, Arm
<1>3. TypeOK'
  <2>1. timers' \in Seq(Messages)
    BY <1>1, <1>2 DEF TypeOK
  <2>2. sent' \in 0..MaxMessages
    BY <1>1 DEF Messages
  <2> QED BY <1>1, <2>1, <2>2 DEF TypeOK
<1>4. Fresh' /\ (\A f \in Flushes : Good(flush'[f]))
  BY <1>1 DEF Fresh
<1>5. \A n \in window : n < sent' /\ n <= sent' /\ n \in Int
  <2>1. /\ sent \in Int /\ sent' = sent + 1
        /\ \A n \in window : n \in Int /\ n <= sent
    <3>1. sent \in Int /\ sent' = sent + 1 /\ window \subseteq 1..MaxMessages
      BY <1>1 DEF Messages
    <3>2. \A n \in window : n <= sent
      BY DEF Arrived
    <3> QED BY ONLY <3>1, <3>2, BoundsAssumption
  <2> QED BY ONLY <2>1
<1>6. Arrived' /\ InOrder'
  <2>1. \A f \in Flushes : flush[f].batch \subseteq Messages
    BY DEF TypeOK, Flush
  <2>2. \A f \in Flushes : \A m \in flush[f].batch : m < sent' /\ m \in Int
    <3>1. /\ sent \in Int /\ sent' = sent + 1
          /\ \A f \in Flushes : \A m \in flush[f].batch : m \in Int /\ m <= sent
      <4>1. /\ sent \in Int /\ sent' = sent + 1
            /\ \A f \in Flushes : flush[f].batch \subseteq 1..MaxMessages
        BY <1>1, <2>1 DEF Messages
      <4>2. \A f \in Flushes : \A m \in flush[f].batch : m <= sent
        BY DEF Arrived
      <4> QED BY ONLY <4>1, <4>2, BoundsAssumption
    <3> QED BY ONLY <3>1
  <2>3. Arrived'
    BY <1>1, <1>5, <2>2 DEF Arrived, Messages
  <2>4. InOrder'
    BY <1>1, <1>5, <2>2 DEF InOrder
  <2> QED BY <2>3, <2>4
<1>7. NothingLost'
  BY <1>1 DEF NothingLost
<1>8. WindowHasTimer'
  <2>1. CASE window = {}
    <3>1. /\ timers' = Append(timers, sent') /\ window' = {sent'}
          /\ sent' \in Int
      BY <1>1, <1>2, <2>1 DEF Messages
    <3>2. /\ Len(timers) + 1 \in DOMAIN timers'
          /\ timers'[Len(timers) + 1] = sent'
      BY <1>1, <3>1 DEF TypeOK
    <3> QED BY <3>1, <3>2 DEF WindowHasTimer
  <2>2. CASE window # {}
    <3>1. PICK i \in DOMAIN timers : /\ \A n \in window : timers[i] <= n
                                     /\ timers[i] \in window
      BY <2>2 DEF WindowHasTimer
    <3>2. timers[i] <= sent'
      BY <1>5, <3>1
    <3>3. timers' = timers
      BY <1>2, <2>2
    <3> QED BY <1>1, <3>1, <3>2, <3>3 DEF WindowHasTimer
  <2> QED BY <2>1, <2>2
<1>9. Known'
  BY <1>1, KnownKept DEF session
<1> QED BY <1>3, <1>4, <1>6, <1>7, <1>8, <1>9
LEMMA WindowClosesInv == ASSUME IInv, WindowCloses PROVE IInv'
<1> USE DEF IInv, Chat
<1>1. /\ timers # <<>> /\ timers' = Tail(timers) /\ window' = {}
      /\ received' = received /\ sent' = sent /\ restarts' = restarts
      /\ established' = established /\ UNCHANGED disk
      /\ flushing' \in BOOLEAN
  BY DEF WindowCloses, ForgetEntry, chat, session
<1>2. timers' \in Seq(Messages)
  BY <1>1 DEF TypeOK
<1>3. WindowHasTimer'
  BY <1>1 DEF WindowHasTimer
<1>4. CASE window = {}
  <2>1. flush' = flush /\ begun' = begun
    BY <1>4 DEF WindowCloses
  <2>2. TypeOK'
    <3>1. TypeOK
      OBVIOUS
    <3> HIDE DEF Chat
    <3> QED BY <3>1, <1>1, <1>2, <2>1 DEF TypeOK
  <2>3. Fresh' /\ Arrived' /\ InOrder' /\ NothingLost'
    BY <1>1, <1>4, <2>1 DEF Fresh, Arrived, InOrder, NothingLost
  <2>4. Known'
    BY <1>1, <2>1, KnownKept DEF session
  <2> QED BY <1>3, <2>1, <2>2, <2>3, <2>4
<1>5. CASE window # {}
  <2> DEFINE b == begun + 1
             s == [flush[b] EXCEPT !.phase = "placeholder", !.batch = window]
  <2>1. begun \in 0..MaxFlushes /\ begun < MaxFlushes /\ begun' = b
    BY <1>5 DEF WindowCloses, TypeOK
  <2>2. b \in Flushes /\ b > begun /\ begun' \in 0..MaxFlushes
    <3> HIDE DEF Chat, IInv
    <3> QED BY <2>1, BoundsAssumption DEF BoundsAssumption, Flushes
  <2>3. flush \in [Flushes -> Flush] /\ window \subseteq Messages
    BY DEF TypeOK
  <2>4. flush' = [flush EXCEPT ![b] = s]
    BY <1>5, <2>1, <2>2, <2>3 DEF WindowCloses, Flush
  <2>5. /\ flush[b].phase = "unused" /\ flush[b].batch = {}
        /\ Good(flush[b])
    BY <2>2 DEF Fresh
  <2>6. Good(s)
    <3> DEFINE r == flush[b]
    <3>1. r \in Flush /\ Good(r) /\ r.phase = "unused"
      BY <2>2, <2>3, <2>5
    <3>2. s \in Flush
      BY <2>3, <3>1 DEF Flush
    <3>3. /\ s.phase = "placeholder" /\ s.mode = r.mode
          /\ s.engine = r.engine /\ s.answer = r.answer
          /\ s.asked = r.asked /\ s.queued = r.queued
          /\ s.written = r.written /\ s.acc = r.acc
          /\ s.drafts = r.drafts /\ s.final = r.final
      BY <3>1 DEF Flush
    <3> HIDE DEF s, r, Chat, IInv
    <3> QED BY <3>1, <3>2, <3>3
           DEF Good, Hand, One, Stages, Ending, Awake
  <2>7. /\ s.batch = window /\ s.phase = "placeholder"
        /\ s.mode = flush[b].mode /\ s.engine = flush[b].engine
    BY <2>2, <2>3 DEF Flush
  <2> HIDE DEF s
  <2>8. /\ flush' \in [Flushes -> Flush]
        /\ \A g \in Flushes : Good(flush'[g])
        /\ \A g \in Flushes \ {b} : flush'[g] = flush[g]
        /\ flush'[b] = s
    BY <2>2, <2>3, <2>4, <2>6 DEF Good
  <2>9. TypeOK'
    <3>1. TypeOK
      OBVIOUS
    <3> HIDE DEF Chat, b
    <3> QED BY <3>1, <2>2, <1>1, <1>2, <2>8 DEF TypeOK
  <2>10. Fresh'
    BY <2>1, <2>2, <2>8 DEF Fresh, Flushes
  <2>11. Arrived'
    BY <1>1, <2>2, <2>7, <2>8 DEF Arrived
  <2>12. InOrder'
    <3>1. ASSUME NEW f \in Flushes, NEW g \in Flushes, f < g,
                 NEW m \in flush'[f].batch, NEW n \in flush'[g].batch
          PROVE  m < n
      <4>1. CASE g = b
        <5>1. f # b /\ flush'[f] = flush[f] /\ n \in window
          BY <3>1, <4>1, <2>7, <2>8 DEF Flushes
        <5> QED BY <3>1, <5>1 DEF InOrder
      <4>2. CASE g # b /\ f = b
        <5>1. g > begun
          BY <3>1, <4>2, <2>1 DEF Flushes
        <5>2. flush'[g].batch = {}
          BY <4>2, <5>1, <2>8 DEF Fresh
        <5> QED BY <3>1, <5>2
      <4>3. CASE g # b /\ f # b
        BY <3>1, <4>3, <2>8 DEF InOrder
      <4> QED BY <4>1, <4>2, <4>3
    <3> QED BY <1>1, <3>1 DEF InOrder
  <2>13. NothingLost'
    <3>1. ASSUME \A f \in Flushes : flush'[f].phase # "failed"
          PROVE  received' = window' \cup UNION {flush'[f].batch : f \in Flushes}
      <4>1. \A f \in Flushes : flush[f].phase # "failed"
        BY <3>1, <2>5, <2>8
      <4>2. received = window \cup UNION {flush[f].batch : f \in Flushes}
        BY <4>1 DEF NothingLost
      <4>3. /\ \A f \in Flushes : flush[f].batch \subseteq flush'[f].batch
            /\ \A f \in Flushes : flush'[f].batch \subseteq
                                        flush[f].batch \cup window
            /\ window \subseteq flush'[b].batch
        BY <2>5, <2>7, <2>8
      <4> HIDE DEF Chat, IInv
      <4> QED BY <1>1, <2>2, <4>2, <4>3
    <3> QED BY <3>1 DEF NothingLost
  <2>14. Known'
    <3>1. \A f \in Flushes : /\ flush'[f].mode = flush[f].mode
                             /\ flush'[f].engine = flush[f].engine
      BY <2>7, <2>8
    <3> QED BY <1>1, <3>1, KnownKept DEF session
  <2> QED BY <1>3, <2>8, <2>9, <2>10, <2>11, <2>12, <2>13, <2>14
<1> QED BY <1>4, <1>5

LEMMA RestartInv == ASSUME IInv, Restart PROVE IInv'
<1> USE DEF IInv, Chat
<1>1. /\ received' = {} /\ window' = {} /\ timers' = <<>>
      /\ flushing' = FALSE /\ begun' = 0 /\ established' = transcript
      /\ transcript' = transcript /\ sent' = sent
      /\ orphan' \in BOOLEAN /\ late' = FALSE
      /\ restarts < MaxRestarts /\ restarts' = restarts + 1
      /\ flush' = [f \in Flushes |-> Unused]
  BY DEF Restart, Seed
<1>2. Unused \in Flush
  BY BoundsAssumption DEF Unused, Flush, Counts
<1>3. Good(Unused)
  BY <1>2 DEF Good, Hand, One, Stages, Ending, Awake, Unused
<1>4. \A f \in Flushes : /\ flush'[f] = Unused /\ Good(flush'[f])
                         /\ flush'[f].phase = "unused"
                         /\ flush'[f].batch = {}
                         /\ flush'[f].engine = "none"
                         /\ flush'[f].mode = "none"
  BY <1>1, <1>3 DEF Unused
<1>5. TypeOK'
  <2>1. flush' \in [Flushes -> Flush]
    BY <1>1, <1>2
  <2>2. /\ begun' \in 0..MaxFlushes /\ restarts' \in 0..MaxRestarts
        /\ sent' \in 0..MaxMessages
    BY <1>1, BoundsAssumption DEF TypeOK
  <2>3. /\ established' \in BOOLEAN /\ transcript' \in BOOLEAN
        /\ orphan' \in BOOLEAN /\ late' \in BOOLEAN
    BY <1>1 DEF TypeOK
  <2>4. timers' \in Seq(Messages)
    BY <1>1
  <2> QED BY <1>1, <2>1, <2>2, <2>3, <2>4 DEF TypeOK
<1>6. Fresh' /\ Arrived' /\ InOrder' /\ NothingLost' /\ WindowHasTimer'
  BY <1>1, <1>4 DEF Fresh, Arrived, InOrder, NothingLost, WindowHasTimer
<1>7. Known'
  BY <1>1, <1>4 DEF Known
<1> QED BY <1>4, <1>5, <1>6, <1>7
(***************************************************************************)
(* A step on a flush that leaves its subprocess, its mode and the session  *)
(* as they are.                                                            *)
(***************************************************************************)
LEMMA QuietInv ==
    ASSUME IInv, NEW f \in Flushes,
           \/ TakeChunk(f) \/ DraftFires(f) \/ DraftAnswered(f)
           \/ EngineWrites(f) \/ EndOfReply(f) \/ FinalAnswered(f)
           \/ PlaceholderFails(f) \/ ReplyFails(f)
    PROVE  IInv'
<1>1. Chat /\ Known /\ TypeOK /\ flush \in [Flushes -> Flush]
      /\ Good(flush[f])
  BY DEF IInv, Chat, TypeOK
<1>2. /\ Turns(f)
      /\ flush'[f].mode = flush[f].mode
      /\ flush'[f].engine = flush[f].engine
      /\ \/ flush'[f].phase = "failed" /\ window' = {} /\ flushing' = FALSE
         \/ flush'[f].phase = flush[f].phase
         \/ flush'[f].phase # "failed" /\ flush[f].phase # "failed"
  BY <1>1, TakeStep, DraftStep, WriteStep, EndStep, FinalStep, FailStep
<1>3. /\ UNCHANGED <<received, sent, timers, begun, restarts, session>>
      /\ UNCHANGED window \/ PlaceholderFails(f) \/ ReplyFails(f)
      /\ flushing' \in BOOLEAN
  BY <1>1 DEF TakeChunk, DraftFires, DraftAnswered, EngineWrites, EndOfReply,
         FinalAnswered, PlaceholderFails, ReplyFails, Fail, EndFlush, chat,
         debounce, TypeOK
<1>4. \/ /\ window' = window
         /\ flush'[f].phase = "failed" <=> flush[f].phase = "failed"
      \/ window' = {} /\ flush'[f].phase = "failed"
  <2>1. CASE PlaceholderFails(f) \/ ReplyFails(f)
    BY <1>1, <2>1, FailStep
  <2>2. CASE window' = window
    <3>1. CASE flush'[f].phase = "failed" /\ window' = {}
      BY <3>1
    <3>2. CASE ~(flush'[f].phase = "failed" /\ window' = {})
      BY <1>2, <2>2, <3>2
    <3> QED BY <3>1, <3>2
  <2> QED BY <1>3, <2>1, <2>2
<1>5. Chat'
  <2>1. /\ established' \in BOOLEAN /\ transcript' \in BOOLEAN
        /\ orphan' \in BOOLEAN /\ late' \in BOOLEAN
    BY <1>1, <1>3 DEF TypeOK, session
  <2> QED BY <1>1, <1>2, <1>3, <1>4, <2>1, ChatKept
<1>6. Known'
  <2>1. \A g \in Flushes : /\ flush'[g].mode = flush[g].mode
                           /\ flush'[g].engine = flush[g].engine
    BY <1>1, <1>2 DEF Turns
  <2> QED BY <1>1, <1>3, <2>1, KnownKept
<1> QED BY <1>5, <1>6 DEF IInv

(***************************************************************************)
(* The steps that change what is known of the session.                     *)
(***************************************************************************)
LEMMA SpawnInv == ASSUME IInv, NEW f \in Flushes, Spawn(f) PROVE IInv'
<1>1. Chat /\ Known /\ TypeOK /\ flush \in [Flushes -> Flush]
      /\ Good(flush[f])
  BY DEF IInv, Chat, TypeOK
<1>2. /\ UNCHANGED <<received, sent, timers, begun, restarts>>
      /\ flushing' = flushing /\ window' = window
      /\ established' = TRUE /\ UNCHANGED disk
  BY DEF Spawn, MarkWhenSpawned, chat, debounce
<1>3. /\ Turns(f) /\ flush[f].phase # "failed" /\ flush'[f].phase # "failed"
      /\ flush[f].engine = "none" /\ flush'[f].engine = "running"
      /\ ~established => flush'[f].mode = "create"
      /\ established => flush'[f].mode # "create"
  BY <1>1, SpawnStep
<1>4. Chat'
  <2>1. flushing' \in BOOLEAN /\ established' \in BOOLEAN
        /\ transcript' \in BOOLEAN
        /\ orphan' \in BOOLEAN /\ late' \in BOOLEAN
    BY <1>1, <1>2 DEF TypeOK
  <2> QED BY <1>1, <1>2, <1>3, <2>1, ChatKept
<1>5. Known'
  <2>1. \A g \in Flushes \ {f} : flush'[g] = flush[g]
    BY <1>1, <1>3 DEF Turns
  <2>2. ASSUME ~transcript
        PROVE  \E g \in Flushes : Creator(g)'
    <3>1. CASE established
      <4>1. PICK g \in Flushes : Creator(g)
        BY <1>1, <2>2, <3>1 DEF Known
      <4>2. g # f
        BY <1>3, <4>1 DEF Creator
      <4> QED BY <2>1, <4>1, <4>2 DEF Creator
    <3>2. CASE ~established
      BY <1>3, <3>2 DEF Creator
    <3> QED BY <3>1, <3>2
  <2>3. ASSUME NEW g \in Flushes, NEW h \in Flushes,
               flush'[g].mode = "create", flush'[h].mode = "create"
        PROVE  g = h
    <3>1. CASE established
      BY <1>1, <1>3, <2>1, <2>3, <3>1 DEF Known
    <3>2. CASE ~established
      <4>1. \A e \in Flushes : flush[e].mode = "none"
        BY <1>1, <3>2 DEF Known
      <4> QED BY <2>1, <2>3, <4>1
    <3> QED BY <3>1, <3>2
  <2> QED BY <1>2, <2>2, <2>3 DEF Known
<1> QED BY <1>4, <1>5 DEF IInv

LEMMA ExitInv == ASSUME IInv, NEW f \in Flushes, EngineExits(f) PROVE IInv'
<1>1. Chat /\ Known /\ TypeOK /\ flush \in [Flushes -> Flush]
      /\ Good(flush[f])
  BY DEF IInv, Chat, TypeOK
<1>2. /\ UNCHANGED <<received, sent, timers, begun, restarts, session>>
      /\ flushing' = flushing /\ window' = window
      /\ established' = established /\ UNCHANGED disk
  BY DEF EngineExits, chat, debounce, session
<1>3. /\ Turns(f) /\ flush'[f].phase = flush[f].phase
      /\ flush[f].engine = "running"
      /\ flush'[f].engine \in {"succeeded", "failed"}
      /\ flush'[f].mode = flush[f].mode
      /\ ~transcript => flush'[f].engine = "failed"
  BY <1>1, ExitStep
<1>4. Chat'
  <2>1. flushing' \in BOOLEAN /\ established' \in BOOLEAN
        /\ transcript' \in BOOLEAN
        /\ orphan' \in BOOLEAN /\ late' \in BOOLEAN
    BY <1>1, <1>2 DEF TypeOK
  <2> QED BY <1>1, <1>2, <1>3, <2>1, ChatKept
<1>5. Known'
  <2>1. \A g \in Flushes \ {f} : flush'[g] = flush[g]
    BY <1>1, <1>3 DEF Turns
  <2>2. ASSUME established, ~transcript
        PROVE  \E g \in Flushes : Creator(g)'
    <3>1. PICK g \in Flushes : Creator(g)
      BY <1>1, <2>2 DEF Known
    <3>2. Creator(g)'
      BY <1>3, <2>1, <2>2, <3>1 DEF Creator
    <3> QED BY <3>2
  <2>3. \A g \in Flushes :
          flush'[g].engine # "none" \/ flush'[g].mode # "none" => established
    BY <1>1, <1>3, <2>1 DEF Known
  <2>4. \A g \in Flushes : flush'[g].mode = flush[g].mode
    BY <1>3, <2>1
  <2> QED BY <1>1, <1>2, <2>2, <2>3, <2>4 DEF Known
<1> QED BY <1>4, <1>5 DEF IInv

LEMMA DiskInv ==
    ASSUME IInv,
           OrphanSaves \/ OrphanExits \/ \E f \in Flushes : EngineSaves(f)
    PROVE  IInv'
<1>1. /\ UNCHANGED <<received, sent, window, timers, flushing, flush, begun,
                     established, restarts>>
      /\ transcript' \in BOOLEAN /\ orphan' \in BOOLEAN /\ late' \in BOOLEAN
      /\ transcript => transcript'
  BY DEF OrphanSaves, OrphanExits, EngineSaves, chat, debounce, IInv, Chat,
         TypeOK
<1>2. transcript' => established \/ late'
  BY DEF OrphanSaves, OrphanExits, EngineSaves, IInv, Known
<1>3. Chat'
  <2>1. Chat
    BY DEF IInv
  <2>2. TypeOK'
    BY <1>1, <2>1 DEF Chat, TypeOK
  <2>3. /\ \A g \in Flushes : Good(flush'[g])
        /\ Fresh' /\ Arrived' /\ InOrder' /\ NothingLost' /\ WindowHasTimer'
    BY <1>1, <2>1 DEF Chat, Fresh, Arrived, InOrder, NothingLost,
           WindowHasTimer
  <2> QED BY <2>2, <2>3 DEF Chat
<1>4. Known'
  BY <1>1, <1>2 DEF IInv, Known, Creator
<1> QED BY <1>3, <1>4 DEF IInv

LEMMA Stutter == ASSUME IInv, UNCHANGED vars PROVE IInv'
<1>1. Chat'
  BY DEF IInv, Chat, TypeOK, Fresh, Arrived, InOrder, NothingLost,
         WindowHasTimer, vars
<1>2. Known'
  BY DEF IInv, Known, Creator, vars
<1> QED BY <1>1, <1>2 DEF IInv

THEOREM Invariance == Spec => []IInv
<1>1. ASSUME IInv, [Next]_vars PROVE IInv'
  <2>1. CASE Receive
    BY <1>1, <2>1, ReceiveInv
  <2>2. CASE WindowCloses
    BY <1>1, <2>2, WindowClosesInv
  <2>3. CASE Restart
    BY <1>1, <2>3, RestartInv
  <2>4. ASSUME NEW f \in Flushes,
               Engine(f) \/ Reply(f) \/ DraftFires(f) \/ DraftAnswered(f)
        PROVE  IInv'
    BY <1>1, <2>4, QuietInv, SpawnInv, ExitInv, DiskInv DEF Engine, Reply
  <2>5. CASE UNCHANGED vars
    BY <1>1, <2>5, Stutter
  <2>6. CASE OrphanSaves \/ OrphanExits
    BY <1>1, <2>6, DiskInv
  <2> QED BY <1>1, <2>1, <2>2, <2>3, <2>4, <2>5, <2>6 DEF Next
<1> QED BY <1>1, InitInv, PTL DEF Spec

(***************************************************************************)
(* Every variable keeps its type: what a flush has in hand never exceeds   *)
(* what its subprocess may print.                                          *)
(***************************************************************************)
THEOREM TypeCorrect == Spec => []TypeOK
<1>1. IInv => TypeOK
  BY DEF IInv, Chat
<1> QED BY <1>1, Invariance, PTL

(***************************************************************************)
(* Without a failed flush every message taken by debounceMessage is in the *)
(* window or in a batch.                                                   *)
(***************************************************************************)
THEOREM NothingLostCorrect == Spec => []NothingLost
<1>1. IInv => NothingLost
  BY DEF IInv, Chat
<1> QED BY <1>1, Invariance, PTL

(***************************************************************************)
(* Batches are disjoint and in the order of arrival, whatever timers the   *)
(* error path of flushPending leaves behind.                               *)
(***************************************************************************)
THEOREM ServedOnceInOrderCorrect == Spec => []ServedOnceInOrder
<1>1. IInv => ServedOnceInOrder
  BY DEF IInv, Chat, InOrder, ServedOnceInOrder
<1> QED BY <1>1, Invariance, PTL

(***************************************************************************)
(* An open window has the timer that closes it.                            *)
(***************************************************************************)
THEOREM WindowHasTimerCorrect == Spec => []WindowHasTimer
<1>1. IInv => WindowHasTimer
  BY DEF IInv, Chat
<1> QED BY <1>1, Invariance, PTL

(***************************************************************************)
(* The gateway knows the session that is on disk, and takes one for        *)
(* established only with a subprocess that creates it, or has failed to.   *)
(***************************************************************************)
THEOREM SessionTrackedCorrect == Spec => []SessionTracked
<1>1. IInv => SessionTracked
  BY DEF IInv, Known, Creator, SessionTracked
<1> QED BY <1>1, Invariance, PTL

(***************************************************************************)
(* A final edit that was accepted, and met no draft edit in flight, shows  *)
(* the whole reply.                                                        *)
(***************************************************************************)
THEOREM ReplyCompleteCorrect == Spec => []ReplyComplete
<1>1. IInv => ReplyComplete
  BY DEF IInv, Chat, Good, Ending, ReplyComplete
<1> QED BY <1>1, Invariance, PTL

(***************************************************************************)
(* A generator waits only while its subprocess runs and nothing is queued. *)
(***************************************************************************)
THEOREM NeverAsleepCorrect == Spec => []NeverAsleep
<1>1. IInv => NeverAsleep
  <2> SUFFICES ASSUME IInv, NEW f \in Flushes, flush[f].phase = "streaming"
               PROVE  \/ Ready(f)
                      \/ /\ flush[f].asked /\ flush[f].engine = "running"
                         /\ flush[f].queued = 0
    BY DEF NeverAsleep
  <2>1. /\ Good(flush[f]) /\ flush[f].queued \in Nat
        /\ flush[f].answer \in {"none", "chunk", "done"}
    BY BoundsAssumption DEF IInv, Chat, TypeOK, Flush, Counts
  <2>2. CASE flush[f].asked
    BY <2>1, <2>2 DEF Good, Hand
  <2>3. CASE ~flush[f].asked
    BY <2>1, <2>3 DEF Good, Awake, Ready, HasChunk, AtEnd
  <2> QED BY <2>2, <2>3
<1> QED BY <1>1, Invariance, PTL
=============================================================================
