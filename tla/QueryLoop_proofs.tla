-------------------------- MODULE QueryLoop_proofs --------------------------
(***************************************************************************)
(* The safety of the query loop, for any set of blocks and any limits.     *)
(***************************************************************************)
EXTENDS QueryLoop, TLAPS

(***************************************************************************)
(* What every iteration keeps: it begins clean; what the consumer waits    *)
(* for is among the blocks of the current answer; the executor knows all   *)
(* of them unless the turn was interrupted; an error is withheld only      *)
(* while it is the last message; and the two counts of failed compactions  *)
(* agree.                                                                  *)
(***************************************************************************)
Clean ==
    phase = "setup" =>
        /\ open = {} /\ blocks = {} /\ tracked = {}
        /\ ~hidden /\ ~fallen /\ last = "nothing"

Waiting ==
    /\ phase \in {"stream", "ended"} => open \subseteq blocks
    /\ phase = "settled" => open = {}

Known ==
    streaming =>
        /\ phase = "stream" => aborted \/ tracked = blocks
        /\ phase = "ended" => tracked = blocks

Withheld == phase # "over" /\ hidden => last = "max_output_tokens"

SameCount == failedInRow = failures

IInv ==
    /\ TypeOK /\ Clean /\ Waiting /\ Known /\ Withheld /\ SameCount
    /\ ToolUsesAnswered

USE DEF kept

LEMMA InitInv == Init => IInv
<1> SUFFICES ASSUME Init PROVE IInv
    OBVIOUS
<1> USE QueryAssumption DEF QueryAssumption, Init
<1>1. budget \in [on : BOOLEAN, checks : 0..ManyChecks, small : BOOLEAN,
                  spent : 0..BudgetSteps]
  OBVIOUS
<1>2. TypeOK
  <2>1. /\ phase \in {"setup", "stream", "ended", "settled", "over"}
        /\ reason \in Reasons \cup {"none"}
        /\ phase = "over" <=> reason # "none"
    BY DEF Reasons
  <2>2. /\ aborted \in BOOLEAN /\ streaming \in BOOLEAN
        /\ override \in BOOLEAN /\ stopHookActive \in BOOLEAN
        /\ fallen \in BOOLEAN /\ hidden \in BOOLEAN
        /\ limited \in BOOLEAN /\ cut \in Nat
        /\ prevent \in BOOLEAN /\ asked \in BOOLEAN
    OBVIOUS
  <2>3. /\ turnCount \in 1..MaxTurns /\ nudges \in 0..MaxNudges
        /\ recoveryCount \in 0..RecoveryLimit
        /\ failures \in 0..FailureLimit /\ failedInRow \in Nat
    OBVIOUS
  <2>4. /\ wire \in {"open", "closed"}
        /\ last \in {"nothing", "answer", "max_output_tokens", "error"}
        /\ blocks \subseteq Blocks /\ tracked \subseteq blocks
        /\ open \subseteq Blocks
    OBVIOUS
  <2> HIDE DEF Init
  <2> QED BY <1>1, <2>1, <2>2, <2>3, <2>4 DEF TypeOK
<1>3. /\ Clean /\ Waiting /\ Known /\ Withheld /\ SameCount
      /\ ToolUsesAnswered
  BY DEF Clean, Waiting, Known, Withheld, SameCount, ToolUsesAnswered
<1> QED BY <1>2, <1>3 DEF IInv

(***************************************************************************)
(* The steps before the request.                                           *)
(***************************************************************************)
LEMMA SetupStep ==
    ASSUME IInv, CompactSucceeds \/ CompactFails \/ NoCompact
    PROVE  IInv'
  BY QueryAssumption DEF QueryAssumption, IInv, TypeOK, Clean, Waiting,
     Known, Withheld, SameCount, ToolUsesAnswered, Reasons,
     CompactSucceeds, CompactFails, NoCompact, MayCompact, AfterFailure,
     Return, counters, compaction, answer

(***************************************************************************)
(* The steps of the stream.                                                *)
(***************************************************************************)
LEMMA MessageStep ==
    ASSUME IInv, NEW new \in SUBSET Blocks, Message(new)
    PROVE  IInv'
<1> USE QueryAssumption DEF QueryAssumption, IInv, Yield, Collected,
        InExecutor, StillOpen
<1>1. UNCHANGED <<phase, reason, aborted, kept, counters, compaction,
                  budget, fallen, prevent>>
  BY DEF StreamUnchanged, Message
<1>2. /\ blocks' \subseteq Blocks /\ tracked' \subseteq blocks'
      /\ open' \subseteq blocks' /\ asked' \in BOOLEAN
      /\ wire' \in {"open", "closed"} /\ hidden' \in BOOLEAN
      /\ last' \in {"nothing", "answer", "max_output_tokens", "error"}
  BY DEF TypeOK, Waiting, Message
<1>3. TypeOK'
  BY <1>1, <1>2 DEF TypeOK, Reasons, counters, compaction
<1>4. Known'
  BY <1>1 DEF Known, TypeOK, Waiting, Message
<1>5. Withheld'
  BY <1>1 DEF Withheld, TypeOK, Message
<1>6. /\ Clean' /\ Waiting' /\ SameCount'
      /\ ToolUsesAnswered'
  BY <1>1, <1>2 DEF Clean, Waiting, SameCount, ToolUsesAnswered, compaction, Message
<1> QED BY <1>3, <1>4, <1>5, <1>6

LEMMA NewsStep ==
    ASSUME IInv, Notice \/ Truncated \/ ApiError
    PROVE  IInv'
<1> USE QueryAssumption DEF QueryAssumption, IInv, Yield, Collected,
        InExecutor, StillOpen
<1>1. UNCHANGED <<phase, reason, aborted, kept, counters, compaction,
                  budget, fallen, prevent>>
  BY DEF StreamUnchanged, Notice, Truncated, ApiError
<1>2. /\ blocks' \subseteq Blocks /\ tracked' \subseteq blocks'
      /\ open' \subseteq blocks' /\ asked' \in BOOLEAN
      /\ wire' \in {"open", "closed"} /\ hidden' \in BOOLEAN
      /\ last' \in {"nothing", "answer", "max_output_tokens", "error"}
  BY DEF TypeOK, Waiting, Notice, Truncated, ApiError
<1>3. TypeOK'
  BY <1>1, <1>2 DEF TypeOK, Reasons, counters, compaction
<1>4. Known'
  BY <1>1 DEF Known, TypeOK, Waiting, Notice, Truncated, ApiError
<1>5. Withheld'
  BY <1>1 DEF Withheld, TypeOK, Notice, Truncated, ApiError
<1>6. /\ Clean' /\ Waiting' /\ SameCount'
      /\ ToolUsesAnswered'
  BY <1>1, <1>2 DEF Clean, Waiting, SameCount, ToolUsesAnswered, compaction, Notice,
     Truncated, ApiError
<1> QED BY <1>3, <1>4, <1>5, <1>6

LEMMA BrokenStreamStep ==
    ASSUME IInv,
           StreamFallback \/ ModelFallback \/ StreamThrows \/ ImageError
    PROVE  IInv'
<1>1. CASE StreamFallback
  <2>1. TypeOK'
    BY <1>1 DEF IInv, TypeOK, Reasons, StreamFallback,
       counters, compaction, answer
  <2>2. /\ Clean' /\ Waiting' /\ Known' /\ Withheld' /\ SameCount'
        /\ ToolUsesAnswered'
    BY <1>1 DEF IInv, TypeOK, Clean, Waiting, Known, Withheld, SameCount,
       ToolUsesAnswered, StreamFallback,
       compaction, answer
  <2> QED BY <2>1, <2>2 DEF IInv
<1>2. CASE ModelFallback
  <2>1. TypeOK'
    BY <1>2 DEF IInv, TypeOK, Reasons, ModelFallback,
       MissingAnswered, counters, compaction, answer
  <2>2. /\ Clean' /\ Waiting' /\ Known' /\ Withheld' /\ SameCount'
        /\ ToolUsesAnswered'
    BY <1>2 DEF IInv, TypeOK, Clean, Waiting, Known, Withheld, SameCount,
       ToolUsesAnswered, ModelFallback,
       MissingAnswered, compaction, answer
  <2> QED BY <2>1, <2>2 DEF IInv
<1>3. CASE StreamThrows
  <2>1. TypeOK'
    BY <1>3 DEF IInv, TypeOK, Reasons, StreamThrows,
       MissingAnswered, Return, counters, compaction, answer
  <2>2. /\ Clean' /\ Waiting' /\ Known' /\ Withheld' /\ SameCount'
        /\ ToolUsesAnswered'
    BY <1>3 DEF IInv, TypeOK, Clean, Waiting, Known, Withheld, SameCount,
       ToolUsesAnswered, StreamThrows, Unanswerable,
       MissingAnswered, Return, compaction, answer
  <2> QED BY <2>1, <2>2 DEF IInv
<1>4. CASE ImageError
  <2>1. /\ phase' = "over" /\ reason' = "image_error" /\ open' \subseteq open
        /\ UNCHANGED <<aborted, kept, counters, compaction, budget,
                       answer, asked>>
    BY <1>4 DEF ImageError, Return
  <2>2. TypeOK'
    BY <2>1 DEF IInv, TypeOK, Reasons, counters, compaction, answer
  <2>3. /\ Clean' /\ Waiting' /\ Known' /\ Withheld' /\ SameCount'
        /\ ToolUsesAnswered'
    BY <2>1 DEF IInv, TypeOK, Clean, Waiting, Known, Withheld, SameCount,
       ToolUsesAnswered, compaction
  <2> QED BY <2>2, <2>3 DEF IInv
<1> QED BY <1>1, <1>2, <1>3, <1>4

LEMMA EndStreamStep ==
    ASSUME IInv, EndStream
    PROVE  IInv'
  BY QueryAssumption DEF QueryAssumption, IInv, TypeOK, Clean, Waiting,
     Known, Withheld, SameCount, ToolUsesAnswered, Reasons,
     EndStream, Drained, Unanswerable, Return, counters, compaction, answer

(***************************************************************************)
(* The tracker of the token budget.                                        *)
(***************************************************************************)
LEMMA BudgetType ==
    ASSUME TypeOK, NEW small \in BOOLEAN, BudgetContinues(small)
    PROVE  budget' \in [on : BOOLEAN, checks : 0..ManyChecks,
                        small : BOOLEAN, spent : 0..BudgetSteps]
<1> USE QueryAssumption DEF QueryAssumption
<1>1. /\ budget \in [on : BOOLEAN, checks : 0..ManyChecks, small : BOOLEAN,
                     spent : 0..BudgetSteps]
      /\ budget.checks \in 0..ManyChecks /\ budget.spent \in 0..BudgetSteps
  BY DEF TypeOK
<1>2. Spent(small) \in 0..BudgetSteps
  BY <1>1 DEF BudgetContinues, BudgetAllows, Spent
<1>3. Least(budget.checks + 1, ManyChecks) \in 0..ManyChecks
  BY <1>1 DEF Least
<1>4. budget' = [budget EXCEPT
                   !.checks = Least(budget.checks + 1, ManyChecks),
                   !.small = small, !.spent = Spent(small)]
  BY DEF BudgetContinues
<1> QED BY <1>1, <1>2, <1>3, <1>4

(***************************************************************************)
(* The counters that the continue sites set.                               *)
(***************************************************************************)
LEMMA CounterType ==
    ASSUME TypeOK,
           \/ Escalate \/ Recover \/ HooksBlock \/ NextTurn
           \/ \E small \in BOOLEAN : BudgetContinues(small) \/ Nudge(small)
    PROVE  /\ turnCount' \in 1..MaxTurns /\ nudges' \in 0..MaxNudges
           /\ recoveryCount' \in 0..RecoveryLimit
           /\ override' \in BOOLEAN /\ stopHookActive' \in BOOLEAN
<1>1. ASSUME Escalate
      PROVE  UNCHANGED <<turnCount, nudges, recoveryCount>>
  BY <1>1 DEF Escalate
<1>2. ASSUME Recover
      PROVE  /\ UNCHANGED <<turnCount, nudges>>
             /\ recoveryCount < RecoveryLimit
             /\ recoveryCount' = recoveryCount + 1
  BY <1>2 DEF Recover, Attempted
<1>3. ASSUME HooksBlock \/ \E small \in BOOLEAN : BudgetContinues(small)
      PROVE  UNCHANGED <<turnCount, nudges>> /\ recoveryCount' = 0
  BY <1>3 DEF HooksBlock, BudgetContinues
<1>4. ASSUME NextTurn
      PROVE  /\ nudges' = 0 /\ recoveryCount' = 0
             /\ turnCount' = Least(turnCount + 1, MaxTurns)
  BY <1>4 DEF NextTurn
<1>5. ASSUME \E small \in BOOLEAN : Nudge(small)
      PROVE  /\ UNCHANGED turnCount /\ recoveryCount' = 0
             /\ nudges < MaxNudges /\ nudges' = nudges + 1
  BY <1>5 DEF Nudge
<1>6. override' \in BOOLEAN /\ stopHookActive' \in BOOLEAN
  BY DEF TypeOK, Escalate, Recover, HooksBlock, NextTurn, BudgetContinues,
         Nudge
<1>7. /\ turnCount \in 1..MaxTurns /\ nudges \in 0..MaxNudges
      /\ recoveryCount \in 0..RecoveryLimit
  BY DEF TypeOK
<1> QED
  BY <1>1, <1>2, <1>3, <1>4, <1>5, <1>6, <1>7, QueryAssumption
     DEF QueryAssumption, Least

(***************************************************************************)
(* The steps that go on with another iteration.                            *)
(***************************************************************************)
LEMMA AgainStep ==
    ASSUME IInv,
           \/ Escalate \/ Recover \/ HooksBlock \/ NextTurn
           \/ \E small \in BOOLEAN : BudgetContinues(small) \/ Nudge(small)
    PROVE  IInv'
<1> USE QueryAssumption DEF QueryAssumption
<1>1. /\ Again /\ UNCHANGED compaction /\ phase \in {"ended", "settled"}
      /\ open = {}
  BY DEF IInv, TypeOK, Waiting, Escalate, Recover, HooksBlock, NextTurn,
         BudgetContinues, Nudge, Pass, Ended
<1>2. /\ turnCount' \in 1..MaxTurns /\ nudges' \in 0..MaxNudges
      /\ recoveryCount' \in 0..RecoveryLimit
      /\ override' \in BOOLEAN /\ stopHookActive' \in BOOLEAN
  BY CounterType DEF IInv
<1>3. budget' \in [on : BOOLEAN, checks : 0..ManyChecks, small : BOOLEAN,
                   spent : 0..BudgetSteps]
  <2>1. CASE \E small \in BOOLEAN : BudgetContinues(small)
    BY <2>1, BudgetType DEF IInv
  <2>2. CASE ~ \E small \in BOOLEAN : BudgetContinues(small)
    BY <2>2 DEF IInv, TypeOK, Escalate, Recover, HooksBlock, NextTurn, Nudge
  <2> QED BY <2>1, <2>2
<1>4. TypeOK'
  BY <1>1, <1>2, <1>3 DEF IInv, TypeOK, Again, compaction, Reasons
<1>5. /\ Clean' /\ Waiting' /\ Known' /\ Withheld' /\ SameCount'
      /\ ToolUsesAnswered'
  BY <1>1 DEF IInv, Again, Clean, Waiting, Known, Withheld, SameCount,
     ToolUsesAnswered, compaction
<1> QED BY <1>4, <1>5 DEF IInv

(***************************************************************************)
(* The returns, and the tools.                                             *)
(***************************************************************************)
LEMMA ReturnStep ==
    ASSUME IInv,
           \/ GiveUp \/ ErrorEnds \/ HooksPrevent \/ ToolsEnd
           \/ \E small \in BOOLEAN : Complete(small)
    PROVE  IInv'
<1>1. /\ phase' = "over" /\ reason' \in Reasons /\ open = {}
      /\ UNCHANGED <<aborted, kept, counters, compaction, budget, wire,
                     fallen, last, blocks, tracked, prevent, open, asked>>
  BY DEF IInv, TypeOK, Waiting, GiveUp, ErrorEnds, HooksPrevent, ToolsEnd,
         Complete, Pass, Ended, Return, Reasons, answer
<1>2. hidden' \in BOOLEAN
  BY DEF IInv, TypeOK, GiveUp, ErrorEnds, HooksPrevent, ToolsEnd, Complete,
         answer
<1>3. TypeOK'
  BY <1>1, <1>2 DEF IInv, TypeOK, Reasons, counters, compaction
<1>4. /\ Clean' /\ Waiting' /\ Known' /\ Withheld' /\ SameCount'
      /\ ToolUsesAnswered'
  BY <1>1, <1>2 DEF IInv, Clean, Waiting, Known, Withheld, SameCount,
     ToolUsesAnswered, compaction
<1> QED BY <1>3, <1>4 DEF IInv

LEMMA ToolsStep ==
    ASSUME IInv, RunTools \/ ResultThrows
    PROVE  IInv'
<1>1. /\ phase' \in {"settled", "over"}
      /\ phase' = "settled" => reason' = "none" /\ open' = {}
      /\ phase' = "over" => reason' = "threw"
      /\ open' \subseteq open /\ prevent' \in BOOLEAN /\ asked' \in BOOLEAN
      /\ UNCHANGED <<aborted, kept, counters, compaction, budget, wire,
                     fallen, last, hidden, blocks, tracked>>
  <2>1. CASE RunTools
    BY <2>1 DEF IInv, TypeOK, Waiting, Known, RunTools, Drained
  <2>2. CASE ResultThrows
    BY <2>2 DEF IInv, TypeOK, ResultThrows, Return, answer
  <2> QED BY <2>1, <2>2
<1>2. TypeOK'
  BY <1>1 DEF IInv, TypeOK, Reasons, counters, compaction
<1>3. /\ Clean' /\ Waiting' /\ Known' /\ Withheld' /\ SameCount'
      /\ ToolUsesAnswered'
  BY <1>1, RunTools \/ ResultThrows DEF IInv, TypeOK, Clean, Waiting, Known,
     Withheld, SameCount, ToolUsesAnswered, compaction,
     RunTools, ResultThrows
<1> QED BY <1>2, <1>3 DEF IInv

LEMMA AbortStep ==
    ASSUME IInv, Abort
    PROVE  IInv'
  BY DEF IInv, TypeOK, Clean, Waiting, Known, Withheld, SameCount,
     ToolUsesAnswered, Reasons, Abort, counters, compaction,
     answer

LEMMA StepInv == IInv /\ [Next]_vars => IInv'
<1> SUFFICES ASSUME IInv, [Next]_vars PROVE IInv'
    OBVIOUS
<1>1. CASE Next
  BY <1>1, SetupStep, MessageStep, NewsStep, BrokenStreamStep,
     EndStreamStep, AgainStep, ReturnStep, ToolsStep, AbortStep
     DEF Next, Progress, Stream, HooksPass
<1>2. CASE UNCHANGED vars
  BY <1>2 DEF vars, counters, compaction, answer, IInv, TypeOK, Clean,
     Waiting, Known, Withheld, SameCount, ToolUsesAnswered,
     Unanswerable
<1> QED BY <1>1, <1>2

THEOREM Invariance == Spec => []IInv
  BY InitInv, StepInv, PTL DEF Spec

(***************************************************************************)
(* The variables of the query loop keep their types.                       *)
(***************************************************************************)
THEOREM TypeCorrect == Spec => []TypeOK
<1>1. IInv => TypeOK
  BY DEF IInv
<1> QED BY <1>1, Invariance, PTL

(***************************************************************************)
(* Each tool_use is answered before the next request and at the return,    *)
(* for any number of blocks in an answer.                                  *)
(***************************************************************************)
THEOREM ToolUsesAnsweredCorrect == Spec => []ToolUsesAnswered
<1>1. IInv => ToolUsesAnswered
  BY DEF IInv
<1> QED BY <1>1, Invariance, PTL

(***************************************************************************)
(* The circuit breaker of compaction holds for any limits: each continue   *)
(* site carries the count of failures on.                                  *)
(***************************************************************************)
THEOREM BreakerHoldsCorrect == Spec => []BreakerHolds
<1>1. IInv => BreakerHolds
  BY DEF IInv, TypeOK, SameCount, BreakerHolds
<1> QED BY <1>1, Invariance, PTL

(***************************************************************************)
(* The answers cut off in a row, against the counters: a recovery for each *)
(* but those asked again with the larger limit, of which one fits before   *)
(* each recovery.  Tools are run for an answer with blocks only.           *)
(***************************************************************************)
Tries == 2 * recoveryCount + (IF override THEN 1 ELSE 0)

Matched ==
    /\ phase \in {"setup", "stream"} => recoveryCount <= cut /\ cut <= Tries
    /\ phase = "ended" =>
           IF CutOff THEN recoveryCount < cut /\ cut <= Tries + 1
                     ELSE cut = 0
    /\ phase = "settled" => cut = 0 /\ blocks # {}

LEMMA TriesBound ==
    ASSUME TypeOK
    PROVE  /\ Tries \in Nat /\ Tries <= 2 * RecoveryLimit + 1
           /\ cut \in Nat /\ recoveryCount \in Nat
           /\ RecoveryLimit \in Nat
  BY QueryAssumption DEF QueryAssumption, TypeOK, Tries

LEMMA MatchedInit == Init => Matched /\ CutOffRecovered
  BY QueryAssumption DEF QueryAssumption, Init, Matched, Tries,
     CutOffRecovered, CutOff, Broken

(***************************************************************************)
(* Before the stream ends nothing moves that the counts depend on, and a   *)
(* return is one that breaks the stream off or comes before it.            *)
(***************************************************************************)
LEMMA MatchedBefore ==
    ASSUME IInv, Matched, CutOffRecovered,
           \/ Abort \/ CompactSucceeds \/ CompactFails \/ NoCompact \/ Stream
    PROVE  Matched' /\ CutOffRecovered'
<1>1. UNCHANGED <<cut, recoveryCount, override>>
  BY DEF Abort, CompactSucceeds, CompactFails, NoCompact, Stream, Message,
     Notice, Truncated, ApiError, StreamFallback, ModelFallback,
     StreamThrows, ImageError, StreamUnchanged, counters
<1>2. CASE Abort
  BY <1>1, <1>2 DEF Abort, Matched, Tries, CutOffRecovered, CutOff, Broken,
     answer
<1>3. CASE CompactSucceeds \/ CompactFails \/ NoCompact
  BY <1>1, <1>3 DEF CompactSucceeds, CompactFails, NoCompact, Return, IInv,
     Clean, Matched, Tries, CutOffRecovered, CutOff, Broken, answer
<1>4. CASE Stream
  <2>1. phase = "stream" /\ (phase' = "stream" \/
                             (phase' = "over" /\ reason' \in Broken))
    BY <1>4 DEF Stream, Message, Notice, Truncated, ApiError,
       StreamFallback, ModelFallback, StreamThrows, ImageError,
       StreamUnchanged, Return, Broken
  <2> QED BY <1>1, <2>1 DEF Matched, Tries, CutOffRecovered
<1> QED BY <1>2, <1>3, <1>4

LEMMA MatchedEnd ==
    ASSUME IInv, Matched, CutOffRecovered, EndStream
    PROVE  Matched' /\ CutOffRecovered'
<1>1. /\ phase = "stream" /\ cut' = IF CutOff THEN cut + 1 ELSE 0
      /\ UNCHANGED <<recoveryCount, override, last, blocks, RecoveryLimit>>
      /\ \/ phase' = "ended"
         \/ phase' = "over" /\ reason' \in Broken
  BY DEF EndStream, Return, Broken, counters, answer
<1>2. Tries' = Tries /\ (CutOff' <=> CutOff)
  BY <1>1 DEF Tries, CutOff
<1>3. recoveryCount <= cut /\ cut <= Tries
  BY <1>1 DEF Matched
<1>4. cut' <= 2 * (RecoveryLimit + 1)
  BY <1>1, <1>3, TriesBound DEF IInv
<1>5. Matched'
  BY <1>1, <1>2, <1>3, TriesBound DEF IInv, Matched
<1> QED BY <1>1, <1>4, <1>5 DEF CutOffRecovered

(***************************************************************************)
(* The ways on: a truncated answer is asked for again, with the larger     *)
(* limit or counted as a recovery; the others find the count at zero.      *)
(***************************************************************************)
LEMMA MatchedAgain ==
    ASSUME IInv, Matched, CutOffRecovered,
           \/ Escalate \/ Recover \/ HooksBlock \/ NextTurn
           \/ \E small \in BOOLEAN : BudgetContinues(small) \/ Nudge(small)
    PROVE  Matched' /\ CutOffRecovered'
<1>1. phase' = "setup" /\ cut' = cut
  BY DEF Escalate, Recover, HooksBlock, NextTurn, BudgetContinues, Nudge,
     Again
<1>2. recoveryCount' <= cut /\ cut <= Tries'
  <2>1. CASE Escalate
    <3>1. /\ ~override /\ override' = TRUE /\ recoveryCount' = recoveryCount
          /\ recoveryCount < cut /\ cut <= Tries + 1
      BY <2>1 DEF Escalate, Ended, Matched, CutOff
    <3> QED BY <3>1, TriesBound DEF IInv, Tries
  <2>2. CASE Recover
    <3>1. /\ override' = FALSE /\ recoveryCount' = recoveryCount + 1
          /\ recoveryCount < cut /\ cut <= Tries + 1
      BY <2>2 DEF Recover, Attempted, Ended, Matched, CutOff
    <3>2. Tries <= 2 * recoveryCount + 1
      BY TriesBound DEF IInv, Tries
    <3> QED BY <3>1, <3>2, TriesBound DEF IInv, Tries
  <2>3. CASE HooksBlock \/ NextTurn
             \/ \E small \in BOOLEAN : BudgetContinues(small) \/ Nudge(small)
    <3>1. cut = 0 /\ recoveryCount' = 0 /\ override' = FALSE
      BY <2>3, "nothing" # "max_output_tokens",
         "answer" # "max_output_tokens"
         DEF HooksBlock, NextTurn, BudgetContinues, Nudge, Evaluable, Pass,
             Ended, Matched, CutOff
    <3> QED BY <3>1 DEF Tries
  <2> QED BY <2>1, <2>2, <2>3
<1>3. Matched'
  BY <1>1, <1>2 DEF Matched
<1>4. CutOffRecovered'
  BY <1>1 DEF CutOffRecovered, IInv, Again, Escalate, Recover, HooksBlock,
     NextTurn, BudgetContinues, Nudge
<1> QED BY <1>3, <1>4

LEMMA MatchedReturn ==
    ASSUME IInv, Matched, CutOffRecovered,
           \/ GiveUp \/ ErrorEnds \/ HooksPrevent \/ ToolsEnd \/ ResultThrows
           \/ \E small \in BOOLEAN : Complete(small)
    PROVE  Matched' /\ CutOffRecovered'
<1>1. phase' = "over" /\ UNCHANGED <<cut, last, blocks>>
  BY DEF GiveUp, ErrorEnds, HooksPrevent, ToolsEnd, ResultThrows, Complete,
     Return, answer
<1>2. cut > RecoveryLimit \/ ~CutOff'
  <2>1. CASE GiveUp
    BY <2>1, TriesBound DEF GiveUp, Ended, Matched, CutOff, IInv
  <2>2. CASE ToolsEnd
    BY <1>1, <2>2 DEF ToolsEnd, Matched, CutOff
  <2>3. CASE ResultThrows
    BY <1>1, <2>3 DEF ResultThrows, IInv, Waiting, CutOff
  <2>4. CASE ErrorEnds \/ HooksPrevent
             \/ \E small \in BOOLEAN : Complete(small)
    BY <1>1, <2>4 DEF ErrorEnds, HooksPrevent, Complete, Pass, Ended,
       Evaluable, CutOff
  <2> QED BY <2>1, <2>2, <2>3, <2>4
<1>3. ~hidden' \/ blocks # {}
  <2>1. CASE GiveUp
    BY <2>1 DEF GiveUp
  <2>2. CASE ToolsEnd
    BY <2>2 DEF ToolsEnd, Matched
  <2>3. CASE ResultThrows
    BY <2>3 DEF ResultThrows, IInv, Waiting
  <2>4. CASE ErrorEnds \/ HooksPrevent
             \/ \E small \in BOOLEAN : Complete(small)
    <3>1. last # "max_output_tokens" /\ phase # "over" /\ hidden' = hidden
      BY <2>4 DEF ErrorEnds, HooksPrevent, Evaluable, Complete, Pass, Ended,
         answer
    <3> QED BY <3>1 DEF IInv, TypeOK, Withheld
  <2> QED BY <2>1, <2>2, <2>3, <2>4
<1>4. hidden' \in BOOLEAN
  BY DEF IInv, TypeOK, GiveUp, ErrorEnds, HooksPrevent, ToolsEnd,
     ResultThrows, Complete, answer
<1>5. CutOff' => blocks = {}
  BY <1>1 DEF CutOff
<1>6. CutOffRecovered'
  BY <1>1, <1>2, <1>3, <1>4, <1>5 DEF CutOffRecovered
<1>7. Matched'
  BY <1>1 DEF Matched
<1> QED BY <1>6, <1>7

LEMMA MatchedStep ==
    IInv /\ Matched /\ CutOffRecovered /\ [Next]_vars =>
        Matched' /\ CutOffRecovered'
<1> SUFFICES ASSUME IInv, Matched, CutOffRecovered, [Next]_vars
             PROVE  Matched' /\ CutOffRecovered'
    OBVIOUS
<1>1. CASE RunTools
  <2>1. blocks # {} /\ phase = "ended" /\ phase' = "settled"
        /\ UNCHANGED <<cut, blocks>>
    BY <1>1 DEF RunTools
  <2>2. cut = 0
    BY <2>1 DEF Matched, CutOff
  <2>3. Matched'
    BY <2>1, <2>2 DEF Matched
  <2>4. CutOffRecovered'
    BY <2>1 DEF CutOffRecovered
  <2> QED BY <2>3, <2>4
<1>2. CASE UNCHANGED vars
  BY <1>2 DEF vars, counters, answer, Matched, Tries, CutOff,
     CutOffRecovered, Broken
<1>3. CASE Next /\ ~RunTools
  BY <1>3, MatchedBefore, MatchedEnd, MatchedAgain, MatchedReturn
     DEF Next, Progress, HooksPass
<1> QED BY <1>1, <1>2, <1>3

(***************************************************************************)
(* A truncated answer is asked for again, RecoveryLimit times at least and *)
(* a bounded number of times at most, before its error is shown; for any   *)
(* limit, through every way on.                                            *)
(***************************************************************************)
THEOREM CutOffRecoveredCorrect == Spec => []CutOffRecovered
<1>1. Spec => [](Matched /\ CutOffRecovered)
  BY MatchedInit, MatchedStep, Invariance, PTL DEF Spec
<1> QED BY <1>1, PTL
=============================================================================
