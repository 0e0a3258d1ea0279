----------------------------- MODULE QueryLoop -----------------------------
(***************************************************************************)
(* The agent loop of one query (query.ts, queryLoop): every iteration may  *)
(* compact the conversation, sends one request, streams its answer while   *)
(* tools already run, and then either returns or carries a new State into  *)
(* the next iteration.  There is one action per return and per continue    *)
(* site, so what each site resets, keeps or counts is what the code writes *)
(* there.  The server, the hooks, the tools and the user are inputs.       *)
(*                                                                         *)
(* The branches behind REACTIVE_COMPACT and CONTEXT_COLLAPSE are not here: *)
(* scripts/build.ts replaces both by false, and their modules are absent   *)
(* or stubs.                                                               *)
(***************************************************************************)
EXTENDS Naturals, FiniteSets

CONSTANTS
    Blocks,        \* the tool_use blocks of one answer
    MaxTurns,      \* params.maxTurns, where one is given
    RecoveryLimit, \* MAX_OUTPUT_TOKENS_RECOVERY_LIMIT
    MaxNudges,     \* MAX_CONTINUATION_NUDGES
    FailureLimit,  \* MAX_CONSECUTIVE_AUTOCOMPACT_FAILURES
    ManyChecks,    \* continuations after which small gains stop the budget
    BudgetSteps    \* bound on the token budget, in large gains

ASSUME QueryAssumption ==
    /\ IsFiniteSet(Blocks)
    /\ MaxTurns \in Nat \ {0} /\ FailureLimit \in Nat \ {0}
    /\ RecoveryLimit \in Nat /\ MaxNudges \in Nat
    /\ ManyChecks \in Nat /\ BudgetSteps \in Nat

VARIABLES
    phase,          \* where the iteration stands
    reason,         \* the reason it returned with
    aborted,        \* the abort signal of the turn
    streaming,      \* config.gates.streamingToolExecution, read once
    limited,        \* params.maxTurns is given
    turnCount, recoveryCount, override, nudges, stopHookActive,
    failures,       \* autoCompactTracking.consecutiveFailures
    budget,         \* the token budget and its tracker
    wire,           \* what callModel may still yield
    fallen,         \* streamingFallbackOccured
    last,           \* the kind of the last assistant message
    hidden,         \* it is an error withheld from the consumer
    blocks,         \* toolUseBlocks
    tracked,        \* those given to the current tool executor
    prevent,        \* shouldPreventContinuation
    open,           \* history: tool_use blocks the consumer has seen without
                    \* a tool_result or a tombstone
    failedInRow,    \* history: compactions that failed since one succeeded
    asked,          \* history: a hook of a tool asked to stop
    cut             \* history: answers in a row, the last included, that
                    \* were cut off and brought no tool_use

counters == <<turnCount, recoveryCount, override, nudges, stopHookActive>>
compaction == <<failures, failedInRow>>
answer == <<wire, fallen, last, hidden, blocks, tracked, prevent>>
kept == <<streaming, limited, cut>>
vars == <<phase, reason, aborted, kept, counters, compaction, budget,
          answer, open, asked>>

-----------------------------------------------------------------------------
Init ==
    /\ phase = "setup" /\ reason = "none" /\ aborted = FALSE
    /\ streaming \in BOOLEAN /\ limited \in BOOLEAN
    /\ turnCount = 1 /\ recoveryCount = 0 /\ override \in BOOLEAN
    /\ nudges = 0 /\ stopHookActive = FALSE
    /\ failures = 0 /\ failedInRow = 0
    /\ \E given \in BOOLEAN :
         budget = [on |-> given, checks |-> 0, small |-> FALSE, spent |-> 0]
    /\ wire = "open" /\ fallen = FALSE /\ last = "nothing"
    /\ hidden = FALSE /\ blocks = {} /\ tracked = {} /\ prevent = FALSE
    /\ open = {} /\ asked = FALSE /\ cut = 0

(***************************************************************************)
(* A return.                                                               *)
(***************************************************************************)
Return(r) == phase' = "over" /\ reason' = r

(***************************************************************************)
(* The state of an iteration that is local to it, when the next begins.    *)
(***************************************************************************)
Again ==
    /\ phase' = "setup"
    /\ wire' = "open" /\ fallen' = FALSE /\ last' = "nothing"
    /\ hidden' = FALSE /\ blocks' = {} /\ tracked' = {} /\ prevent' = FALSE
    /\ UNCHANGED <<reason, aborted, kept, asked, open>>

(***************************************************************************)
(* The user interrupts, at any await.                                      *)
(***************************************************************************)
Abort ==
    /\ phase # "over" /\ ~aborted
    /\ aborted' = TRUE
    /\ UNCHANGED <<phase, reason, kept, counters, compaction, budget,
                   answer, open, asked>>

-----------------------------------------------------------------------------
(***************************************************************************)
(* Before the request: autocompact succeeds, fails or does not run, which  *)
(* its circuit breaker enforces after FailureLimit failures; then the      *)
(* checks that return instead of sending what is too large.  A failed      *)
(* attempt leaves the context above the threshold.                         *)
(***************************************************************************)
MayCompact == failures < FailureLimit

AfterFailureUncounted == failures

AfterFailure == failures + 1

CompactSucceeds ==
    /\ phase = "setup" /\ MayCompact
    /\ failures' = 0 /\ failedInRow' = 0
    /\ phase' = "stream"
    /\ UNCHANGED <<reason, aborted, kept, counters, budget, answer,
                   open, asked>>

CompactFails ==
    /\ phase = "setup" /\ MayCompact
    /\ failures' = AfterFailure /\ failedInRow' = failedInRow + 1
    /\ \/ phase' = "stream" /\ failures' < FailureLimit /\ UNCHANGED reason
       \/ Return("blocking_limit")
    /\ UNCHANGED <<aborted, kept, counters, budget, answer, open, asked>>

NoCompact ==
    /\ phase = "setup"
    /\ \/ phase' = "stream" /\ UNCHANGED reason
       \/ Return("blocking_limit")
    /\ UNCHANGED <<aborted, kept, counters, compaction, budget, answer,
                   open, asked>>

-----------------------------------------------------------------------------
(***************************************************************************)
(* callModel yields something: an assistant message with the blocks new,   *)
(* or an event or notice.  The first thing after a streaming fallback      *)
(* tombstones what the broken stream had brought and replaces the tool     *)
(* executor.  Then the results that are ready are yielded; those of hooks  *)
(* that ask to stop are yielded like any other.                            *)
(***************************************************************************)
Collected == IF fallen THEN {} ELSE blocks

InExecutorEver == tracked

InExecutor == IF fallen THEN {} ELSE tracked

StillOpen == IF fallen THEN open \ blocks ELSE open

Yield(new) ==
    LET live == streaming /\ ~aborted
        running == InExecutor \cup (IF live THEN new ELSE {})
        waiting == StillOpen \cup new
    IN  \E done \in SUBSET (IF live THEN running \cap waiting ELSE {}),
           stop \in BOOLEAN :
          /\ stop => done \cap InExecutor # {}
          /\ blocks' = Collected \cup new
          /\ tracked' = running
          /\ open' = waiting \ done
          /\ asked' = (asked \/ stop)

StreamUnchanged ==
    UNCHANGED <<phase, reason, aborted, kept, counters, compaction,
                budget, fallen, prevent>>

(***************************************************************************)
(* A stream brings one block per message; the non-streaming request made   *)
(* after a fallback brings them all in one, and nothing follows it.        *)
(***************************************************************************)
Message(new) ==
    /\ phase = "stream" /\ wire = "open"
    /\ fallen \/ Cardinality(new) <= 1
    /\ new \cap (open \cup blocks) = {}
    /\ Yield(new)
    /\ last' = "answer"
    /\ hidden' = FALSE
    /\ wire' = IF fallen THEN "closed" ELSE "open"
    /\ StreamUnchanged

Notice ==
    /\ phase = "stream"
    /\ ~(fallen /\ wire = "closed")
    /\ Yield({})
    /\ last' = IF fallen THEN "nothing" ELSE last
    /\ hidden' = (hidden /\ ~fallen)
    /\ UNCHANGED wire
    /\ StreamUnchanged

(***************************************************************************)
(* The answer reached its output limit: an error that is withheld until    *)
(* the loop knows whether it can recover.                                  *)
(***************************************************************************)
Truncated ==
    /\ phase = "stream" /\ wire = "open" /\ ~fallen
    /\ Yield({})
    /\ last' = "max_output_tokens"
    /\ hidden' = TRUE
    /\ wire' = "closed"
    /\ StreamUnchanged

ApiError ==
    /\ phase = "stream" /\ wire = "open"
    /\ Yield({})
    /\ last' = "error"
    /\ hidden' = FALSE
    /\ wire' = "closed"
    /\ StreamUnchanged

StreamFallback ==
    /\ phase = "stream" /\ ~fallen /\ last # "error"
    /\ fallen' = TRUE
    /\ wire' = "open"
    /\ UNCHANGED <<phase, reason, aborted, kept, counters, compaction,
                   budget, last, hidden, blocks, tracked, prevent, open,
                   asked>>

(***************************************************************************)
(* yieldMissingToolResultBlocks: an error result for every tool_use of the *)
(* assistant messages collected so far.                                    *)
(***************************************************************************)
MissingLeftToExecutor == IF streaming THEN open ELSE open \ blocks

MissingAnswered == open \ blocks

(***************************************************************************)
(* FallbackTriggeredError: the same request again with the other model.    *)
(***************************************************************************)
ModelFallback ==
    /\ phase = "stream" /\ last # "error"
    /\ open' = MissingAnswered
    /\ wire' = "open" /\ fallen' = FALSE /\ last' = "nothing"
    /\ hidden' = FALSE /\ blocks' = {} /\ tracked' = {}
    /\ UNCHANGED <<phase, reason, aborted, kept, counters, compaction,
                   budget, prevent, asked>>

StreamThrows ==
    /\ phase = "stream"
    /\ open' = MissingAnswered
    /\ Return("model_error")
    /\ UNCHANGED <<aborted, kept, counters, compaction, budget, answer,
                   asked>>

(***************************************************************************)
(* An image is too large: one of the conversation, found before the        *)
(* request, or one of a result that is ready while the answer streams.     *)
(***************************************************************************)
ImageError ==
    /\ phase = "stream"
    /\ \E done \in SUBSET (tracked \cap open) :
         /\ done # {} \/ (last = "nothing" /\ ~fallen)
         /\ open' = open \ done
    /\ Return("image_error")
    /\ UNCHANGED <<aborted, kept, counters, compaction, budget, answer,
                   asked>>

-----------------------------------------------------------------------------
(***************************************************************************)
(* The stream is over.  After an interrupt the executor, or the loop when  *)
(* there is none, answers the blocks and the query returns.                *)
(***************************************************************************)
Drained == open \ (IF streaming THEN tracked ELSE blocks)

CutOff == last = "max_output_tokens" /\ blocks = {}

EndStream ==
    /\ phase = "stream"
    /\ aborted \/ ~(fallen /\ wire = "open")
    /\ IF aborted
       THEN open' = Drained /\ Return("aborted_streaming")
       ELSE phase' = "ended" /\ UNCHANGED <<reason, open>>
    /\ cut' = IF CutOff THEN cut + 1 ELSE 0
    /\ UNCHANGED <<aborted, streaming, limited, counters, compaction, budget,
                   answer, asked>>

(***************************************************************************)
(* The three continuations of a truncated answer: the same request with a  *)
(* larger limit, when the gate allows and no limit was set; a message that *)
(* asks to go on, RecoveryLimit times; or the withheld error at last.      *)
(***************************************************************************)
Ended == phase = "ended" /\ blocks = {}

Escalate ==
    /\ Ended /\ last = "max_output_tokens" /\ ~override
    /\ Again
    /\ override' = TRUE /\ stopHookActive' = FALSE
    /\ UNCHANGED <<turnCount, recoveryCount, nudges, compaction, budget>>

AttemptedUncounted == recoveryCount

Attempted == recoveryCount + 1

Recover ==
    /\ Ended /\ last = "max_output_tokens" /\ recoveryCount < RecoveryLimit
    /\ Again
    /\ recoveryCount' = Attempted
    /\ override' = FALSE /\ stopHookActive' = FALSE
    /\ UNCHANGED <<turnCount, nudges, compaction, budget>>

GiveUp ==
    /\ Ended /\ last = "max_output_tokens" /\ recoveryCount >= RecoveryLimit
    /\ hidden' = FALSE
    /\ Return("completed")
    /\ UNCHANGED <<aborted, kept, counters, compaction, budget, wire,
                   fallen, last, blocks, tracked, prevent, open, asked>>

ErrorEnds ==
    /\ Ended /\ last = "error"
    /\ Return("completed")
    /\ UNCHANGED <<aborted, kept, counters, compaction, budget, answer,
                   open, asked>>

-----------------------------------------------------------------------------
(***************************************************************************)
(* The stop hooks see an answer, not an error.  They prevent anything      *)
(* more (as an interrupt does), or block and so ask for another iteration, *)
(* or let the turn go on to the budget and the nudge.                      *)
(***************************************************************************)
EvaluateAnything == TRUE

Evaluable == last \in {"answer", "nothing"}

HooksPrevent ==
    /\ Ended /\ Evaluable
    /\ Return("stop_hook_prevented")
    /\ UNCHANGED <<aborted, kept, counters, compaction, budget, answer,
                   open, asked>>

HooksBlock ==
    /\ Ended /\ Evaluable
    /\ Again
    /\ recoveryCount' = 0 /\ override' = FALSE /\ stopHookActive' = TRUE
    /\ UNCHANGED <<turnCount, nudges, compaction, budget>>

(***************************************************************************)
(* checkTokenBudget.  gain tells whether the tokens since the last check   *)
(* are few; the budget ends at a share of the total, or after two small    *)
(* gains in a row past the first few checks.                               *)
(***************************************************************************)
Least(a, b) == IF a < b THEN a ELSE b

Diminishing(small) == budget.checks >= ManyChecks /\ small /\ budget.small

Spent(small) == IF small THEN budget.spent ELSE budget.spent + 1

BudgetAllows(small) ==
    budget.on /\ ~Diminishing(small) /\ Spent(small) < BudgetSteps

Pass(small) == Ended /\ last \in {"answer", "nothing"}

BudgetContinues(small) ==
    /\ Pass(small) /\ BudgetAllows(small)
    /\ budget' = [budget EXCEPT !.checks = Least(@ + 1, ManyChecks),
                                !.small = small, !.spent = Spent(small)]
    /\ Again
    /\ recoveryCount' = 0 /\ override' = FALSE /\ stopHookActive' = FALSE
    /\ UNCHANGED <<turnCount, nudges, compaction>>

LastTurn == limited /\ turnCount >= MaxTurns

Nudge(small) ==
    /\ Pass(small) /\ ~BudgetAllows(small)
    /\ last = "answer" /\ ~LastTurn /\ nudges < MaxNudges
    /\ Again
    /\ nudges' = nudges + 1
    /\ recoveryCount' = 0 /\ override' = FALSE /\ stopHookActive' = FALSE
    /\ UNCHANGED <<turnCount, compaction, budget>>

Complete(small) ==
    /\ Pass(small) /\ ~BudgetAllows(small)
    /\ Return("completed")
    /\ UNCHANGED <<aborted, kept, counters, compaction, budget, answer,
                   open, asked>>

HooksPass ==
    \E small \in BOOLEAN :
        BudgetContinues(small) \/ Nudge(small) \/ Complete(small)

-----------------------------------------------------------------------------
(***************************************************************************)
(* The tools of the answer have run; a hook among them may ask to stop.  A *)
(* result whose image is too large throws out of the query.  The turns are *)
(* counted on without a limit too; nobody looks at the count then, and it  *)
(* is kept at MaxTurns.                                                    *)
(***************************************************************************)
RunTools ==
    /\ phase = "ended" /\ blocks # {}
    /\ open' = Drained
    /\ \E stop \in BOOLEAN :
         /\ stop => open' # open
         /\ prevent' = stop
         /\ asked' = (asked \/ stop)
    /\ phase' = "settled"
    /\ UNCHANGED <<reason, aborted, kept, counters, compaction, budget,
                   wire, fallen, last, hidden, blocks, tracked>>

ResultThrows ==
    /\ phase = "ended" /\ open # {}
    /\ \E done \in SUBSET open : open' = open \ done
    /\ Return("threw")
    /\ UNCHANGED <<aborted, kept, counters, compaction, budget, answer,
                   asked>>

ToolsEnd ==
    /\ phase = "settled"
    /\ \/ aborted /\ Return("aborted_tools")
       \/ ~aborted /\ prevent /\ Return("hook_stopped")
       \/ ~aborted /\ ~prevent /\ LastTurn /\ Return("max_turns")
    /\ UNCHANGED <<aborted, kept, counters, compaction, budget, answer,
                   open, asked>>

NextTurn ==
    /\ phase = "settled" /\ ~aborted /\ ~prevent /\ ~LastTurn
    /\ Again
    /\ turnCount' = Least(turnCount + 1, MaxTurns)
    /\ recoveryCount' = 0 /\ override' = FALSE /\ nudges' = 0
    /\ UNCHANGED <<stopHookActive, compaction, budget>>

-----------------------------------------------------------------------------
Stream ==
    \/ \E new \in SUBSET Blocks : Message(new)
    \/ Notice \/ Truncated \/ ApiError
    \/ StreamFallback \/ ModelFallback \/ StreamThrows \/ ImageError

Progress ==
    \/ CompactSucceeds \/ CompactFails \/ NoCompact
    \/ Stream \/ EndStream
    \/ Escalate \/ Recover \/ GiveUp \/ ErrorEnds
    \/ HooksPrevent \/ HooksBlock \/ HooksPass
    \/ RunTools \/ ResultThrows \/ ToolsEnd \/ NextTurn

Next == Abort \/ Progress

Spec == Init /\ [][Next]_vars

(***************************************************************************)
(* The loop never stops by itself.  A request that can be retried without  *)
(* end is answered in the end, and stop hooks asked about answers again    *)
(* and again let one of them pass.                                         *)
(***************************************************************************)
LiveSpec ==
    Spec /\ WF_vars(Progress) /\ SF_vars(EndStream) /\ SF_vars(HooksPass)

-----------------------------------------------------------------------------
Reasons == {"blocking_limit", "model_error", "image_error", "completed",
            "aborted_streaming", "stop_hook_prevented", "threw",
            "aborted_tools", "hook_stopped", "max_turns"}

(***************************************************************************)
(* The types; the loop has a reason exactly when it has returned, and the  *)
(* tools given to the executor are among those of the answer.              *)
(***************************************************************************)
TypeOK ==
    /\ phase \in {"setup", "stream", "ended", "settled", "over"}
    /\ reason \in Reasons \cup {"none"}
    /\ phase = "over" <=> reason # "none"
    /\ aborted \in BOOLEAN /\ streaming \in BOOLEAN /\ override \in BOOLEAN
    /\ stopHookActive \in BOOLEAN /\ fallen \in BOOLEAN
    /\ limited \in BOOLEAN /\ cut \in Nat
    /\ hidden \in BOOLEAN /\ prevent \in BOOLEAN /\ asked \in BOOLEAN
    /\ turnCount \in 1..MaxTurns /\ nudges \in 0..MaxNudges
    /\ recoveryCount \in 0..RecoveryLimit
    /\ failures \in 0..FailureLimit /\ failedInRow \in Nat
    /\ budget \in [on : BOOLEAN, checks : 0..ManyChecks, small : BOOLEAN,
                   spent : 0..BudgetSteps]
    /\ wire \in {"open", "closed"}
    /\ last \in {"nothing", "answer", "max_output_tokens", "error"}
    /\ blocks \subseteq Blocks /\ tracked \subseteq blocks
    /\ open \subseteq Blocks

(***************************************************************************)
(* Whatever fell back, failed or was interrupted on the way, each tool_use *)
(* the consumer has seen has its tool_result, or its tombstone, before the *)
(* next request is prepared and when the query returns.  Two exits do not  *)
(* keep this: a result with too large an image, and blocks that stream in  *)
(* after an interrupt, which no executor is given.                         *)
(***************************************************************************)
Unanswerable ==
    IF reason = "aborted_streaming" /\ streaming THEN blocks \ tracked ELSE {}

ToolUsesAnswered ==
    /\ phase = "setup" => open = {}
    /\ phase = "over" /\ reason \notin {"image_error", "threw"} =>
           open \subseteq Unanswerable

(***************************************************************************)
(* An answer that was cut off, its error withheld, is asked for again: at  *)
(* least RecoveryLimit times before the query gives up, and never without  *)
(* end, although the larger limit is set back by every recovery and so     *)
(* tried again after each.  No return leaves the error unseen, except one  *)
(* that interrupts the stream or breaks it off, and one that comes after   *)
(* the tools of the same answer: those are run, and the error dropped.     *)
(***************************************************************************)
Broken == {"aborted_streaming", "model_error", "image_error"}

CutOffRecovered ==
    /\ cut <= 2 * (RecoveryLimit + 1)
    /\ phase = "over" /\ reason \notin Broken /\ CutOff =>
           cut > RecoveryLimit /\ ~hidden
    /\ phase = "over" /\ hidden => reason \in Broken \/ blocks # {}

(***************************************************************************)
(* The circuit breaker holds across every way of going on: compaction is   *)
(* never tried again after FailureLimit failures without a success.        *)
(***************************************************************************)
BreakerHolds == failedInRow <= FailureLimit

(***************************************************************************)
(* A hook of a tool that asked to stop is heard: no further iteration      *)
(* begins after it ("If a hook indicated to prevent continuation, stop     *)
(* here").                                                                 *)
(***************************************************************************)
StopHonoured == asked => phase # "setup"

(***************************************************************************)
(* The loop ends, whatever errors, truncated answers, failed compactions   *)
(* and nudges it goes through: no mix of its continue sites, each of which *)
(* resets some counter of another, repeats for ever.  Where no limit of    *)
(* turns is given, only the model can keep it going, by asking for tools   *)
(* again and again.                                                        *)
(***************************************************************************)
LoopEnds == <>(phase = "over") \/ (~limited /\ []<>(phase = "settled"))
=============================================================================
