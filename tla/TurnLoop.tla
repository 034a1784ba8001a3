------------------------------ MODULE TurnLoop ------------------------------
(***************************************************************************)
(* One agent turn: AgentHarness::run_turn_with_state of codel00p-harness   *)
(* (agent/turn.rs, agent/turn/{self_correct,verify,recover,hooks}.rs,      *)
(* iteration_budget.rs, cancel.rs, session.rs).                            *)
(*                                                                         *)
(* A turn alternates inferences of the model with batches of tool calls    *)
(* until the model answers with text, the iteration budget is used up, the *)
(* user cancels, or an inference or a permission decision fails.  Tools of *)
(* one batch run concurrently; the cancel signal is set by another task at *)
(* any moment.  Messages and events carry the identifiers the properties   *)
(* compare, not their text.                                                *)
(***************************************************************************)
EXTENDS Integers, Sequences

CONSTANTS
    Operations,       \* operation signatures: a tool, for commands with its arguments
    Safe,             \* the operations is_concurrency_safe accepts
    Mutating,         \* the operations of MUTATING_TOOLS
    Outcomes,         \* what the tools may return, a subset of ToolOutcomes
    MaxIterations,    \* AgentHarness.max_iterations
    MaxCalls,         \* bound: tool calls in one model response
    Histories,        \* the transcripts a turn may be resumed with
    AtBlockingLimit,  \* ContextWindowState::is_at_blocking_limit
    ReplanOnFailure, FailureBudget,                         \* SelfCorrectConfig
    SelfVerify, SelfCritique, VerifyIterations,             \* VerifyConfig
    NumChecks,        \* its auto_test and lint_and_fix; 0 without the run_checks tool
    TestCommand       \* its test_command is set

\* DEFAULT_COMPACTION_RECENT_MESSAGES
RecentMessages == 4

\* What execute() may give: a success; a command's success: false, without an
\* error key ("nonzero"); a result with an error key ("payload"); an Err.
\* Of a failure, classify() may read InvalidInput in its message.
NoErrorKey == {"ok", "nonzero", "nonzero_invalid"}
ErrResults == {"err", "err_invalid"}
InvalidInput == {"nonzero_invalid", "payload_invalid", "err_invalid"}
ToolOutcomes == NoErrorKey \union ErrResults \union {"payload", "payload_invalid"}

\* A denied call gets an error result without being executed.
Results == ToolOutcomes \union {"denied"}

\* What one check of the verification gave; "unrunnable": run_checks was an Err.
Verdicts == {"pass", "fail", "unrunnable"}

\* What the changes of the workspace rest on: "changed" since the last
\* verification; or the checks, looked at after the last change, "passed",
\* "failed", could not all be run ("unrunnable"), or there were none ("missing").
Evidence == {"none", "changed", "passed", "failed", "unrunnable", "missing"}

\* A provider may number its calls.  A call it leaves without an id is named
\* after its position alone, one salvaged from message text after its tool
\* alone: either id comes again with a later response.
CallId(iteration, k) == <<"call", iteration, k>>
PositionId(k) == <<"provider-tool-call", k>>
SalvagedId(op) == <<"salvaged", op>>
Ids == ({"call"} \X Nat \X Nat) \union ({"provider-tool-call"} \X Nat)
         \union ({"salvaged"} \X Operations)

Call == [id : Ids, op : Operations]

\* A message names the calls it requests ("calls") or answers ("result").
Roles == {"user", "assistant", "calls", "result", "nudge", "feedback",
          "critique", "summary"}
Message == [role : Roles, ids : Seq(Ids)]
Msg(role, ids) == [role |-> role, ids |-> ids]

EventKinds == {"requested", "completed", "failed", "budget_exceeded",
               "verification", "critique_done", "turn_completed"}
Event(kind, ids) == [kind |-> kind, ids |-> ids]

ASSUME ConstantsAssumption ==
    /\ Safe \subseteq Operations
    /\ Mutating \subseteq Operations
    /\ Outcomes \subseteq ToolOutcomes
    /\ MaxIterations \in Nat
    /\ MaxCalls \in Nat
    /\ FailureBudget \in Nat
    /\ VerifyIterations \in Nat
    /\ NumChecks \in Nat
    /\ TestCommand \in BOOLEAN
    /\ AtBlockingLimit \in BOOLEAN
    /\ ReplanOnFailure \in BOOLEAN
    /\ SelfVerify \in BOOLEAN
    /\ SelfCritique \in BOOLEAN

ASSUME HistoriesAssumption == Histories \subseteq Seq(Message)

VARIABLES
    pc,          \* where run_turn_with_state is
    used,        \* IterationBudget.used
    cancelled,   \* CancelSignal.flag
    transcript,  \* SessionState.messages
    calls,       \* effective_tool_calls of the current response
    index, end,  \* the current batch is calls[index .. end - 1]
    slot,        \* what became of each call: its permission, its result
    next,        \* the call whose result is recorded next
    nudges,      \* pending_nudges: how many this batch has queued
    streak,      \* FailureTracker.counts
    executed,    \* executed_tool_calls
    verify,      \* VerifyState
    events,      \* the events recorded so far
    outcome      \* what the turn returned

\* History variables: they observe the run and guard nothing.
VARIABLES
    resumed,     \* the transcript the turn was started with
    inferences,  \* how many inferences were begun
    late,        \* the iterations whose response arrived after the cancellation
    granted,     \* the calls the permission policy allowed, as <<iteration, position>>
    started,     \* the calls that were executed, as <<iteration, position>>
    nudged,      \* nudges queued for an operation since it last succeeded
    failures,    \* failures of an operation since it last succeeded
    leading,     \* those of them before the first that was not InvalidInput
    evidence     \* what the changes of the workspace rest on

control == <<pc, used, cancelled, outcome, inferences, late, resumed>>
batch == <<calls, index, end, slot, next, nudges, granted, started>>
correction == <<streak, nudged, failures, leading>>
verification == <<verify, evidence>>
vars == <<control, batch, correction, verification, transcript, events, executed>>

-----------------------------------------------------------------------------

NoOutcome == [status |-> "none", iterations |-> 0, verified |-> "none"]

\* VerifyState::new
NewVerifyState == [attempts |-> 0, injected |-> FALSE, pending |-> FALSE,
                   executedAtCritique |-> 0, lastVerified |-> "none"]

Init ==
    /\ pc = "start"
    /\ used = 0
    /\ cancelled = FALSE
    /\ resumed \in Histories
    /\ transcript = resumed
    /\ calls = <<>> /\ index = 1 /\ end = 1 /\ slot = <<>> /\ next = 1 /\ nudges = 0
    /\ streak = [op \in Operations |-> 0]
    /\ executed = <<>>
    /\ verify = NewVerifyState
    /\ events = <<>>
    /\ outcome = NoOutcome
    /\ inferences = 0
    /\ late = {} /\ granted = {} /\ started = {}
    /\ nudged = [op \in Operations |-> 0]
    /\ failures = [op \in Operations |-> 0]
    /\ leading = [op \in Operations |-> 0]
    /\ evidence = "none"

\* SessionState::compact_with_summary(summary, keep), keep no more than Len(t)
CompactWithSummary(t, keep) ==
    <<Msg("summary", <<>>)>> \o SubSeq(t, Len(t) - keep + 1, Len(t))

\* compact_context_if_needed: only a transcript longer than the messages kept
\* plus a summary is worth compacting.
CompactIfNeeded(t) ==
    IF AtBlockingLimit /\ Len(t) > RecentMessages + 1
    THEN CompactWithSummary(t, RecentMessages)
    ELSE t

\* The turn records the user's message and makes room for it.
Begin ==
    /\ pc = "start"
    /\ transcript' = CompactIfNeeded(Append(transcript, Msg("user", <<>>)))
    /\ pc' = "boundary"
    /\ UNCHANGED <<used, cancelled, outcome, inferences, late, resumed, batch,
                   correction, verification, events, executed>>

\* CancelSignal::cancel, from another task; the flag latches.
Cancel ==
    /\ pc \notin {"completed", "cancelled", "failed"}
    /\ ~cancelled
    /\ cancelled' = TRUE
    /\ UNCHANGED <<pc, used, outcome, inferences, late, resumed, batch,
                   correction, verification, transcript, events, executed>>

\* finish_cancelled
FinishCancelled(iterations) ==
    /\ pc' = "cancelled"
    /\ outcome' = [status |-> "cancelled", iterations |-> iterations,
                   verified |-> "none"]
    /\ events' = Append(events, Event("turn_completed", <<>>))

\* An error returned by `?`: the session state and the events are dropped.
Fail(reason) ==
    /\ pc' = "failed"
    /\ outcome' = [status |-> reason, iterations |-> 0, verified |-> "none"]

\* Mutant of BudgetLeft: one iteration too many.
BudgetLeft_OffByOne == used <= MaxIterations

\* IterationBudget::consume succeeds.
BudgetLeft == used < MaxIterations

\* The head of the loop: IterationBudget::consume, then the first of the two
\* polls of the cancel signal.
Boundary ==
    /\ pc = "boundary"
    /\ \/ /\ ~BudgetLeft
          /\ Fail("iteration_limit")
          /\ UNCHANGED <<used, inferences, events>>
       \/ /\ BudgetLeft
          /\ used' = used + 1
          /\ cancelled
          /\ FinishCancelled(used)
          /\ UNCHANGED inferences
       \/ /\ BudgetLeft
          /\ used' = used + 1
          /\ ~cancelled
          /\ pc' = "inference"
          /\ inferences' = inferences + 1
          /\ UNCHANGED <<outcome, events>>
    /\ UNCHANGED <<cancelled, late, resumed, batch, correction, verification, transcript,
                   executed>>

\* The request could not be built, or the model client failed.
InferenceFails ==
    /\ pc = "inference"
    /\ Fail("inference")
    /\ UNCHANGED <<used, cancelled, inferences, late, resumed, batch,
                   correction, verification, transcript, events, executed>>

\* A pending self-critique is closed by the first response that follows it.
CloseCritique(evs) ==
    /\ verify' = [verify EXCEPT !.pending = FALSE]
    /\ events' = IF verify.pending THEN Append(evs, Event("critique_done", <<>>))
                                   ELSE evs

\* A response without tool calls: the model says it is done.  The text itself
\* may be missing.
ModelDone ==
    /\ pc = "inference"
    /\ transcript' \in {transcript, Append(transcript, Msg("assistant", <<>>))}
    /\ CloseCritique(events)
    /\ pc' = "verify"
    /\ UNCHANGED <<used, cancelled, outcome, inferences, late, resumed, batch,
                   correction, evidence, executed>>

\* map_provider_response: a call without an id is named after its position.
Response(n, ops, numbered) ==
    [k \in 1..n |->
        [id |-> IF k \in numbered THEN CallId(used, k) ELSE PositionId(k), op |-> ops[k]]]

\* The calls of a response: those the provider structured, or the one
\* salvage_tool_call reads out of the message text.
EffectiveCalls ==
    {Response(n, ops, numbered) :
        n \in 1..MaxCalls, ops \in [1..MaxCalls -> Operations],
        numbered \in SUBSET (1..MaxCalls)}
      \union {<<[id |-> SalvagedId(op), op |-> op]>> : op \in Operations}

\* Mutant of CancelledMeanwhile: the second poll is missing.
CancelledMeanwhile_NotPolled == FALSE

\* The cancel signal was set while the inference ran.
CancelledMeanwhile == cancelled

\* A response with tool calls: the second poll of the cancel signal, then the
\* calls enter the transcript.
ModelCallsTools ==
    /\ pc = "inference"
    /\ \/ /\ CancelledMeanwhile
          /\ FinishCancelled(used)
          /\ UNCHANGED <<transcript, verify, calls, index, slot, next>>
       \/ /\ ~CancelledMeanwhile
          /\ calls' \in EffectiveCalls
          /\ transcript' = Append(transcript,
                 Msg("calls", [k \in DOMAIN calls' |-> calls'[k].id]))
          /\ CloseCritique(events)
          /\ index' = 1
          /\ next' = 1
          /\ slot' = [k \in DOMAIN calls' |-> "pending"]
          /\ pc' = "batch"
          /\ UNCHANGED outcome
    /\ late' = IF cancelled THEN late \union {used} ELSE late
    /\ UNCHANGED <<used, cancelled, inferences, resumed, end, nudges, granted,
                   started, correction, evidence, executed>>

\* Mutant of IsBatch: the call that ends the run of safe calls joins the batch.
IsBatch_OneTooFar(i, e) ==
    IF calls[i].op \in Safe
    THEN /\ \A p \in i..(e - 2) : calls[p].op \in Safe
         /\ e <= Len(calls) => calls[e - 1].op \notin Safe
    ELSE e = i + 1

\* A batch is the longest run of consecutive concurrency-safe calls from i on;
\* any other call is a batch of its own.
IsBatch(i, e) ==
    IF calls[i].op \in Safe
    THEN /\ \A p \in i..(e - 1) : calls[p].op \in Safe
         /\ e <= Len(calls) => calls[e].op \notin Safe
    ELSE e = i + 1

Positions == index..(end - 1)

\* Mutant of Announce: only the first call of a batch is announced.
Announce_FirstOnly(e) == <<Event("requested", <<calls[index].id>>)>>

\* A ToolCallRequested event for every call of the batch.
Announce(e) ==
    [k \in 1..(e - index) |-> Event("requested", <<calls[index + k - 1].id>>)]

RequestBatch ==
    /\ pc = "batch"
    /\ end' \in (index + 1)..(Len(calls) + 1)
    /\ IsBatch(index, end')
    /\ events' = events \o Announce(end')
    /\ pc' = "decide"
    /\ UNCHANGED <<used, cancelled, outcome, inferences, late, resumed, calls, index,
                   slot, next, nudges, granted, started, correction, verification,
                   transcript, executed>>

\* Mutant of Runnable: the decisions are not looked at.
Runnable_Unchecked(allowed) == Positions

\* Of the calls the policy decided, those that will be executed.
Runnable(allowed) == allowed

\* PermissionPolicy::decide on every call of the batch, joined.  The calls
\* that may run are started together, the others get a permission error; one
\* failed decision fails the turn.
Decide ==
    /\ pc = "decide"
    /\ \/ /\ Fail("permission")
          /\ UNCHANGED <<slot, granted, started>>
       \/ \E allowed \in SUBSET Positions :
            /\ slot' = [p \in DOMAIN slot |->
                          IF p \notin Positions THEN slot[p]
                          ELSE IF p \in Runnable(allowed) THEN "running"
                          ELSE "denied"]
            /\ granted' = granted \union {<<used, p>> : p \in allowed}
            /\ started' = started \union {<<used, p>> : p \in Runnable(allowed)}
            /\ pc' = "execute"
            /\ UNCHANGED outcome
    /\ UNCHANGED <<used, cancelled, inferences, late, resumed, calls, index, end, next,
                   nudges, correction, verification, transcript, events, executed>>

\* A result without an error key, of a tool that changes the workspace.
Mutates(op, result) == op \in Mutating /\ result \in NoErrorKey

\* A tool of the batch returns; join_all lets them finish in any order.
ToolReturns(p) ==
    /\ pc = "execute"
    /\ slot[p] = "running"
    /\ \E result \in Outcomes :
         /\ slot' = [slot EXCEPT ![p] = result]
         /\ evidence' = IF Mutates(calls[p].op, result) THEN "changed" ELSE evidence
    /\ UNCHANGED <<control, calls, index, end, next, nudges, granted, started,
                   correction, verify, transcript, events, executed>>

\* result_is_failure
IsFailure(result) == result # "ok"

\* The first invalid-input failure of an operation does not count.
Graced(op, result) == result \in InvalidInput /\ streak[op] = 0

\* Mutant of BudgetHit: every failure past the budget nudges again.
BudgetHit_EveryTime(attempts) ==
    ReplanOnFailure /\ FailureBudget > 0 /\ attempts >= FailureBudget

\* record_failure has just made the streak of an operation equal the budget.
BudgetHit(attempts) ==
    ReplanOnFailure /\ FailureBudget > 0 /\ attempts = FailureBudget

\* FailureTracker::record_success, or the accounting of a failure.
SelfCorrect(op, result) ==
    IF IsFailure(result)
    THEN LET counted == ~Graced(op, result)
             hit == counted /\ BudgetHit(streak[op] + 1)
         IN  /\ streak' = IF counted THEN [streak EXCEPT ![op] = @ + 1] ELSE streak
             /\ nudges' = IF hit THEN nudges + 1 ELSE nudges
             /\ nudged' = IF hit THEN [nudged EXCEPT ![op] = @ + 1] ELSE nudged
             /\ failures' = [failures EXCEPT ![op] = @ + 1]
             /\ leading' = IF result \in InvalidInput /\ leading[op] = failures[op]
                           THEN [leading EXCEPT ![op] = @ + 1] ELSE leading
    ELSE /\ streak' = [streak EXCEPT ![op] = 0]
         /\ nudged' = [nudged EXCEPT ![op] = 0]
         /\ failures' = [failures EXCEPT ![op] = 0]
         /\ leading' = [leading EXCEPT ![op] = 0]
         /\ UNCHANGED nudges

\* Mutant of BatchReturned: results are collected without waiting for the tools.
BatchReturned_NoJoin == TRUE

\* Mutant of BatchReturned: it waits for the tools of denied calls too.
BatchReturned_WaitsForDenied == \A p \in Positions : slot[p] \in ToolOutcomes

\* join_all over the calls of the batch has completed.
BatchReturned == \A p \in Positions : slot[p] # "running"

\* Every tool of the batch has returned: the results are recorded one by one,
\* in the order of the calls.
RecordResult ==
    /\ pc = "execute"
    /\ next < end
    /\ BatchReturned
    /\ LET call == calls[next]
           result == slot[next]
           closing == IF result \in ErrResults THEN "failed" ELSE "completed"
       IN  /\ SelfCorrect(call.op, result)
           /\ transcript' = Append(transcript, Msg("result", <<call.id>>))
           /\ executed' = Append(executed, [id |-> call.id, op |-> call.op,
                                            result |-> result, at |-> <<used, next>>])
           /\ events' = events \o <<Event(closing, <<call.id>>)>>
                               \o (IF nudges' > nudges
                                   THEN <<Event("budget_exceeded", <<call.id>>)>>
                                   ELSE <<>>)
    /\ next' = next + 1
    /\ UNCHANGED <<control, calls, index, end, slot, granted, started, verification>>

\* Mutant of LastBatch: the calls after the first batch are dropped.
LastBatch_First == TRUE

\* `index` has reached the end of the calls.
LastBatch == end > Len(calls)

\* The batch is recorded: its nudges follow, then the next batch or inference.
FinishBatch ==
    /\ pc = "execute"
    /\ next = end
    /\ transcript' = transcript \o [k \in 1..nudges |-> Msg("nudge", <<>>)]
    /\ nudges' = 0
    /\ index' = end
    /\ pc' = IF LastBatch THEN "boundary" ELSE "batch"
    /\ UNCHANGED <<used, cancelled, outcome, inferences, late, resumed, calls, end, slot,
                   next, granted, started, correction, verification, events,
                   executed>>

-----------------------------------------------------------------------------
(* verify_before_done: the model says it is done *)

\* turn_mutated
TurnMutated == \E k \in DOMAIN executed : Mutates(executed[k].op, executed[k].result)

\* Mutant of ReflectionAddedWork: after the reflection nothing is verified again.
ReflectionAddedWork_Never == ~verify.injected

\* Tools ran since the reflection was asked for, or it was not asked for yet.
ReflectionAddedWork ==
    ~verify.injected \/ Len(executed) > verify.executedAtCritique

VerificationDue ==
    /\ SelfVerify
    /\ ReflectionAddedWork
    /\ TurnMutated
    /\ verify.attempts < VerifyIterations

\* The verdicts one run_verification may collect: it stops at the first failure.
CheckRuns ==
    {v \in UNION {[1..n -> Verdicts] : n \in 1..NumChecks} :
        /\ \A k \in 1..(Len(v) - 1) : v[k] # "fail"
        /\ v[Len(v)] # "fail" => Len(v) = NumChecks}

\* What a verification without a failure shows of the changes.
Shown(v) == IF \E k \in DOMAIN v : v[k] = "unrunnable" THEN "unrunnable" ELSE "passed"

\* run_verification: the checks run; a failure is fed back to the model.  A check
\* that cannot be run is reported as a failed tool call and skipped.
RunVerification ==
    /\ pc = "verify"
    /\ VerificationDue
    /\ \E v \in CheckRuns :
         LET failed == \E k \in DOMAIN v : v[k] = "fail"
         IN  /\ verify' = [verify EXCEPT !.attempts = @ + 1,
                             !.lastVerified = IF failed THEN "failed" ELSE "passed"]
             /\ events' = events \o [k \in DOMAIN v |->
                  Event(IF v[k] = "unrunnable" THEN "failed" ELSE "verification", <<>>)]
             /\ transcript' = IF failed THEN Append(transcript, Msg("feedback", <<>>))
                                        ELSE transcript
             /\ evidence' = IF failed THEN "failed" ELSE Shown(v)
             /\ pc' = IF failed THEN "boundary" ELSE "critique"
    /\ UNCHANGED <<used, cancelled, outcome, inferences, late, resumed, batch,
                   correction, executed>>

\* run_verification without a check to run.  Unless test_command is set, it looks
\* for a test command in the workspace as the workspace is now.
NoChecks ==
    /\ pc = "verify"
    /\ VerificationDue
    /\ NumChecks = 0 \/ ~TestCommand
    /\ evidence' = "missing"
    /\ pc' = "critique"
    /\ UNCHANGED <<used, cancelled, outcome, inferences, late, resumed, batch,
                   correction, verify, transcript, events, executed>>

\* Nothing to verify, or no attempt left.
SkipVerification ==
    /\ pc = "verify"
    /\ ~VerificationDue
    /\ pc' = "critique"
    /\ UNCHANGED <<used, cancelled, outcome, inferences, late, resumed, batch,
                   correction, verification, transcript, events, executed>>

CritiqueDue == SelfCritique /\ ~verify.injected /\ TurnMutated

\* The model is asked to reflect on its changes, once per turn.
InjectCritique ==
    /\ pc = "critique"
    /\ CritiqueDue
    /\ verify' = [verify EXCEPT !.injected = TRUE, !.pending = TRUE,
                                !.executedAtCritique = Len(executed)]
    /\ transcript' = Append(transcript, Msg("critique", <<>>))
    /\ pc' = "boundary"
    /\ UNCHANGED <<used, cancelled, outcome, inferences, late, resumed, batch,
                   correction, evidence, events, executed>>

\* The turn completes.  The memory, skill and capability extractors and the
\* turn_completed hook run here; none of them can fail the turn.
Complete ==
    /\ pc = "critique"
    /\ ~CritiqueDue
    /\ outcome' = [status |-> "completed", iterations |-> used,
                   verified |-> verify.lastVerified]
    /\ events' = Append(events, Event("turn_completed", <<>>))
    /\ pc' = "completed"
    /\ UNCHANGED <<used, cancelled, inferences, late, resumed, batch,
                   correction, verification, transcript, executed>>

-----------------------------------------------------------------------------

Final == {"completed", "cancelled", "failed"}

TurnStep ==
    \/ Begin \/ Boundary
    \/ InferenceFails \/ ModelDone \/ ModelCallsTools
    \/ RequestBatch \/ Decide \/ (\E p \in Positions : ToolReturns(p))
    \/ RecordResult \/ FinishBatch
    \/ RunVerification \/ NoChecks \/ SkipVerification \/ InjectCritique \/ Complete

Next == TurnStep \/ Cancel

Spec == Init /\ [][Next]_vars

\* The model, the tools and the permission policy answer, so the turn's task
\* keeps running.  Nobody has to cancel.
FairSpec == Spec /\ WF_vars(TurnStep)

(***************************************************************************)
(* Properties                                                              *)
(***************************************************************************)

TurnOutcomes ==
    [status : {"none", "completed", "cancelled", "iteration_limit", "inference",
               "permission"},
     iterations : Nat, verified : {"none", "passed", "failed"}]

ControlType ==
    /\ pc \in Final \union {"start", "boundary", "inference", "verify", "critique",
                            "batch", "decide", "execute"}
    /\ used \in 0..MaxIterations
    /\ cancelled \in BOOLEAN
    /\ outcome \in TurnOutcomes
    /\ inferences \in Nat
    /\ late \subseteq Nat
    /\ resumed \in Seq(Message)

Slots == Results \union {"pending", "running"}

BatchType ==
    /\ calls \in Seq(Call)
    /\ index \in Nat \ {0}
    /\ end \in Nat \ {0}
    /\ next \in Nat \ {0}
    /\ nudges \in Nat
    /\ slot \in Seq(Slots)
    /\ Len(slot) = Len(calls)
    /\ granted \subseteq Nat \X Nat
    /\ started \subseteq Nat \X Nat

CorrectionType ==
    /\ streak \in [Operations -> Nat]
    /\ nudged \in [Operations -> Nat]
    /\ failures \in [Operations -> Nat]
    /\ leading \in [Operations -> Nat]

VerifyStates ==
    [attempts : Nat, injected : BOOLEAN, pending : BOOLEAN, executedAtCritique : Nat,
     lastVerified : {"none", "passed", "failed"}]

VerifyType ==
    /\ verify \in VerifyStates
    /\ evidence \in Evidence

ExecutedCall == [id : Ids, op : Operations, result : Slots, at : Nat \X Nat]
Events == [kind : EventKinds, ids : Seq(Ids)]

SessionType ==
    /\ transcript \in Seq(Message)
    /\ events \in Seq(Events)
    /\ executed \in Seq(ExecutedCall)

\* Every variable of the turn keeps the shape its declaration in the code gives
\* it: the budget is never overdrawn, and every call has its slot.
TypeOK == ControlType /\ BatchType /\ CorrectionType /\ VerifyType /\ SessionType

\* The k-th call that message i requests has its result later in t, before the
\* calls of another response, whose ids may be the same.
Answered(t, i, k) ==
    \E j \in (i + 1)..Len(t) :
        /\ t[j] = Msg("result", <<t[i].ids[k]>>)
        /\ \A m \in (i + 1)..(j - 1) : t[m].role # "calls"

\* The transcript as Begin leaves it, and where its i-th message was before.
Opening == CompactIfNeeded(Append(resumed, Msg("user", <<>>)))
ResumedPlace(i) == i + Len(resumed) + 1 - Len(Opening)

\* The turn that requested the call was cut off while its messages were saved:
\* the call had no result when this turn was resumed.
Interrupted(i, k) ==
    /\ i <= Len(Opening)
    /\ ResumedPlace(i) \in DOMAIN resumed
    /\ ~Answered(resumed, ResumedPlace(i), k)

\* Whenever the model is asked, and whenever the turn hands its session back,
\* completed or cancelled, every tool call of the transcript has its result,
\* except those that had none when the turn was resumed: a turn leaves no call
\* unanswered, and compaction separates no call from its result.
EveryCallAnswered ==
    pc \in {"inference", "completed", "cancelled"} =>
        \A i \in DOMAIN transcript : transcript[i].role = "calls" =>
            \A k \in DOMAIN transcript[i].ids :
                Answered(transcript, i, k) \/ Interrupted(i, k)

\* A tool runs only if the permission policy allowed that very call, and the
\* recorded result says "denied" exactly for the calls it did not allow.
OnlyGrantedCallsRun ==
    /\ started \subseteq granted
    /\ \A k \in DOMAIN executed :
         executed[k].result = "denied" <=> executed[k].at \notin granted

\* Tools that run at the same time are all concurrency-safe.
OnlySafeToolsOverlap ==
    \A p, q \in DOMAIN slot :
        p # q /\ slot[p] = "running" /\ slot[q] = "running"
          => calls[p].op \in Safe /\ calls[q].op \in Safe

\* Results are recorded in the order of the calls, across batches and
\* responses, however the tools of a batch finish; a recorded result is final.
RecordedInCallOrder ==
    /\ \A m, n \in DOMAIN executed : m < n =>
         LET a == executed[m].at
             b == executed[n].at
         IN  a[1] < b[1] \/ (a[1] = b[1] /\ a[2] < b[2])
    /\ \A n \in DOMAIN executed : executed[n].result \in Results

\* A call of a response that arrived after the cancellation is never executed.
CancelStopsTools == \A c \in started : c[1] \notin late

\* No more inferences than the budget allows are begun, and a turn reports
\* exactly the ones it began, also when it was cancelled at a boundary.
IterationsReported ==
    /\ inferences <= MaxIterations
    /\ outcome.status \in {"completed", "cancelled"} => outcome.iterations = inferences

\* Between two successes of an operation the model is nudged once, when the
\* failures from the first on that was not InvalidInput reach the budget: not
\* earlier, not again.
OneNudgePerStreak ==
    \A op \in Operations :
        nudged[op] = IF /\ ReplanOnFailure
                        /\ FailureBudget > 0
                        /\ failures[op] - leading[op] >= FailureBudget
                     THEN 1 ELSE 0

\* A turn that changed the workspace and has attempts left does not complete
\* before a done-point after its last change: there every check passed, which
\* the turn then reports, or one could not be run, or there was none to run.
VerifiedBeforeDone ==
    (pc = "completed" /\ SelfVerify /\ TurnMutated /\ verify.attempts < VerifyIterations)
    => /\ evidence \in {"passed", "unrunnable", "missing"}
       /\ evidence = "passed" => outcome.verified = "passed"

\* The events a caller sees tell the same story as the session: on return,
\* the calls that were announced are the calls that were closed, in order.
EventIds(kinds) ==
    LET Kept(e) == e.kind \in kinds /\ e.ids # <<>>
    IN  [k \in DOMAIN SelectSeq(events, Kept) |-> SelectSeq(events, Kept)[k].ids[1]]

EventsMatchResults ==
    pc \in {"completed", "cancelled"} =>
        /\ EventIds({"requested"}) = [k \in DOMAIN executed |-> executed[k].id]
        /\ EventIds({"completed", "failed"}) = [k \in DOMAIN executed |-> executed[k].id]

\* Every turn ends: by an answer, a cancellation, an error or the budget.
TurnEnds == <>(pc \in Final)

(* What a comment of the code says and the code does not do *)

\* Cancelling a turn preserves its partial session: such a turn does not end in
\* the IterationLimit error, which drops it.
CancelPreservesSession == cancelled => outcome.status # "iteration_limit"

\* An operation is given one retry after an invalid-input failure before its
\* failures count toward the replan budget: budget + 1 failures in a row nudge.
GracedOnce ==
    \A op \in Operations :
        ReplanOnFailure /\ FailureBudget > 0 /\ failures[op] > FailureBudget
          => nudged[op] > 0

\* A turn that reports its changes as verified ran checks on them and they passed.
PassedMeansChecked ==
    outcome.verified = "passed" => evidence \notin {"unrunnable", "missing", "changed"}

=============================================================================
