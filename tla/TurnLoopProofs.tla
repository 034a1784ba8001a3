--------------------------- MODULE TurnLoopProofs ---------------------------
(***************************************************************************)
(* Proofs about TurnLoop, for any operations, tools, budgets and resumed   *)
(* transcripts.                                                            *)
(***************************************************************************)
EXTENDS TurnLoop, TLAPS

\* The loops over the calls of a response stay inside them: the batch is
\* calls[index .. end - 1], its results are recorded from index up to end.
CursorOK ==
    /\ pc = "batch" => index <= Len(calls) /\ next = index
    /\ pc \in {"decide", "execute"} => index < end /\ end <= Len(calls) + 1
    /\ pc = "decide" => next = index
    /\ pc = "execute" => index <= next /\ next <= end

TypeInv == TypeOK /\ CursorOK

-----------------------------------------------------------------------------
(* The shapes of what the actions build *)

LEMMA CallIdType ==
    ASSUME NEW i \in Nat, NEW k \in Nat
    PROVE  CallId(i, k) \in Ids
  BY DEF CallId, Ids

LEMMA PositionIdType ==
    ASSUME NEW k \in Nat
    PROVE  PositionId(k) \in Ids
  BY DEF PositionId, Ids

LEMMA SalvagedIdType ==
    ASSUME NEW op \in Operations
    PROVE  SalvagedId(op) \in Ids
  BY DEF SalvagedId, Ids

LEMMA MsgType ==
    ASSUME NEW role \in Roles, NEW ids \in Seq(Ids)
    PROVE  /\ Msg(role, ids) \in Message
           /\ Msg(role, ids).role = role
           /\ Msg(role, ids).ids = ids
  BY DEF Msg, Message

LEMMA EventType ==
    ASSUME NEW kind \in EventKinds, NEW ids \in Seq(Ids)
    PROVE  Event(kind, ids) \in Events
  BY DEF Event, Events

LEMMA AppendType ==
    ASSUME NEW S, NEW s \in Seq(S), NEW e \in S
    PROVE  Append(s, e) \in Seq(S)
  OBVIOUS

LEMMA ConcatType ==
    ASSUME NEW S, NEW s \in Seq(S), NEW t \in Seq(S)
    PROVE  s \o t \in Seq(S)
  OBVIOUS

LEMMA FunctionSeq ==
    ASSUME NEW S, NEW n \in Nat, NEW f \in [1..n -> S]
    PROVE  f \in Seq(S)
  OBVIOUS

LEMMA SpanType ==
    ASSUME NEW i \in Nat \ {0}, NEW e \in Nat \ {0}, NEW n \in Nat, i < e, e <= n + 1
    PROVE  /\ e - i \in Nat
           /\ \A k \in 1..(e - i) : i + k - 1 \in 1..n
  OBVIOUS

LEMMA BumpType ==
    ASSUME NEW f \in [Operations -> Nat], NEW op \in Operations
    PROVE  /\ [f EXCEPT ![op] = @ + 1] \in [Operations -> Nat]
           /\ [f EXCEPT ![op] = 0] \in [Operations -> Nat]
  OBVIOUS

LEMMA EmptyIds == <<>> \in Seq(Ids)
  OBVIOUS

LEMMA OneId ==
    ASSUME NEW id \in Ids
    PROVE  <<id>> \in Seq(Ids)
  OBVIOUS

LEMMA CallFields ==
    ASSUME NEW c \in Call
    PROVE  c.id \in Ids /\ c.op \in Operations
  BY DEF Call

LEMMA CallsFields ==
    ASSUME NEW cs \in Seq(Call), NEW k \in DOMAIN cs
    PROVE  cs[k].id \in Ids /\ cs[k].op \in Operations
<1>1. cs[k] \in Call
  OBVIOUS
<1> QED
  BY <1>1, CallFields

LEMMA CallsIds ==
    ASSUME NEW cs \in Seq(Call)
    PROVE  [k \in DOMAIN cs |-> cs[k].id] \in Seq(Ids)
<1>1. \A k \in 1..Len(cs) : cs[k].id \in Ids
  BY CallFields
<1> QED
  BY <1>1

\* The three updates of VerifyState.
LEMMA CritiqueClosed ==
    ASSUME NEW v \in VerifyStates
    PROVE  [v EXCEPT !.pending = FALSE] \in VerifyStates
  BY Zenon DEF VerifyStates

LEMMA CritiqueInjected ==
    ASSUME NEW v \in VerifyStates, NEW n \in Nat
    PROVE  [v EXCEPT !.injected = TRUE, !.pending = TRUE, !.executedAtCritique = n]
             \in VerifyStates
  BY Zenon DEF VerifyStates

LEMMA AttemptMade ==
    ASSUME NEW v \in VerifyStates, NEW n \in Nat, NEW l \in {"none", "passed", "failed"}
    PROVE  [v EXCEPT !.attempts = n, !.lastVerified = l] \in VerifyStates
  BY Zenon DEF VerifyStates

LEMMA SlotFilled ==
    ASSUME NEW s \in Seq(Slots), NEW p \in DOMAIN s, NEW r \in Slots
    PROVE  [s EXCEPT ![p] = r] \in Seq(Slots) /\ Len([s EXCEPT ![p] = r]) = Len(s)
  OBVIOUS

LEMMA OutcomeType ==
    ASSUME NEW status \in {"none", "completed", "cancelled", "iteration_limit",
                           "inference", "permission"},
           NEW n \in Nat, NEW verdict \in {"none", "passed", "failed"}
    PROVE  [status |-> status, iterations |-> n, verified |-> verdict] \in TurnOutcomes
  BY DEF TurnOutcomes

\* What an inference answers is a non-empty sequence of calls.
LEMMA EffectiveCallsType ==
    ASSUME used \in Nat, NEW cs \in EffectiveCalls
    PROVE  cs \in Seq(Call) /\ Len(cs) >= 1
<1>1. CASE \E n \in 1..MaxCalls, ops \in [1..MaxCalls -> Operations],
             numbered \in SUBSET (1..MaxCalls) : cs = Response(n, ops, numbered)
  <2>1. PICK n \in 1..MaxCalls, ops \in [1..MaxCalls -> Operations],
             numbered \in SUBSET (1..MaxCalls) : cs = Response(n, ops, numbered)
    BY <1>1
  <2> DEFINE id(k) == IF k \in numbered THEN CallId(used, k) ELSE PositionId(k)
  <2>2. \A k \in 1..n : [id |-> id(k), op |-> ops[k]] \in Call
    <3> TAKE k \in 1..n
    <3>1. k \in Nat /\ ops[k] \in Operations
      BY <2>1, ConstantsAssumption
    <3>2. id(k) \in Ids
      BY <3>1, CallIdType, PositionIdType
    <3> HIDE DEF id
    <3> QED
      BY <3>1, <3>2 DEF Call
  <2>3. cs = [k \in 1..n |-> [id |-> id(k), op |-> ops[k]]]
    BY <2>1 DEF Response
  <2> HIDE DEF id
  <2> QED
    BY <2>1, <2>2, <2>3, ConstantsAssumption
<1>2. CASE \E op \in Operations : cs = <<[id |-> SalvagedId(op), op |-> op]>>
  BY <1>2, SalvagedIdType DEF Call
<1> QED
  BY <1>1, <1>2 DEF EffectiveCalls

\* What one run of the checks collects is a sequence of verdicts.
LEMMA CheckRunsType ==
    ASSUME NEW v \in CheckRuns
    PROVE  v \in Seq(Verdicts)
<1>1. PICK n \in 1..NumChecks : v \in [1..n -> Verdicts]
  BY DEF CheckRuns
<1> QED
  BY <1>1, ConstantsAssumption

LEMMA CompactType ==
    ASSUME NEW t \in Seq(Message)
    PROVE  CompactIfNeeded(t) \in Seq(Message)
<1>1. Msg("summary", <<>>) \in Message
  BY MsgType, EmptyIds, Zenon DEF Roles
<1>2. ASSUME Len(t) > RecentMessages + 1
      PROVE  SubSeq(t, Len(t) - RecentMessages + 1, Len(t)) \in Seq(Message)
  BY <1>2 DEF RecentMessages
<1> QED
  BY <1>1, <1>2 DEF CompactIfNeeded, CompactWithSummary

LEMMA InitType == Init => TypeInv
<1> SUFFICES ASSUME Init PROVE TypeInv
  OBVIOUS
<1> USE ConstantsAssumption, HistoriesAssumption DEF Init
<1>1. ControlType
  <2>1. NoOutcome \in TurnOutcomes
    BY OutcomeType, Zenon DEF NoOutcome
  <2>2. cancelled \in BOOLEAN
    BY Zenon
  <2>3. /\ used \in 0..MaxIterations /\ inferences \in Nat /\ late \subseteq Nat
        /\ resumed \in Seq(Message)
    OBVIOUS
  <2>4. pc \in Final \union {"start", "boundary", "inference", "verify", "critique",
                             "batch", "decide", "execute"}
    OBVIOUS
  <2> QED
    BY <2>1, <2>2, <2>3, <2>4 DEF ControlType
<1>2. BatchType
  BY DEF BatchType
<1>3. CorrectionType
  BY DEF CorrectionType
<1>4. VerifyType
  BY DEF VerifyType, VerifyStates, NewVerifyState, Evidence
<1>5. SessionType
  BY DEF SessionType
<1>6. CursorOK
  BY DEF CursorOK
<1> QED
  BY <1>1, <1>2, <1>3, <1>4, <1>5, <1>6 DEF TypeInv, TypeOK

LEMMA NextType == TypeInv /\ [Next]_vars => TypeInv'
<1> SUFFICES ASSUME TypeInv, [Next]_vars
             PROVE  TypeInv'
  OBVIOUS
<1> USE ConstantsAssumption
<1>t. /\ ControlType /\ BatchType /\ CorrectionType /\ VerifyType /\ SessionType
      /\ CursorOK
  BY DEF TypeInv, TypeOK
<1>u. used \in Nat /\ MaxIterations \in Nat
  BY <1>t DEF ControlType
<1>b. UNCHANGED batch => BatchType'
  BY <1>t DEF BatchType, batch
<1>c. UNCHANGED correction => CorrectionType'
  BY <1>t DEF CorrectionType, correction
<1>v. UNCHANGED verification => VerifyType'
  BY <1>t DEF VerifyType, verification
<1>s. UNCHANGED <<transcript, events, executed>> => SessionType'
  BY <1>t DEF SessionType
<1>e. \A kind \in EventKinds : Append(events, Event(kind, <<>>)) \in Seq(Events)
  <2> SUFFICES ASSUME NEW kind \in EventKinds
               PROVE  Append(events, Event(kind, <<>>)) \in Seq(Events)
    OBVIOUS
  <2>1. Event(kind, <<>>) \in Events
    BY EventType, EmptyIds, Zenon
  <2> QED
    BY <2>1, <1>t, AppendType DEF SessionType
<1>m. \A role \in Roles : Append(transcript, Msg(role, <<>>)) \in Seq(Message)
  <2> SUFFICES ASSUME NEW role \in Roles
               PROVE  Append(transcript, Msg(role, <<>>)) \in Seq(Message)
    OBVIOUS
  <2>1. Msg(role, <<>>) \in Message
    BY MsgType, EmptyIds, Zenon
  <2> QED
    BY <2>1, <1>t, AppendType DEF SessionType
<1>1. CASE Begin
  <2>1. ControlType'
    BY <1>1, <1>t DEF Begin, ControlType, Final
  <2>2. SessionType'
    BY <1>1, <1>t, <1>m, CompactType, Zenon DEF Begin, SessionType, Roles
  <2>3. CursorOK'
    BY <1>1 DEF Begin, CursorOK
  <2> QED
    BY <1>1, <2>1, <2>2, <2>3, <1>b, <1>c, <1>v DEF Begin, TypeInv, TypeOK
<1>2. CASE Boundary
  <2>1. ControlType'
    <3>1. CASE ~BudgetLeft
      BY <1>2, <3>1, <1>t, OutcomeType, Zenon DEF Boundary, Fail, ControlType, Final
    <3>2. CASE BudgetLeft
      <4>1. used' \in 0..MaxIterations
        BY <1>2, <3>2, <1>u DEF Boundary, BudgetLeft
      <4>2. CASE cancelled
        <5>1. outcome' \in TurnOutcomes /\ pc' = "cancelled"
          BY <1>2, <3>2, <4>2, <1>u, OutcomeType, Zenon DEF Boundary, FinishCancelled
        <5> QED
          BY <1>2, <3>2, <4>1, <4>2, <5>1, <1>t DEF Boundary, ControlType, Final
      <4>3. CASE ~cancelled
        <5>1. inferences' \in Nat
          BY <1>2, <3>2, <4>3, <1>t DEF Boundary, ControlType
        <5> QED
          BY <1>2, <3>2, <4>1, <4>3, <5>1, <1>t DEF Boundary, ControlType, Final
      <4> QED
        BY <4>2, <4>3
    <3> QED
      BY <3>1, <3>2
  <2>2. SessionType'
    BY <1>2, <1>t, <1>e, Zenon DEF Boundary, FinishCancelled, SessionType, EventKinds
  <2>3. CursorOK'
    BY <1>2 DEF Boundary, Fail, FinishCancelled, CursorOK
  <2> QED
    BY <1>2, <2>1, <2>2, <2>3, <1>b, <1>c, <1>v DEF Boundary, TypeInv, TypeOK
<1>3. CASE InferenceFails
  <2>1. ControlType'
    BY <1>3, <1>t, OutcomeType, Zenon DEF InferenceFails, Fail, ControlType, Final
  <2>2. CursorOK'
    BY <1>3 DEF InferenceFails, Fail, CursorOK
  <2> QED
    BY <1>3, <2>1, <2>2, <1>b, <1>c, <1>v, <1>s DEF InferenceFails, TypeInv, TypeOK
<1>4. CASE ModelDone
  <2>1. ControlType'
    BY <1>4, <1>t DEF ModelDone, ControlType, Final
  <2>2. VerifyType'
    BY <1>4, <1>t, CritiqueClosed DEF ModelDone, CloseCritique, VerifyType
  <2>3. SessionType'
    BY <1>4, <1>t, <1>e, <1>m, Zenon DEF ModelDone, CloseCritique, SessionType, EventKinds, Roles
  <2>4. CursorOK'
    BY <1>4 DEF ModelDone, CursorOK
  <2> QED
    BY <1>4, <2>1, <2>2, <2>3, <2>4, <1>b, <1>c DEF ModelDone, TypeInv, TypeOK
<1>5. CASE ModelCallsTools
  <2>1. CASE CancelledMeanwhile
    <3>1. ControlType'
      BY <1>5, <2>1, <1>t, <1>u, OutcomeType, Zenon DEF ModelCallsTools, FinishCancelled, ControlType, Final
    <3>2. SessionType'
      BY <1>5, <2>1, <1>t, <1>e DEF ModelCallsTools, FinishCancelled, SessionType, EventKinds
    <3>3. CursorOK'
      BY <1>5, <2>1 DEF ModelCallsTools, FinishCancelled, CursorOK
    <3>4. UNCHANGED batch /\ UNCHANGED verification
      BY <1>5, <2>1 DEF ModelCallsTools, batch, verification
    <3> QED
      BY <1>5, <3>1, <3>2, <3>3, <3>4, <1>b, <1>c, <1>v
      DEF ModelCallsTools, TypeInv, TypeOK
  <2>2. CASE ~CancelledMeanwhile
    <3>1. calls' \in Seq(Call) /\ Len(calls') >= 1
      BY <1>5, <2>2, <1>u, EffectiveCallsType DEF ModelCallsTools
    <3>2. ControlType'
      BY <1>5, <2>2, <1>t, <1>u DEF ModelCallsTools, ControlType, Final
    <3>3. BatchType'
      BY <1>5, <2>2, <1>t, <3>1 DEF ModelCallsTools, BatchType, Slots
    <3>4. VerifyType'
      BY <1>5, <2>2, <1>t, CritiqueClosed DEF ModelCallsTools, CloseCritique, VerifyType
    <3>5. [k \in DOMAIN calls' |-> calls'[k].id] \in Seq(Ids)
      BY <3>1, CallsIds
    <3>6. Msg("calls", [k \in DOMAIN calls' |-> calls'[k].id]) \in Message
      BY <3>5, MsgType DEF Roles
    <3>7. SessionType'
      <4>1. transcript' \in Seq(Message)
        BY <1>5, <2>2, <3>6, <1>t, AppendType, Zenon DEF ModelCallsTools, SessionType
      <4>2. events' \in Seq(Events)
        BY <1>5, <2>2, <1>t, <1>e, Zenon DEF ModelCallsTools, CloseCritique, SessionType, EventKinds
      <4> QED
        BY <1>5, <4>1, <4>2, <1>t DEF ModelCallsTools, SessionType
    <3>8. CursorOK'
      BY <1>5, <2>2, <3>1 DEF ModelCallsTools, CursorOK
    <3> QED
      BY <1>5, <3>2, <3>3, <3>4, <3>7, <3>8, <1>c DEF ModelCallsTools, TypeInv, TypeOK
  <2> QED
    BY <2>1, <2>2
<1>6. CASE RequestBatch
  <2>1. ControlType'
    BY <1>6, <1>t DEF RequestBatch, ControlType, Final
  <2>2. end' \in Nat \ {0} /\ index < end' /\ end' <= Len(calls) + 1
    BY <1>6, <1>t DEF RequestBatch, BatchType
  <2>3. BatchType'
    BY <1>6, <1>t, <2>2 DEF RequestBatch, BatchType
  <2>4. \A k \in 1..(end' - index) : Event("requested", <<calls[index + k - 1].id>>) \in Events
    <3> TAKE k \in 1..(end' - index)
    <3>0. index \in Nat \ {0} /\ Len(calls) \in Nat /\ DOMAIN calls = 1..Len(calls)
      BY <1>t DEF BatchType
    <3>1. index + k - 1 \in DOMAIN calls
      BY <2>2, <3>0, SpanType, Zenon
    <3>2. <<calls[index + k - 1].id>> \in Seq(Ids)
      BY <1>t, <3>1, CallsFields, OneId DEF BatchType
    <3> QED
      BY <3>2, EventType, Zenon DEF EventKinds
  <2>5. Announce(end') \in Seq(Events)
    <3>1. end' - index \in Nat
      <4>1. index \in Nat \ {0} /\ Len(calls) \in Nat
        BY <1>t DEF BatchType
      <4> QED
        BY <4>1, <2>2, SpanType, Zenon
    <3>2. Announce(end') \in [1..(end' - index) -> Events]
      BY <2>4 DEF Announce
    <3> QED
      BY <3>1, <3>2, FunctionSeq
  <2>6. SessionType'
    BY <1>6, <1>t, <2>5, ConcatType DEF RequestBatch, SessionType
  <2>7. CursorOK'
    BY <1>6, <1>t, <2>2 DEF RequestBatch, CursorOK
  <2> QED
    BY <1>6, <2>1, <2>3, <2>6, <2>7, <1>c, <1>v DEF RequestBatch, TypeInv, TypeOK
<1>7. CASE Decide
  <2>1. ControlType'
    BY <1>7, <1>t, OutcomeType, Zenon DEF Decide, Fail, ControlType, Final
  <2>2. BatchType'
    <3>1. CASE UNCHANGED <<slot, granted, started>>
      BY <1>7, <1>t, <3>1 DEF Decide, BatchType
    <3>2. CASE \E allowed \in SUBSET Positions :
            /\ slot' = [p \in DOMAIN slot |->
                          IF p \notin Positions THEN slot[p]
                          ELSE IF p \in Runnable(allowed) THEN "running"
                          ELSE "denied"]
            /\ granted' = granted \union {<<used, p>> : p \in allowed}
            /\ started' = started \union {<<used, p>> : p \in Runnable(allowed)}
      <4>1. slot' \in Seq(Slots) /\ Len(slot') = Len(slot)
        BY <3>2, <1>t DEF BatchType, Slots, Results
      <4>2. Positions \subseteq Nat
        BY <1>t DEF Positions, BatchType
      <4>3. granted' \subseteq Nat \X Nat /\ started' \subseteq Nat \X Nat
        BY <3>2, <4>2, <1>t, <1>u DEF BatchType, Runnable
      <4> QED
        BY <1>7, <1>t, <4>1, <4>3 DEF Decide, BatchType
    <3> QED
      BY <1>7, <3>1, <3>2 DEF Decide
  <2>3. CursorOK'
    BY <1>7, <1>t DEF Decide, Fail, CursorOK, BatchType
  <2> QED
    BY <1>7, <2>1, <2>2, <2>3, <1>c, <1>v, <1>s DEF Decide, TypeInv, TypeOK
<1>8. CASE \E p \in Positions : ToolReturns(p)
  <2>1. PICK p \in Positions : ToolReturns(p)
    BY <1>8
  <2>2. PICK result \in Outcomes :
              /\ slot' = [slot EXCEPT ![p] = result]
              /\ evidence' = IF Mutates(calls[p].op, result) THEN "changed" ELSE evidence
    BY <2>1, Zenon DEF ToolReturns
  <2>3. ControlType'
    BY <2>1, <1>t DEF ToolReturns, ControlType, control
  <2>4. slot' \in Seq(Slots) /\ Len(slot') = Len(slot)
    <3>1. p \in DOMAIN slot
      BY <2>1, <1>t DEF ToolReturns, Positions, CursorOK, BatchType
    <3>2. result \in Slots
      BY <2>2 DEF Slots, Results
    <3> QED
      BY <2>2, <3>1, <3>2, <1>t, SlotFilled DEF BatchType
  <2>5. BatchType'
    BY <2>1, <2>4, <1>t DEF ToolReturns, BatchType
  <2>6. VerifyType'
    BY <2>1, <2>2, <1>t DEF ToolReturns, VerifyType, Evidence
  <2>7. CursorOK'
    BY <2>1, <1>t DEF ToolReturns, CursorOK, control
  <2> QED
    BY <2>1, <2>3, <2>5, <2>6, <2>7, <1>c, <1>s DEF ToolReturns, TypeInv, TypeOK
<1>9. CASE RecordResult
  <2>1. next \in DOMAIN calls /\ next \in DOMAIN slot
    BY <1>9, <1>t DEF RecordResult, BatchType, CursorOK
  <2>2. calls[next].op \in Operations /\ calls[next].id \in Ids /\ slot[next] \in Slots
    BY <2>1, <1>t, CallsFields DEF BatchType
  <2>3. CorrectionType'
    <3> DEFINE op == calls[next].op
               hit == ~Graced(op, slot[next]) /\ BudgetHit(streak[op] + 1)
    <3>1. CASE IsFailure(slot[next])
      <4>1. /\ streak' \in {streak, [streak EXCEPT ![op] = @ + 1]}
            /\ nudged' \in {nudged, [nudged EXCEPT ![op] = @ + 1]}
            /\ failures' = [failures EXCEPT ![op] = @ + 1]
            /\ leading' \in {leading, [leading EXCEPT ![op] = @ + 1]}
        BY <1>9, <3>1 DEF RecordResult, SelfCorrect
      <4>2. op \in Operations
        BY <2>2
      <4> HIDE DEF op
      <4> QED
        BY <4>1, <4>2, <1>t, BumpType DEF CorrectionType
    <3>2. CASE ~IsFailure(slot[next])
      <4>1. /\ streak' = [streak EXCEPT ![op] = 0]
            /\ nudged' = [nudged EXCEPT ![op] = 0]
            /\ failures' = [failures EXCEPT ![op] = 0]
            /\ leading' = [leading EXCEPT ![op] = 0]
        BY <1>9, <3>2 DEF RecordResult, SelfCorrect
      <4>2. op \in Operations
        BY <2>2
      <4> HIDE DEF op
      <4> QED
        BY <4>1, <4>2, <1>t, BumpType DEF CorrectionType
    <3> QED
      BY <3>1, <3>2
  <2>4. nudges' \in Nat
    <3>1. nudges' = nudges + 1 \/ nudges' = nudges
      BY <1>9, Zenon DEF RecordResult, SelfCorrect
    <3> QED
      BY <3>1, <1>t DEF BatchType
  <2>5. BatchType'
    BY <1>9, <2>4, <1>t DEF RecordResult, BatchType
  <2>6. ControlType'
    BY <1>9, <1>t DEF RecordResult, ControlType, control
  <2>7. <<calls[next].id>> \in Seq(Ids)
    BY <2>2, OneId
  <2>8. /\ Msg("result", <<calls[next].id>>) \in Message
        /\ \A kind \in EventKinds : Event(kind, <<calls[next].id>>) \in Events
    BY <2>7, MsgType, EventType, Zenon DEF Roles
  <2>9. [id |-> calls[next].id, op |-> calls[next].op, result |-> slot[next],
         at |-> <<used, next>>] \in ExecutedCall
    BY <2>2, <1>t, <1>u DEF ExecutedCall, BatchType
  <2>10. transcript' \in Seq(Message) /\ executed' \in Seq(ExecutedCall)
    BY <1>9, <2>8, <2>9, <1>t DEF RecordResult, SessionType
  <2>11. events' \in Seq(Events)
    BY <1>9, <2>8, <1>t DEF RecordResult, SessionType, EventKinds
  <2>12. CursorOK'
    BY <1>9, <1>t DEF RecordResult, CursorOK, BatchType, control
  <2> QED
    BY <1>9, <2>3, <2>5, <2>6, <2>10, <2>11, <2>12, <1>v
    DEF RecordResult, SessionType, TypeInv, TypeOK
<1>10. CASE FinishBatch
  <2>1. ControlType'
    BY <1>10, <1>t DEF FinishBatch, ControlType, Final
  <2>2. BatchType'
    BY <1>10, <1>t DEF FinishBatch, BatchType
  <2>3. [k \in 1..nudges |-> Msg("nudge", <<>>)] \in Seq(Message)
    <3>1. Msg("nudge", <<>>) \in Message /\ nudges \in Nat
      BY <1>t, MsgType, EmptyIds, Zenon DEF BatchType, Roles
    <3> QED
      BY <3>1, FunctionSeq
  <2>4. SessionType'
    BY <1>10, <2>3, <1>t DEF FinishBatch, SessionType
  <2>5. CursorOK'
    BY <1>10, <1>t DEF FinishBatch, LastBatch, CursorOK, BatchType
  <2> QED
    BY <1>10, <2>1, <2>2, <2>4, <2>5, <1>c, <1>v DEF FinishBatch, TypeInv, TypeOK
<1>11. CASE RunVerification
  <2>1. PICK v \in CheckRuns :
          LET failed == \E k \in DOMAIN v : v[k] = "fail"
          IN  /\ verify' = [verify EXCEPT !.attempts = @ + 1,
                              !.lastVerified = IF failed THEN "failed" ELSE "passed"]
              /\ events' = events \o [k \in DOMAIN v |->
                   Event(IF v[k] = "unrunnable" THEN "failed" ELSE "verification", <<>>)]
              /\ transcript' = IF failed THEN Append(transcript, Msg("feedback", <<>>))
                                         ELSE transcript
              /\ evidence' = IF failed THEN "failed" ELSE Shown(v)
              /\ pc' = IF failed THEN "boundary" ELSE "critique"
    BY <1>11, Zenon DEF RunVerification
  <2>2. v \in Seq(Verdicts)
    BY CheckRunsType
  <2>3. ControlType'
    BY <1>11, <2>1, <1>t DEF RunVerification, ControlType, Final
  <2>4. VerifyType'
    <3>1. verify \in VerifyStates /\ verify.attempts + 1 \in Nat
      BY <1>t DEF VerifyType, VerifyStates
    <3>2. verify' \in VerifyStates
      BY <2>1, <3>1, AttemptMade, Zenon
    <3>3. evidence' \in Evidence
      BY <2>1 DEF Shown, Evidence
    <3> QED
      BY <3>2, <3>3 DEF VerifyType
  <2>5. [k \in DOMAIN v |-> Event(IF v[k] = "unrunnable" THEN "failed" ELSE "verification",
                                  <<>>)] \in Seq(Events)
    <3> DEFINE Ev(k) == Event(IF v[k] = "unrunnable" THEN "failed" ELSE "verification", <<>>)
    <3>1. \A k \in DOMAIN v : Ev(k) \in Events
      BY EventType, EmptyIds, Zenon DEF EventKinds
    <3>2. Len(v) \in Nat /\ DOMAIN v = 1..Len(v)
      BY <2>2
    <3> HIDE DEF Ev
    <3>3. [k \in DOMAIN v |-> Ev(k)] \in [1..Len(v) -> Events]
      BY <3>1, <3>2
    <3> QED
      BY <3>2, <3>3, FunctionSeq DEF Ev
  <2>6. SessionType'
    <3>1. events' \in Seq(Events)
      BY <2>1, <2>5, <1>t, ConcatType DEF SessionType
    <3>2. transcript' \in Seq(Message)
      BY <2>1, <1>t, <1>m DEF SessionType, Roles
    <3> QED
      BY <1>11, <3>1, <3>2, <1>t DEF RunVerification, SessionType
  <2>7. CursorOK'
    BY <2>1 DEF CursorOK
  <2> QED
    BY <1>11, <2>3, <2>4, <2>6, <2>7, <1>b, <1>c DEF RunVerification, TypeInv, TypeOK
<1>12. CASE SkipVerification
  <2>1. ControlType'
    BY <1>12, <1>t DEF SkipVerification, ControlType, Final
  <2>2. CursorOK'
    BY <1>12 DEF SkipVerification, CursorOK
  <2> QED
    BY <1>12, <2>1, <2>2, <1>b, <1>c, <1>v, <1>s DEF SkipVerification, TypeInv, TypeOK
<1>13. CASE InjectCritique
  <2>1. ControlType'
    BY <1>13, <1>t DEF InjectCritique, ControlType, Final
  <2>2. VerifyType'
    <3>1. Len(executed) \in Nat
      BY <1>t DEF SessionType
    <3>2. verify' \in VerifyStates
      BY <1>13, <3>1, <1>t, CritiqueInjected, Zenon DEF InjectCritique, VerifyType
    <3> QED
      BY <1>13, <3>2, <1>t DEF InjectCritique, VerifyType
  <2>3. SessionType'
    BY <1>13, <1>t, <1>m DEF InjectCritique, SessionType, Roles
  <2>4. CursorOK'
    BY <1>13 DEF InjectCritique, CursorOK
  <2> QED
    BY <1>13, <2>1, <2>2, <2>3, <2>4, <1>b, <1>c DEF InjectCritique, TypeInv, TypeOK
<1>14. CASE Complete
  <2>1. ControlType'
    <3>1. verify.lastVerified \in {"none", "passed", "failed"}
      BY <1>t DEF VerifyType, VerifyStates
    <3> QED
      BY <1>14, <3>1, <1>t, <1>u, OutcomeType, Zenon DEF Complete, ControlType, Final
  <2>2. SessionType'
    BY <1>14, <1>t, <1>e DEF Complete, SessionType, EventKinds
  <2>3. CursorOK'
    BY <1>14 DEF Complete, CursorOK
  <2> QED
    BY <1>14, <2>1, <2>2, <2>3, <1>b, <1>c, <1>v DEF Complete, TypeInv, TypeOK
<1>15. CASE Cancel
  <2>1. ControlType'
    BY <1>15, <1>t DEF Cancel, ControlType
  <2>2. CursorOK'
    BY <1>15, <1>t DEF Cancel, CursorOK, batch
  <2> QED
    BY <1>15, <2>1, <2>2, <1>b, <1>c, <1>v, <1>s DEF Cancel, TypeInv, TypeOK
<1>16. CASE UNCHANGED vars
  <2>1. ControlType'
    BY <1>16, <1>t DEF vars, control, ControlType
  <2>2. CursorOK'
    BY <1>16, <1>t DEF vars, control, batch, CursorOK
  <2> QED
    BY <1>16, <2>1, <2>2, <1>b, <1>c, <1>v, <1>s DEF vars, TypeInv, TypeOK
<1>17. CASE NoChecks
  <2>1. ControlType'
    BY <1>17, <1>t DEF NoChecks, ControlType, Final
  <2>2. VerifyType'
    BY <1>17, <1>t DEF NoChecks, VerifyType, Evidence
  <2>3. CursorOK'
    BY <1>17 DEF NoChecks, CursorOK
  <2> QED
    BY <1>17, <2>1, <2>2, <2>3, <1>b, <1>c, <1>s DEF NoChecks, TypeInv, TypeOK
<1> QED
  BY <1>1, <1>2, <1>3, <1>4, <1>5, <1>6, <1>7, <1>8, <1>9, <1>10, <1>11, <1>12,
     <1>13, <1>14, <1>15, <1>16, <1>17 DEF Next, TurnStep

LEMMA TypeInvariant == Spec => []TypeInv
  BY InitType, NextType, PTL DEF Spec

\* Every variable of the turn keeps its shape, whatever the model, the tools and
\* the permission policy do: the budget is never overdrawn.
THEOREM TypeCorrect == Spec => []TypeOK
<1>1. TypeInv => TypeOK
  BY DEF TypeInv
<1> QED
  BY TypeInvariant, <1>1, PTL

\* The call whose result is recorded is one of the response.
LEMMA RecordedCall ==
    ASSUME TypeInv, RecordResult
    PROVE  /\ next \in DOMAIN calls
           /\ calls[next].id \in Ids /\ calls[next].op \in Operations
<1>1. pc = "execute" /\ next < end
  BY DEF RecordResult
<1>2. /\ calls \in Seq(Call) /\ next \in Nat /\ index \in Nat \ {0} /\ end \in Nat
      /\ index <= next /\ end <= Len(calls) + 1
  BY <1>1 DEF TypeInv, TypeOK, BatchType, CursorOK
<1>3. next \in DOMAIN calls
  BY <1>1, <1>2
<1> QED
  BY <1>2, <1>3, CallsFields

=============================================================================
