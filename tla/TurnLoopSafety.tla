--------------------------- MODULE TurnLoopSafety ---------------------------
(***************************************************************************)
(* The safety properties of TurnLoop, for every number of operations,      *)
(* calls, iterations, checks and for every history.  Each is the           *)
(* consequence of an inductive invariant relative to TypeInv; each         *)
(* invariant has one step per action.                                      *)
(***************************************************************************)
EXTENDS TurnLoopProofs

-----------------------------------------------------------------------------
(* Replan nudges *)

\* The tracker counts a failure unless it is one of the leading ones.
NudgeInv ==
    \A op \in Operations :
        /\ leading[op] <= failures[op]
        /\ streak[op] = failures[op] - leading[op]
        /\ nudged[op] = IF ReplanOnFailure /\ FailureBudget > 0
                             /\ streak[op] >= FailureBudget THEN 1 ELSE 0

LEMMA NudgesInit == Init => NudgeInv
<1> SUFFICES ASSUME Init, NEW op \in Operations
             PROVE  /\ leading[op] <= failures[op]
                    /\ streak[op] = failures[op] - leading[op]
                    /\ nudged[op] = IF ReplanOnFailure /\ FailureBudget > 0
                                         /\ streak[op] >= FailureBudget THEN 1 ELSE 0
  BY Zenon DEF NudgeInv
<1>1. nudged[op] = 0 /\ streak[op] = 0 /\ failures[op] = 0 /\ leading[op] = 0
  BY DEF Init
<1>2. FailureBudget \in Nat
  BY ConstantsAssumption
<1>3. ~(FailureBudget > 0 /\ streak[op] >= FailureBudget)
  BY <1>1, <1>2
<1> QED
  BY <1>1, <1>3

LEMMA NudgesStep == TypeInv /\ NudgeInv /\ [Next]_vars => NudgeInv'
<1> SUFFICES ASSUME TypeInv, NudgeInv, [Next]_vars
             PROVE  NudgeInv'
  OBVIOUS
<1>t. CorrectionType /\ BatchType
  BY DEF TypeInv, TypeOK
<1>1. CASE Begin
  BY <1>1 DEF Begin, NudgeInv, control, batch, correction, verification
<1>2. CASE Boundary
  BY <1>2 DEF Boundary, BudgetLeft, Fail, FinishCancelled, NudgeInv, control, batch, correction, verification
<1>3. CASE InferenceFails
  BY <1>3 DEF InferenceFails, Fail, NudgeInv, control, batch, correction, verification
<1>4. CASE ModelDone
  BY <1>4 DEF ModelDone, CloseCritique, NudgeInv, control, batch, correction, verification
<1>5. CASE ModelCallsTools
  BY <1>5 DEF ModelCallsTools, CloseCritique, FinishCancelled, CancelledMeanwhile, NudgeInv, control, batch, correction, verification
<1>6. CASE RequestBatch
  BY <1>6 DEF RequestBatch, NudgeInv, control, batch, correction, verification
<1>7. CASE Decide
  BY <1>7 DEF Decide, Fail, NudgeInv, control, batch, correction, verification
<1>8. CASE \E p \in Positions : ToolReturns(p)
  BY <1>8 DEF ToolReturns, NudgeInv, control, batch, correction, verification
<1>9. CASE RecordResult
  <2> DEFINE op == calls[next].op
             invalid == slot[next] \in InvalidInput
  <2>1. op \in Operations /\ SelfCorrect(op, slot[next])
    BY <1>9, RecordedCall DEF RecordResult
  <2> HIDE DEF op
  <2>2. SUFFICES ASSUME NEW o \in Operations
                 PROVE  /\ leading'[o] <= failures'[o]
                        /\ streak'[o] = failures'[o] - leading'[o]
                        /\ nudged'[o] = IF ReplanOnFailure /\ FailureBudget > 0
                                            /\ streak'[o] >= FailureBudget THEN 1 ELSE 0
    BY DEF NudgeInv
  <2>3. /\ FailureBudget \in Nat /\ streak[o] \in Nat /\ nudged[o] \in Nat
        /\ failures[o] \in Nat /\ leading[o] \in Nat
        /\ leading[o] <= failures[o] /\ streak[o] = failures[o] - leading[o]
        /\ nudged[o] = IF ReplanOnFailure /\ FailureBudget > 0
                            /\ streak[o] >= FailureBudget THEN 1 ELSE 0
    BY <1>t, ConstantsAssumption DEF CorrectionType, NudgeInv
  <2>4. CASE o # op
    <3>1. /\ streak'[o] = streak[o] /\ nudged'[o] = nudged[o]
          /\ failures'[o] = failures[o] /\ leading'[o] = leading[o]
      BY <2>1, <2>4, <1>t DEF SelfCorrect, CorrectionType
    <3> QED
      BY <2>3, <3>1
  <2>5. CASE o = op /\ ~IsFailure(slot[next])
    <3>1. streak'[o] = 0 /\ nudged'[o] = 0 /\ failures'[o] = 0 /\ leading'[o] = 0
      BY <2>1, <2>5, <1>t DEF SelfCorrect, CorrectionType
    <3> QED
      BY <3>1, <2>3
  <2>6. CASE o = op /\ IsFailure(slot[next])
    <3>1. failures'[o] = failures[o] + 1
      BY <2>1, <2>6, <1>t DEF SelfCorrect, CorrectionType
    <3>2. CASE Graced(op, slot[next])
      <4>1. invalid /\ leading[o] = failures[o]
        BY <2>3, <2>6, <3>2 DEF Graced
      <4>2. /\ streak' = streak /\ nudged' = nudged
            /\ leading'[o] = leading[o] + 1
        BY <2>1, <2>6, <3>2, <4>1, <1>t DEF SelfCorrect, CorrectionType
      <4> QED
        BY <2>3, <3>1, <4>1, <4>2
    <3>3. CASE ~Graced(op, slot[next])
      <4>1. ~(invalid /\ leading[o] = failures[o])
        BY <2>3, <2>6, <3>3 DEF Graced
      <4>2. streak'[o] = streak[o] + 1 /\ leading'[o] = leading[o]
        BY <2>1, <2>6, <3>3, <4>1, <1>t DEF SelfCorrect, CorrectionType
      <4>3. nudged'[o] = IF BudgetHit(streak[o] + 1) THEN nudged[o] + 1 ELSE nudged[o]
        BY <2>1, <2>6, <3>3, <1>t DEF SelfCorrect, CorrectionType
      <4> QED
        BY <2>3, <3>1, <4>2, <4>3 DEF BudgetHit
    <3> QED
      BY <3>2, <3>3
  <2> QED
    BY <2>4, <2>5, <2>6
<1>10. CASE FinishBatch
  BY <1>10 DEF FinishBatch, NudgeInv, control, batch, correction, verification
<1>11. CASE RunVerification
  BY <1>11 DEF RunVerification, NudgeInv, control, batch, correction, verification
<1>12. CASE SkipVerification
  BY <1>12 DEF SkipVerification, NudgeInv, control, batch, correction, verification
<1>13. CASE InjectCritique
  BY <1>13 DEF InjectCritique, NudgeInv, control, batch, correction, verification
<1>14. CASE Complete
  BY <1>14 DEF Complete, NudgeInv, control, batch, correction, verification
<1>15. CASE Cancel
  BY <1>15 DEF Cancel, NudgeInv, control, batch, correction, verification
<1>16. CASE UNCHANGED vars
  BY <1>16 DEF vars, NudgeInv, control, batch, correction, verification
<1>17. CASE NoChecks
  BY <1>17 DEF NoChecks, NudgeInv, control, batch, correction, verification
<1> QED
  BY <1>1, <1>2, <1>3, <1>4, <1>5, <1>6, <1>7, <1>8, <1>9, <1>10, <1>11, <1>12,
     <1>13, <1>14, <1>15, <1>16, <1>17 DEF Next, TurnStep


\* Between two successes of an operation the model is nudged once, when the
\* failures that follow the leading invalid-input ones reach the budget, for
\* every budget and whatever the tools return.
THEOREM NudgedOncePerStreak == Spec => []OneNudgePerStreak
<1>1. NudgeInv => OneNudgePerStreak
  BY Zenon DEF NudgeInv, OneNudgePerStreak
<1> QED
  BY <1>1, NudgesInit, NudgesStep, TypeInvariant, PTL DEF Spec

-----------------------------------------------------------------------------
(* Iterations *)

\* While a turn runs, every consumed iteration has begun its inference.
CountInv ==
    /\ inferences <= used
    /\ pc \notin Final => inferences = used /\ outcome = NoOutcome
    /\ outcome.status \in {"completed", "cancelled"} => outcome.iterations = inferences

LEMMA CountInit == Init => CountInv
  BY DEF Init, CountInv, NoOutcome


LEMMA CountStep == TypeInv /\ CountInv /\ [Next]_vars => CountInv'
<1> SUFFICES ASSUME TypeInv, CountInv, [Next]_vars
             PROVE  CountInv'
  OBVIOUS
<1>t. used \in Nat /\ inferences \in Nat
  BY ConstantsAssumption DEF TypeInv, TypeOK, ControlType
<1>1. CASE Begin
  BY <1>1 DEF Begin, CountInv, Final, control, batch, correction, verification
<1>2. CASE Boundary
  BY <1>2, <1>t DEF Boundary, Fail, FinishCancelled, BudgetLeft, CountInv, Final, NoOutcome
<1>3. CASE InferenceFails
  BY <1>3, <1>t DEF InferenceFails, Fail, CountInv, Final
<1>4. CASE ModelDone
  BY <1>4 DEF ModelDone, CloseCritique, CountInv, Final, control, batch, correction, verification
<1>5. CASE ModelCallsTools
  BY <1>5, <1>t DEF ModelCallsTools, FinishCancelled, CountInv, Final
<1>6. CASE RequestBatch
  BY <1>6 DEF RequestBatch, CountInv, Final, control, batch, correction, verification
<1>7. CASE Decide
  BY <1>7, <1>t DEF Decide, Fail, CountInv, Final
<1>8. CASE \E p \in Positions : ToolReturns(p)
  BY <1>8 DEF ToolReturns, CountInv, Final, control, batch, correction, verification
<1>9. CASE RecordResult
  BY <1>9 DEF RecordResult, SelfCorrect, CountInv, Final, control, batch, correction, verification
<1>10. CASE FinishBatch
  BY <1>10 DEF FinishBatch, CountInv, Final, control, batch, correction, verification
<1>11. CASE RunVerification
  BY <1>11 DEF RunVerification, CountInv, Final, control, batch, correction, verification
<1>12. CASE SkipVerification
  BY <1>12 DEF SkipVerification, CountInv, Final, control, batch, correction, verification
<1>13. CASE InjectCritique
  BY <1>13 DEF InjectCritique, CountInv, Final, control, batch, correction, verification
<1>14. CASE Complete
  BY <1>14 DEF Complete, CountInv, Final, control, batch, correction, verification
<1>15. CASE Cancel
  BY <1>15 DEF Cancel, CountInv, Final, control, batch, correction, verification
<1>16. CASE UNCHANGED vars
  BY <1>16 DEF vars, CountInv, Final, control, batch, correction, verification
<1>17. CASE NoChecks
  BY <1>17 DEF NoChecks, CountInv, Final, control, batch, correction, verification
<1> QED
  BY <1>1, <1>2, <1>3, <1>4, <1>5, <1>6, <1>7, <1>8, <1>9, <1>10, <1>11, <1>12,
     <1>13, <1>14, <1>15, <1>16, <1>17 DEF Next, TurnStep


\* No more inferences are begun than the budget allows, and a turn reports the
\* number it began however it ends, for every budget.
THEOREM IterationsAreReported == Spec => []IterationsReported
<1>1. TypeInv /\ CountInv => IterationsReported
  BY ConstantsAssumption DEF TypeInv, TypeOK, ControlType, CountInv, IterationsReported
<1> QED
  BY <1>1, CountInit, CountStep, TypeInvariant, PTL DEF Spec


-----------------------------------------------------------------------------
(* The order of results *)

Before(a, b) == a[1] < b[1] \/ (a[1] = b[1] /\ a[2] < b[2])

\* What is recorded lies before the cursor <<used, next>>; a call of the current
\* batch has been decided.
OrderInv ==
    /\ \A k \in DOMAIN executed :
         /\ executed[k].at[1] <= used
         /\ executed[k].at[1] = used => pc # "inference" /\ executed[k].at[2] < next
         /\ executed[k].result \in Results
    /\ \A m, n \in DOMAIN executed : m < n => Before(executed[m].at, executed[n].at)
    /\ pc = "execute" => \A p \in Positions : slot[p] # "pending"

LEMMA OrderInit == Init => OrderInv
  BY DEF Init, OrderInv

LEMMA ExecutedAt ==
    ASSUME NEW e \in ExecutedCall
    PROVE  e.at[1] \in Nat /\ e.at[2] \in Nat
<1>1. e.at \in Nat \X Nat
  BY DEF ExecutedCall
<1> QED
  BY <1>1

\* The cursors that stay or grow keep everything recorded before them.
LEMMA RecordedStays ==
    ASSUME TypeInv, OrderInv, executed' = executed, used' \in Nat, next' = next,
           used' >= used, used' = used /\ pc' = "inference" => pc = "inference"
    PROVE  /\ \A k \in DOMAIN executed' :
                /\ executed'[k].at[1] <= used'
                /\ executed'[k].at[1] = used' => pc' # "inference" /\ executed'[k].at[2] < next'
                /\ executed'[k].result \in Results
           /\ \A m, n \in DOMAIN executed' : m < n => Before(executed'[m].at, executed'[n].at)
<1>1. /\ used \in Nat
      /\ \A k \in DOMAIN executed : executed[k].at[1] \in Nat
  <2>1. used \in Nat /\ \A k \in DOMAIN executed : executed[k] \in ExecutedCall
    BY ConstantsAssumption DEF TypeInv, TypeOK, ControlType, SessionType
  <2> QED
    BY <2>1, ExecutedAt
<1>2. ASSUME NEW k \in DOMAIN executed
      PROVE  /\ executed[k].at[1] <= used'
             /\ executed[k].at[1] = used' => pc' # "inference" /\ executed[k].at[2] < next
             /\ executed[k].result \in Results
  BY <1>1 DEF OrderInv
<1> QED
  BY <1>2 DEF OrderInv


LEMMA PositionsInside ==
    ASSUME TypeInv, pc \in {"decide", "execute"}
    PROVE  Positions \subseteq DOMAIN slot
<1>1. /\ index \in Nat \ {0} /\ end \in Nat \ {0} /\ Len(slot) = Len(calls)
      /\ Len(slot) \in Nat /\ DOMAIN slot = 1..Len(slot)
  BY DEF TypeInv, TypeOK, BatchType
<1>2. index < end /\ end <= Len(calls) + 1
  BY DEF TypeInv, CursorOK
<1> QED
  BY <1>1, <1>2 DEF Positions


LEMMA OrderStep == TypeInv /\ OrderInv /\ [Next]_vars => OrderInv'
<1> SUFFICES ASSUME TypeInv, OrderInv, [Next]_vars
             PROVE  OrderInv'
  OBVIOUS
<1>t. used \in Nat
  BY ConstantsAssumption DEF TypeInv, TypeOK, ControlType
<1>1. CASE Begin
  <2>1. executed' = executed /\ used' \in Nat /\ used' >= used /\ next' = next
        /\ (used' = used /\ pc' = "inference" => pc = "inference")
    BY <1>1, <1>t DEF Begin, control, batch, correction, verification
  <2>2. pc' = "execute" => \A p \in Positions' : slot'[p] # "pending"
    BY <1>1 DEF Begin, OrderInv, Positions, control, batch, correction, verification
  <2> QED
    BY <2>1, <2>2, RecordedStays DEF OrderInv
<1>2. CASE Boundary
  <2>1. executed' = executed /\ used' \in Nat /\ used' >= used /\ next' = next
        /\ (used' = used /\ pc' = "inference" => pc = "inference")
    BY <1>2, <1>t DEF Boundary, BudgetLeft, Fail, FinishCancelled, control, batch, correction, verification
  <2>2. pc' = "execute" => \A p \in Positions' : slot'[p] # "pending"
    BY <1>2 DEF Boundary, BudgetLeft, Fail, FinishCancelled, OrderInv, Positions, control, batch, correction, verification
  <2> QED
    BY <2>1, <2>2, RecordedStays DEF OrderInv
<1>3. CASE InferenceFails
  <2>1. executed' = executed /\ used' \in Nat /\ used' >= used /\ next' = next
        /\ (used' = used /\ pc' = "inference" => pc = "inference")
    BY <1>3, <1>t DEF InferenceFails, Fail, control, batch, correction, verification
  <2>2. pc' = "execute" => \A p \in Positions' : slot'[p] # "pending"
    BY <1>3 DEF InferenceFails, Fail, OrderInv, Positions, control, batch, correction, verification
  <2> QED
    BY <2>1, <2>2, RecordedStays DEF OrderInv
<1>4. CASE ModelDone
  <2>1. executed' = executed /\ used' \in Nat /\ used' >= used /\ next' = next
        /\ (used' = used /\ pc' = "inference" => pc = "inference")
    BY <1>4, <1>t DEF ModelDone, CloseCritique, control, batch, correction, verification
  <2>2. pc' = "execute" => \A p \in Positions' : slot'[p] # "pending"
    BY <1>4 DEF ModelDone, CloseCritique, OrderInv, Positions, control, batch, correction, verification
  <2> QED
    BY <2>1, <2>2, RecordedStays DEF OrderInv
<1>5. CASE ModelCallsTools
  <2>1. \A k \in DOMAIN executed : executed[k].at[1] <= used /\ executed[k].at[1] # used
    BY <1>5 DEF ModelCallsTools, OrderInv
  <2>2. executed' = executed /\ used' = used /\ pc' # "execute"
    BY <1>5 DEF ModelCallsTools, FinishCancelled
  <2> QED
    BY <2>1, <2>2 DEF OrderInv
<1>6. CASE RequestBatch
  <2>1. executed' = executed /\ used' \in Nat /\ used' >= used /\ next' = next
        /\ (used' = used /\ pc' = "inference" => pc = "inference")
    BY <1>6, <1>t DEF RequestBatch, control, batch, correction, verification
  <2>2. pc' = "execute" => \A p \in Positions' : slot'[p] # "pending"
    BY <1>6 DEF RequestBatch, OrderInv, Positions, control, batch, correction, verification
  <2> QED
    BY <2>1, <2>2, RecordedStays DEF OrderInv
<1>7. CASE Decide
  <2>1. executed' = executed /\ used' = used /\ next' = next /\ pc' # "inference"
    BY <1>7 DEF Decide, Fail
  <2>2. pc' = "execute" => \A p \in Positions' : slot'[p] # "pending"
    <3> SUFFICES ASSUME pc' = "execute", NEW p \in Positions'
                 PROVE  slot'[p] # "pending"
      OBVIOUS
    <3>1. PICK allowed \in SUBSET Positions :
            slot' = [q \in DOMAIN slot |-> IF q \notin Positions THEN slot[q]
                                           ELSE IF q \in Runnable(allowed) THEN "running"
                                           ELSE "denied"]
      BY <1>7 DEF Decide, Fail
    <3>2. p \in Positions /\ p \in DOMAIN slot
      BY <1>7, PositionsInside DEF Decide, Positions
    <3> QED
      BY <3>1, <3>2
  <2> QED
    BY <2>1, <2>2, <1>t, RecordedStays DEF OrderInv
<1>8. CASE \E p \in Positions : ToolReturns(p)
  <2>1. PICK p \in Positions : ToolReturns(p)
    BY <1>8
  <2>2. executed' = executed /\ used' = used /\ next' = next /\ pc' = pc /\ Positions' = Positions
    BY <2>1 DEF ToolReturns, control, Positions
  <2>3. \A q \in Positions : slot[q] # "pending" => slot'[q] # "pending"
    <3>1. PICK r \in Outcomes : slot' = [slot EXCEPT ![p] = r]
      BY <2>1, Zenon DEF ToolReturns
    <3>2. r # "pending"
      BY ConstantsAssumption DEF ToolOutcomes, NoErrorKey, ErrResults
    <3>3. Positions \subseteq DOMAIN slot
      BY <2>1, PositionsInside DEF ToolReturns
    <3> QED
      BY <3>1, <3>2, <3>3
  <2> QED
    BY <2>2, <2>3, <1>t, RecordedStays DEF OrderInv
<1>9. CASE RecordResult
  <2> DEFINE new == [id |-> calls[next].id, op |-> calls[next].op,
                     result |-> slot[next], at |-> <<used, next>>]
  <2>1. executed' = Append(executed, new) /\ next' = next + 1
    BY <1>9 DEF RecordResult
  <2>2. used' = used /\ pc' = "execute" /\ pc = "execute" /\ slot' = slot /\ Positions' = Positions
    BY <1>9 DEF RecordResult, control, Positions
  <2>3. next \in Positions /\ next \in DOMAIN slot
    BY <1>9, PositionsInside DEF RecordResult, Positions, TypeInv, CursorOK, TypeOK, BatchType
  <2>4. slot[next] \in Results
    <3>1. slot[next] # "running" /\ slot[next] # "pending"
      BY <1>9, <2>2, <2>3 DEF RecordResult, BatchReturned, OrderInv
    <3>2. slot[next] \in Slots
      BY <2>3 DEF TypeInv, TypeOK, BatchType
    <3> QED
      BY <3>1, <3>2 DEF Slots
  <2>5. new.at[1] = used /\ new.at[2] = next /\ new.result = slot[next] /\ next \in Nat
    BY DEF TypeInv, TypeOK, BatchType
  <2> HIDE DEF new
  <2>6. executed \in Seq(ExecutedCall) /\ Len(executed) \in Nat
    BY DEF TypeInv, TypeOK, SessionType
  <2>7. /\ DOMAIN executed' = 1..(Len(executed) + 1)
        /\ \A k \in DOMAIN executed : executed'[k] = executed[k]
        /\ executed'[Len(executed) + 1] = new
        /\ DOMAIN executed = 1..Len(executed)
    BY <2>1, <2>6
  <2>8. ASSUME NEW k \in DOMAIN executed
        PROVE  /\ executed[k].at[1] <= used
               /\ executed[k].at[1] = used => executed[k].at[2] < next
               /\ executed[k].at[1] \in Nat /\ executed[k].at[2] \in Nat
               /\ executed[k].result \in Results
    <3>1. executed[k].at[1] \in Nat /\ executed[k].at[2] \in Nat
      <4>1. executed[k] \in ExecutedCall
        BY <2>6
      <4> QED
        BY <4>1, ExecutedAt
    <3> QED
      BY <3>1, <2>2 DEF OrderInv
  <2>9. ASSUME NEW k \in DOMAIN executed'
        PROVE  /\ executed'[k].at[1] <= used'
               /\ executed'[k].at[1] = used' => pc' # "inference" /\ executed'[k].at[2] < next'
               /\ executed'[k].result \in Results
    <3>1. CASE k \in DOMAIN executed
      BY <3>1, <2>1, <2>2, <2>5, <2>7, <2>8
    <3>2. CASE k = Len(executed) + 1
      BY <3>2, <1>t, <2>1, <2>2, <2>4, <2>5, <2>7
    <3> QED
      BY <3>1, <3>2, <2>6, <2>7
  <2>10. ASSUME NEW m \in DOMAIN executed', NEW n \in DOMAIN executed', m < n
         PROVE  Before(executed'[m].at, executed'[n].at)
    <3>1. m \in DOMAIN executed
      BY <2>6, <2>7, <2>10
    <3>2. CASE n \in DOMAIN executed
      BY <2>7, <2>10, <3>1, <3>2 DEF OrderInv
    <3>3. CASE n = Len(executed) + 1
      BY <2>5, <2>7, <2>8, <3>1, <3>3, <1>t DEF Before
    <3> QED
      BY <3>2, <3>3, <2>6, <2>7
  <2> QED
    BY <2>2, <2>9, <2>10 DEF OrderInv
<1>10. CASE FinishBatch
  <2>1. executed' = executed /\ used' \in Nat /\ used' >= used /\ next' = next
        /\ (used' = used /\ pc' = "inference" => pc = "inference")
    BY <1>10, <1>t DEF FinishBatch, control, batch, correction, verification
  <2>2. pc' = "execute" => \A p \in Positions' : slot'[p] # "pending"
    BY <1>10 DEF FinishBatch, OrderInv, Positions, control, batch, correction, verification
  <2> QED
    BY <2>1, <2>2, RecordedStays DEF OrderInv
<1>11. CASE RunVerification
  <2>1. executed' = executed /\ used' \in Nat /\ used' >= used /\ next' = next
        /\ (used' = used /\ pc' = "inference" => pc = "inference")
    BY <1>11, <1>t DEF RunVerification, control, batch, correction, verification
  <2>2. pc' = "execute" => \A p \in Positions' : slot'[p] # "pending"
    BY <1>11 DEF RunVerification, OrderInv, Positions, control, batch, correction, verification
  <2> QED
    BY <2>1, <2>2, RecordedStays DEF OrderInv
<1>12. CASE SkipVerification
  <2>1. executed' = executed /\ used' \in Nat /\ used' >= used /\ next' = next
        /\ (used' = used /\ pc' = "inference" => pc = "inference")
    BY <1>12, <1>t DEF SkipVerification, control, batch, correction, verification
  <2>2. pc' = "execute" => \A p \in Positions' : slot'[p] # "pending"
    BY <1>12 DEF SkipVerification, OrderInv, Positions, control, batch, correction, verification
  <2> QED
    BY <2>1, <2>2, RecordedStays DEF OrderInv
<1>13. CASE InjectCritique
  <2>1. executed' = executed /\ used' \in Nat /\ used' >= used /\ next' = next
        /\ (used' = used /\ pc' = "inference" => pc = "inference")
    BY <1>13, <1>t DEF InjectCritique, control, batch, correction, verification
  <2>2. pc' = "execute" => \A p \in Positions' : slot'[p] # "pending"
    BY <1>13 DEF InjectCritique, OrderInv, Positions, control, batch, correction, verification
  <2> QED
    BY <2>1, <2>2, RecordedStays DEF OrderInv
<1>14. CASE Complete
  <2>1. executed' = executed /\ used' \in Nat /\ used' >= used /\ next' = next
        /\ (used' = used /\ pc' = "inference" => pc = "inference")
    BY <1>14, <1>t DEF Complete, control, batch, correction, verification
  <2>2. pc' = "execute" => \A p \in Positions' : slot'[p] # "pending"
    BY <1>14 DEF Complete, OrderInv, Positions, control, batch, correction, verification
  <2> QED
    BY <2>1, <2>2, RecordedStays DEF OrderInv
<1>15. CASE Cancel
  <2>1. executed' = executed /\ used' \in Nat /\ used' >= used /\ next' = next
        /\ (used' = used /\ pc' = "inference" => pc = "inference")
    BY <1>15, <1>t DEF Cancel, control, batch, correction, verification
  <2>2. pc' = "execute" => \A p \in Positions' : slot'[p] # "pending"
    BY <1>15 DEF Cancel, OrderInv, Positions, control, batch, correction, verification
  <2> QED
    BY <2>1, <2>2, RecordedStays DEF OrderInv
<1>16. CASE UNCHANGED vars
  <2>1. executed' = executed /\ used' \in Nat /\ used' >= used /\ next' = next
        /\ (used' = used /\ pc' = "inference" => pc = "inference")
    BY <1>16, <1>t DEF vars, control, batch, correction, verification
  <2>2. pc' = "execute" => \A p \in Positions' : slot'[p] # "pending"
    BY <1>16 DEF vars, OrderInv, Positions, control, batch, correction, verification
  <2> QED
    BY <2>1, <2>2, RecordedStays DEF OrderInv
<1>17. CASE NoChecks
  <2>1. executed' = executed /\ used' \in Nat /\ used' >= used /\ next' = next
        /\ (used' = used /\ pc' = "inference" => pc = "inference")
    BY <1>17, <1>t DEF NoChecks, control, batch, correction, verification
  <2>2. pc' = "execute" => \A p \in Positions' : slot'[p] # "pending"
    BY <1>17 DEF NoChecks, OrderInv, Positions, control, batch, correction, verification
  <2> QED
    BY <2>1, <2>2, RecordedStays DEF OrderInv
<1> QED
  BY <1>1, <1>2, <1>3, <1>4, <1>5, <1>6, <1>7, <1>8, <1>9, <1>10, <1>11, <1>12,
     <1>13, <1>14, <1>15, <1>16, <1>17 DEF Next, TurnStep

LEMMA OrderInvariant == Spec => []OrderInv
  BY OrderInit, OrderStep, TypeInvariant, PTL DEF Spec

\* Results are recorded in the order the model asked for the calls, for any
\* number of responses and batches and any order in which tools finish.
THEOREM ResultsInCallOrder == Spec => []RecordedInCallOrder
<1>1. OrderInv => RecordedInCallOrder
  BY DEF OrderInv, Before, RecordedInCallOrder
<1> QED
  BY <1>1, OrderInvariant, PTL


-----------------------------------------------------------------------------
(* Permissions and cancellation *)

\* Grants lie before the end of the batch; a slot and a recorded result say
\* "denied" exactly when the call has no grant.
GrantInv ==
    /\ started \subseteq granted
    /\ \A c \in granted :
         /\ c[1] <= used
         /\ c[1] = used => /\ pc # "inference"
                           /\ pc \in {"batch", "decide"} => c[2] < index
                           /\ pc = "execute" => c[2] < end
    /\ \A k \in DOMAIN executed :
         executed[k].result = "denied" <=> executed[k].at \notin granted
    /\ pc = "execute" => \A p \in Positions : slot[p] = "denied" <=> <<used, p>> \notin granted

LEMMA GrantInit == Init => GrantInv
  BY DEF Init, GrantInv

\* An action that grants nothing, records nothing and moves the cursors forward.
LEMMA GrantStays ==
    ASSUME TypeInv, GrantInv, UNCHANGED <<started, granted, executed>>,
           used' \in Nat, used' >= used,
           pc' \in {"inference", "batch", "decide"} => used' # used,
           pc' # "execute"
    PROVE  GrantInv'
<1>1. used \in Nat /\ \A c \in granted : c[1] \in Nat /\ c[2] \in Nat
  BY ConstantsAssumption DEF TypeInv, TypeOK, ControlType, BatchType
<1>2. ASSUME NEW c \in granted
      PROVE  /\ c[1] <= used'
             /\ c[1] = used' => /\ pc' # "inference"
                                /\ pc' \in {"batch", "decide"} => c[2] < index'
                                /\ pc' = "execute" => c[2] < end'
  BY <1>1 DEF GrantInv
<1> QED
  BY <1>2 DEF GrantInv



LEMMA GrantSame ==
    ASSUME TypeInv, GrantInv,
           UNCHANGED <<started, granted, executed, used, pc, index, end, slot>>
    PROVE  GrantInv'
  BY DEF GrantInv, Positions

LEMMA GrantStep == TypeInv /\ OrderInv /\ GrantInv /\ [Next]_vars => GrantInv'
<1> SUFFICES ASSUME TypeInv, OrderInv, GrantInv, [Next]_vars
             PROVE  GrantInv'
  OBVIOUS
<1>t. used \in Nat
  BY ConstantsAssumption DEF TypeInv, TypeOK, ControlType
<1>1. CASE Begin
  <2>1. UNCHANGED <<started, granted, executed>> /\ used' \in Nat /\ used' >= used
        /\ (pc' \in {"inference", "batch", "decide", "execute"} => used' # used)
        /\ pc' # "execute"
    BY <1>1, <1>t DEF Begin, control, batch, correction, verification
  <2> QED
    BY <2>1, GrantStays
<1>2. CASE Boundary
  <2>1. UNCHANGED <<started, granted, executed>> /\ used' \in Nat /\ used' >= used
        /\ (pc' \in {"inference", "batch", "decide", "execute"} => used' # used)
        /\ pc' # "execute"
    BY <1>2, <1>t DEF Boundary, BudgetLeft, Fail, FinishCancelled, control, batch, correction, verification
  <2> QED
    BY <2>1, GrantStays
<1>3. CASE InferenceFails
  <2>1. UNCHANGED <<started, granted, executed>> /\ used' \in Nat /\ used' >= used
        /\ (pc' \in {"inference", "batch", "decide", "execute"} => used' # used)
        /\ pc' # "execute"
    BY <1>3, <1>t DEF InferenceFails, Fail, control, batch, correction, verification
  <2> QED
    BY <2>1, GrantStays
<1>4. CASE ModelDone
  <2>1. UNCHANGED <<started, granted, executed>> /\ used' \in Nat /\ used' >= used
        /\ (pc' \in {"inference", "batch", "decide", "execute"} => used' # used)
        /\ pc' # "execute"
    BY <1>4, <1>t DEF ModelDone, CloseCritique, control, batch, correction, verification
  <2> QED
    BY <2>1, GrantStays
<1>5. CASE ModelCallsTools
  <2>1. UNCHANGED <<started, granted, executed, used>> /\ pc = "inference"
        /\ pc' \notin {"inference", "execute"}
    BY <1>5 DEF ModelCallsTools, FinishCancelled
  <2>2. \A c \in granted : c[1] <= used /\ c[1] # used
    BY <2>1 DEF GrantInv
  <2> QED
    BY <2>1, <2>2 DEF GrantInv
<1>6. CASE RequestBatch
  <2>1. UNCHANGED <<started, granted, executed, used, index>> /\ pc = "batch" /\ pc' = "decide"
    BY <1>6 DEF RequestBatch
  <2> QED
    BY <2>1 DEF GrantInv
<1>7. CASE Decide
  <2>1. CASE Fail("permission") /\ UNCHANGED <<granted, started>>
    BY <1>7, <2>1 DEF Decide, Fail, GrantInv
  <2>2. CASE \E allowed \in SUBSET Positions :
              /\ slot' = [p \in DOMAIN slot |->
                            IF p \notin Positions THEN slot[p]
                            ELSE IF p \in Runnable(allowed) THEN "running" ELSE "denied"]
              /\ granted' = granted \union {<<used, p>> : p \in allowed}
              /\ started' = started \union {<<used, p>> : p \in Runnable(allowed)}
              /\ pc' = "execute"
    <3>1. PICK allowed \in SUBSET Positions :
              /\ slot' = [p \in DOMAIN slot |->
                            IF p \notin Positions THEN slot[p]
                            ELSE IF p \in allowed THEN "running" ELSE "denied"]
              /\ granted' = granted \union {<<used, p>> : p \in allowed}
              /\ started' = started \union {<<used, p>> : p \in allowed}
              /\ pc' = "execute"
      BY <2>2 DEF Runnable
    <3>2. /\ UNCHANGED <<used, index, end, executed>> /\ Positions' = Positions /\ pc = "decide"
          /\ next = index
      BY <1>7 DEF Decide, Positions, TypeInv, CursorOK
    <3>3. /\ Positions \subseteq DOMAIN slot
          /\ index \in Nat /\ end \in Nat /\ index < end
          /\ \A c \in granted : c[1] \in Nat /\ c[2] \in Nat
      BY <3>2, PositionsInside DEF TypeInv, TypeOK, BatchType, CursorOK
    <3>4. started' \subseteq granted'
      BY <3>1 DEF GrantInv
    <3>5. ASSUME NEW c \in granted'
          PROVE  c[1] <= used /\ (c[1] = used => c[2] < end)
      <4>1. CASE c \in granted
        BY <4>1, <3>2, <3>3 DEF GrantInv
      <4>2. CASE \E p \in allowed : c = <<used, p>>
        BY <4>2, <1>t, <3>3 DEF Positions
      <4> QED
        BY <3>1, <4>1, <4>2
    <3>6. ASSUME NEW k \in DOMAIN executed
          PROVE  executed[k].result = "denied" <=> executed[k].at \notin granted'
      <4>1. executed[k].at[1] \in Nat /\ executed[k].at[2] \in Nat
        BY ExecutedAt DEF TypeInv, TypeOK, SessionType
      <4>2. executed[k].at[1] = used => executed[k].at[2] < index
        BY <3>2 DEF OrderInv
      <4>3. \A p \in allowed : executed[k].at # <<used, p>>
        BY <4>1, <4>2, <3>3 DEF Positions
      <4> QED
        BY <3>1, <4>3 DEF GrantInv
    <3>7. ASSUME NEW p \in Positions
          PROVE  slot'[p] = "denied" <=> <<used, p>> \notin granted'
      <4>1. <<used, p>> \notin granted
        BY <3>2, <3>3 DEF GrantInv, Positions
      <4> QED
        BY <3>1, <3>3, <4>1
    <3> QED
      BY <3>1, <3>2, <3>4, <3>5, <3>6, <3>7 DEF GrantInv
  <2> QED
    BY <1>7, <2>1, <2>2 DEF Decide
<1>8. CASE \E p \in Positions : ToolReturns(p)
  <2>1. PICK p \in Positions : ToolReturns(p)
    BY <1>8
  <2>2. /\ UNCHANGED <<started, granted, executed, used, pc, index, end>>
        /\ Positions' = Positions /\ pc = "execute"
    BY <2>1 DEF ToolReturns, control, Positions
  <2>3. \A q \in Positions : slot'[q] = "denied" <=> slot[q] = "denied"
    <3>1. PICK r \in Outcomes : slot' = [slot EXCEPT ![p] = r] /\ slot[p] = "running"
      BY <2>1, Zenon DEF ToolReturns
    <3>2. r # "denied"
      BY ConstantsAssumption DEF ToolOutcomes, NoErrorKey, ErrResults
    <3>3. Positions \subseteq DOMAIN slot
      BY <2>2, PositionsInside
    <3> QED
      BY <3>1, <3>2, <3>3
  <2> QED
    BY <2>2, <2>3 DEF GrantInv
<1>9. CASE RecordResult
  <2> DEFINE new == [id |-> calls[next].id, op |-> calls[next].op,
                     result |-> slot[next], at |-> <<used, next>>]
  <2>1. /\ executed' = Append(executed, new)
        /\ UNCHANGED <<started, granted, used, pc, index, end, slot>>
        /\ Positions' = Positions /\ pc = "execute"
    BY <1>9 DEF RecordResult, control, Positions
  <2>2. next \in Positions
    BY <1>9 DEF RecordResult, Positions, TypeInv, CursorOK, TypeOK, BatchType
  <2>3. new.result = slot[next] /\ new.at = <<used, next>>
    OBVIOUS
  <2> HIDE DEF new
  <2>4. executed \in Seq(ExecutedCall) /\ Len(executed) \in Nat
    BY DEF TypeInv, TypeOK, SessionType
  <2>5. ASSUME NEW k \in DOMAIN executed'
        PROVE  executed'[k].result = "denied" <=> executed'[k].at \notin granted
    <3>1. CASE k \in DOMAIN executed
      <4>1. executed'[k] = executed[k]
        BY <2>1, <2>4, <3>1
      <4> QED
        BY <3>1, <4>1 DEF GrantInv
    <3>2. CASE k = Len(executed) + 1
      <4>1. executed'[k] = new
        BY <2>1, <2>4, <3>2
      <4> QED
        BY <2>1, <2>2, <2>3, <4>1, Zenon DEF GrantInv
    <3> QED
      BY <2>1, <2>4, <3>1, <3>2
  <2> QED
    BY <2>1, <2>5 DEF GrantInv
<1>10. CASE FinishBatch
  <2>1. UNCHANGED <<started, granted, executed, used>> /\ index' = end /\ pc = "execute"
        /\ pc' \in {"boundary", "batch"}
    BY <1>10 DEF FinishBatch
  <2> QED
    BY <2>1 DEF GrantInv
<1>11. CASE RunVerification
  <2>1. UNCHANGED <<started, granted, executed>> /\ used' \in Nat /\ used' >= used
        /\ (pc' \in {"inference", "batch", "decide", "execute"} => used' # used)
        /\ pc' # "execute"
    BY <1>11, <1>t DEF RunVerification, control, batch, correction, verification
  <2> QED
    BY <2>1, GrantStays
<1>12. CASE SkipVerification
  <2>1. UNCHANGED <<started, granted, executed>> /\ used' \in Nat /\ used' >= used
        /\ (pc' \in {"inference", "batch", "decide", "execute"} => used' # used)
        /\ pc' # "execute"
    BY <1>12, <1>t DEF SkipVerification, control, batch, correction, verification
  <2> QED
    BY <2>1, GrantStays
<1>13. CASE InjectCritique
  <2>1. UNCHANGED <<started, granted, executed>> /\ used' \in Nat /\ used' >= used
        /\ (pc' \in {"inference", "batch", "decide", "execute"} => used' # used)
        /\ pc' # "execute"
    BY <1>13, <1>t DEF InjectCritique, control, batch, correction, verification
  <2> QED
    BY <2>1, GrantStays
<1>14. CASE Complete
  <2>1. UNCHANGED <<started, granted, executed>> /\ used' \in Nat /\ used' >= used
        /\ (pc' \in {"inference", "batch", "decide", "execute"} => used' # used)
        /\ pc' # "execute"
    BY <1>14, <1>t DEF Complete, control, batch, correction, verification
  <2> QED
    BY <2>1, GrantStays
<1>15. CASE Cancel
  <2>1. UNCHANGED <<started, granted, executed, used, pc, index, end, slot>>
    BY <1>15 DEF Cancel, control, batch, correction, verification
  <2> QED
    BY <2>1, GrantSame
<1>16. CASE UNCHANGED vars
  <2>1. UNCHANGED <<started, granted, executed, used, pc, index, end, slot>>
    BY <1>16 DEF vars, control, batch, correction, verification
  <2> QED
    BY <2>1, GrantSame
<1>17. CASE NoChecks
  <2>1. UNCHANGED <<started, granted, executed>> /\ used' \in Nat /\ used' >= used
        /\ (pc' \in {"inference", "batch", "decide", "execute"} => used' # used)
        /\ pc' # "execute"
    BY <1>17, <1>t DEF NoChecks, control, batch, correction, verification
  <2> QED
    BY <2>1, GrantStays
<1> QED
  BY <1>1, <1>2, <1>3, <1>4, <1>5, <1>6, <1>7, <1>8, <1>9, <1>10, <1>11, <1>12,
     <1>13, <1>14, <1>15, <1>16, <1>17 DEF Next, TurnStep

LEMMA GrantInvariant == Spec => []GrantInv
  BY GrantInit, GrantStep, OrderInvariant, TypeInvariant, PTL DEF Spec

\* A tool runs only if the policy allowed that very call, and a result says
\* "denied" exactly for the calls it did not allow, whatever the policy answers.
THEOREM GrantedCallsOnly == Spec => []OnlyGrantedCallsRun
<1>1. GrantInv => OnlyGrantedCallsRun
  BY DEF GrantInv, OnlyGrantedCallsRun
<1> QED
  BY <1>1, GrantInvariant, PTL

\* A response that arrives after the cancellation ends the turn.
LateInv == CancelStopsTools /\ (late # {} => pc = "cancelled")

LEMMA LateInit == Init => LateInv
  BY DEF Init, LateInv, CancelStopsTools


LEMMA LateStep == TypeInv /\ GrantInv /\ LateInv /\ [Next]_vars => LateInv'
<1> SUFFICES ASSUME TypeInv, GrantInv, LateInv, [Next]_vars
             PROVE  LateInv'
  OBVIOUS
<1>1. CASE Begin
  BY <1>1 DEF Begin, LateInv, CancelStopsTools, control, batch, correction, verification
<1>2. CASE Boundary
  BY <1>2 DEF Boundary, BudgetLeft, Fail, FinishCancelled, LateInv, CancelStopsTools, control, batch, correction, verification
<1>3. CASE InferenceFails
  BY <1>3 DEF InferenceFails, Fail, LateInv, CancelStopsTools, control, batch, correction, verification
<1>4. CASE ModelDone
  BY <1>4 DEF ModelDone, CloseCritique, LateInv, CancelStopsTools, control, batch, correction, verification
<1>5. CASE ModelCallsTools
  <2>1. late = {} /\ started' = started
    BY <1>5 DEF ModelCallsTools, LateInv
  <2>2. \A c \in started : c[1] # used
    BY <1>5 DEF ModelCallsTools, GrantInv
  <2>3. CASE ~cancelled
    BY <1>5, <2>1, <2>3 DEF ModelCallsTools, LateInv, CancelStopsTools
  <2>4. CASE cancelled
    <3>1. pc' = "cancelled" /\ late' = {used}
      BY <1>5, <2>1, <2>4 DEF ModelCallsTools, FinishCancelled, CancelledMeanwhile
    <3> QED
      BY <2>1, <2>2, <3>1 DEF LateInv, CancelStopsTools
  <2> QED
    BY <2>3, <2>4 DEF TypeInv, TypeOK, ControlType
<1>6. CASE RequestBatch
  BY <1>6 DEF RequestBatch, LateInv, CancelStopsTools, control, batch, correction, verification
<1>7. CASE Decide
  <2>1. late' = late /\ late = {}
    BY <1>7 DEF Decide, LateInv
  <2> QED
    BY <2>1 DEF LateInv, CancelStopsTools
<1>8. CASE \E p \in Positions : ToolReturns(p)
  BY <1>8 DEF ToolReturns, LateInv, CancelStopsTools, control, batch, correction, verification
<1>9. CASE RecordResult
  BY <1>9 DEF RecordResult, SelfCorrect, LateInv, CancelStopsTools, control, batch, correction, verification
<1>10. CASE FinishBatch
  BY <1>10 DEF FinishBatch, LateInv, CancelStopsTools, control, batch, correction, verification
<1>11. CASE RunVerification
  BY <1>11 DEF RunVerification, LateInv, CancelStopsTools, control, batch, correction, verification
<1>12. CASE SkipVerification
  BY <1>12 DEF SkipVerification, LateInv, CancelStopsTools, control, batch, correction, verification
<1>13. CASE InjectCritique
  BY <1>13 DEF InjectCritique, LateInv, CancelStopsTools, control, batch, correction, verification
<1>14. CASE Complete
  BY <1>14 DEF Complete, LateInv, CancelStopsTools, control, batch, correction, verification
<1>15. CASE Cancel
  BY <1>15 DEF Cancel, LateInv, CancelStopsTools, control, batch, correction, verification
<1>16. CASE UNCHANGED vars
  BY <1>16 DEF vars, LateInv, CancelStopsTools, control, batch, correction, verification
<1>17. CASE NoChecks
  BY <1>17 DEF NoChecks, LateInv, CancelStopsTools, control, batch, correction, verification
<1> QED
  BY <1>1, <1>2, <1>3, <1>4, <1>5, <1>6, <1>7, <1>8, <1>9, <1>10, <1>11, <1>12,
     <1>13, <1>14, <1>15, <1>16, <1>17 DEF Next, TurnStep


\* No tool call of a response that arrived after the cancellation is executed,
\* at whatever moment the other task sets the signal.
THEOREM CancellationStopsTools == Spec => []CancelStopsTools
<1>1. LateInv => CancelStopsTools
  BY DEF LateInv
<1> QED
  BY <1>1, LateInit, LateStep, GrantInvariant, TypeInvariant, PTL DEF Spec

-----------------------------------------------------------------------------
(* Concurrency *)

\* A call runs only in the current batch and before its results are recorded.
OverlapInv ==
    /\ \A p \in DOMAIN slot :
         slot[p] = "running" => pc = "execute" /\ p \in Positions /\ next = index
    /\ pc \in {"decide", "execute"} => IsBatch(index, end)

LEMMA OverlapInit == Init => OverlapInv
  BY DEF Init, OverlapInv


LEMMA OverlapStep == TypeInv /\ OverlapInv /\ [Next]_vars => OverlapInv'
<1> SUFFICES ASSUME TypeInv, OverlapInv, [Next]_vars
             PROVE  OverlapInv'
  OBVIOUS
<1>1. CASE Begin
  BY <1>1 DEF Begin, OverlapInv, IsBatch, Positions, control, batch, correction, verification
<1>2. CASE Boundary
  BY <1>2 DEF Boundary, BudgetLeft, Fail, FinishCancelled, OverlapInv, IsBatch, Positions, control, batch, correction, verification
<1>3. CASE InferenceFails
  BY <1>3 DEF InferenceFails, Fail, OverlapInv, IsBatch, Positions, control, batch, correction, verification
<1>4. CASE ModelDone
  BY <1>4 DEF ModelDone, CloseCritique, OverlapInv, IsBatch, Positions, control, batch, correction, verification
<1>5. CASE ModelCallsTools
  <2>1. CASE CancelledMeanwhile
    BY <1>5, <2>1 DEF ModelCallsTools, FinishCancelled, OverlapInv
  <2>2. CASE ~CancelledMeanwhile
    <3>1. slot' = [k \in DOMAIN calls' |-> "pending"] /\ pc' = "batch"
      BY <1>5, <2>2 DEF ModelCallsTools
    <3> QED
      BY <3>1 DEF OverlapInv
  <2> QED
    BY <2>1, <2>2
<1>6. CASE RequestBatch
  BY <1>6, Zenon DEF RequestBatch, OverlapInv, IsBatch, Positions, control, batch, correction, verification
<1>7. CASE Decide
  <2>1. CASE pc' = "failed" /\ slot' = slot
    BY <1>7, <2>1 DEF Decide, OverlapInv
  <2>2. CASE pc' = "execute"
    <3>1. PICK allowed \in SUBSET Positions :
            slot' = [q \in DOMAIN slot |-> IF q \notin Positions THEN slot[q]
                                           ELSE IF q \in Runnable(allowed) THEN "running"
                                           ELSE "denied"]
      BY <1>7, <2>2 DEF Decide, Fail
    <3>2. /\ UNCHANGED <<calls, index, end, next>> /\ Positions' = Positions /\ pc = "decide"
          /\ next = index
      BY <1>7 DEF Decide, Positions, TypeInv, CursorOK
    <3>3. IsBatch(index, end)'
      BY <3>2 DEF OverlapInv, IsBatch
    <3>4. \A p \in DOMAIN slot' : slot'[p] = "running" => p \in Positions
      BY <3>1, <3>2 DEF OverlapInv
    <3> QED
      BY <2>2, <3>2, <3>3, <3>4 DEF OverlapInv
  <2> QED
    BY <1>7, <2>1, <2>2 DEF Decide, Fail
<1>8. CASE \E p \in Positions : ToolReturns(p)
  <2>1. PICK p \in Positions : ToolReturns(p)
    BY <1>8
  <2>2. UNCHANGED <<pc, calls, index, end, next>> /\ Positions' = Positions
    BY <2>1 DEF ToolReturns, control, Positions
  <2>3. PICK r \in Outcomes : slot' = [slot EXCEPT ![p] = r]
    BY <2>1, Zenon DEF ToolReturns
  <2>4. r # "running"
    BY ConstantsAssumption DEF ToolOutcomes, NoErrorKey, ErrResults
  <2>5. \A q \in DOMAIN slot' : slot'[q] = "running" => q \in DOMAIN slot /\ slot[q] = "running"
    BY <2>3, <2>4
  <2>6. IsBatch(index, end)' <=> IsBatch(index, end)
    BY <2>2 DEF IsBatch
  <2> QED
    BY <2>2, <2>5, <2>6 DEF OverlapInv
<1>9. CASE RecordResult
  <2>1. UNCHANGED <<pc, calls, index, end, slot>> /\ BatchReturned
    BY <1>9 DEF RecordResult, control
  <2>2. \A p \in DOMAIN slot : slot[p] # "running"
    BY <2>1 DEF BatchReturned, OverlapInv
  <2> QED
    BY <2>1, <2>2 DEF OverlapInv, IsBatch
<1>10. CASE FinishBatch
  <2>1. slot' = slot /\ pc' \notin {"decide", "execute"} /\ next = end /\ pc = "execute"
    BY <1>10 DEF FinishBatch
  <2>2. next # index
    BY <2>1 DEF TypeInv, CursorOK, TypeOK, BatchType
  <2> QED
    BY <2>1, <2>2 DEF OverlapInv
<1>11. CASE RunVerification
  BY <1>11 DEF RunVerification, OverlapInv, IsBatch, Positions, control, batch, correction, verification
<1>12. CASE SkipVerification
  BY <1>12 DEF SkipVerification, OverlapInv, IsBatch, Positions, control, batch, correction, verification
<1>13. CASE InjectCritique
  BY <1>13 DEF InjectCritique, OverlapInv, IsBatch, Positions, control, batch, correction, verification
<1>14. CASE Complete
  BY <1>14 DEF Complete, OverlapInv, IsBatch, Positions, control, batch, correction, verification
<1>15. CASE Cancel
  BY <1>15 DEF Cancel, OverlapInv, IsBatch, Positions, control, batch, correction, verification
<1>16. CASE UNCHANGED vars
  BY <1>16 DEF vars, OverlapInv, IsBatch, Positions, control, batch, correction, verification
<1>17. CASE NoChecks
  BY <1>17 DEF NoChecks, OverlapInv, IsBatch, Positions, control, batch, correction, verification
<1> QED
  BY <1>1, <1>2, <1>3, <1>4, <1>5, <1>6, <1>7, <1>8, <1>9, <1>10, <1>11, <1>12,
     <1>13, <1>14, <1>15, <1>16, <1>17 DEF Next, TurnStep


\* Tools that run at the same time are all concurrency-safe, however many calls
\* a response has and however the batches fall.
THEOREM SafeToolsOverlap == Spec => []OnlySafeToolsOverlap
<1>1. ASSUME TypeInv, OverlapInv
      PROVE  OnlySafeToolsOverlap
  <2> SUFFICES ASSUME NEW p \in DOMAIN slot, NEW q \in DOMAIN slot, p # q,
                      slot[p] = "running", slot[q] = "running"
               PROVE  calls[p].op \in Safe /\ calls[q].op \in Safe
    BY DEF OnlySafeToolsOverlap
  <2>1. p \in Positions /\ q \in Positions /\ IsBatch(index, end)
    BY <1>1 DEF OverlapInv
  <2>2. index \in Nat /\ end \in Nat
    BY <1>1 DEF TypeInv, TypeOK, BatchType
  <2> QED
    BY <2>1, <2>2 DEF Positions, IsBatch
<1> QED
  BY <1>1, OverlapInit, OverlapStep, TypeInvariant, PTL DEF Spec

=============================================================================
