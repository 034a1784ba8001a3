-------------------------- MODULE TurnLoopAnswers --------------------------
(***************************************************************************)
(* What a turn of TurnLoop hands back, for every number of operations,     *)
(* calls, iterations, checks and for every history: changes that went      *)
(* through verification, and a transcript whose calls are answered.        *)
(***************************************************************************)
EXTENDS TurnLoopProofs

-----------------------------------------------------------------------------
(* Verification before the turn is done *)

ChecksLeft ==
    SelfVerify /\ TurnMutated /\ verify.attempts < VerifyIterations

Settled ==
    /\ evidence \in {"passed", "unrunnable", "missing"}
    /\ evidence = "passed" => verify.lastVerified = "passed"

\* The reflection is asked for only when the changes are settled, and they stay
\* so until a tool has run: its results are recorded before the turn moves on.
DoneInv ==
    /\ verify.executedAtCritique <= Len(executed)
    /\ pc = "critique" /\ ChecksLeft => Settled
    /\ pc = "completed" => outcome.verified = verify.lastVerified
    /\ pc = "completed" /\ ChecksLeft => Settled
    /\ (/\ pc \in {"boundary", "inference", "verify", "batch", "decide"}
        /\ verify.injected
        /\ Len(executed) <= verify.executedAtCritique
        /\ ChecksLeft) => Settled
    /\ pc = "execute" /\ next > index => Len(executed) > verify.executedAtCritique

LEMMA DoneInit == Init => DoneInv
<1> SUFFICES ASSUME Init PROVE DoneInv
  OBVIOUS
<1>1. verify.executedAtCritique = 0 /\ Len(executed) = 0
  BY DEF Init, NewVerifyState
<1> QED
  BY <1>1 DEF Init, DoneInv


LEMMA CritiqueClosedFields ==
    ASSUME NEW v \in VerifyStates, NEW w \in {v, [v EXCEPT !.pending = FALSE]}
    PROVE  /\ w.attempts = v.attempts
           /\ w.injected = v.injected
           /\ w.executedAtCritique = v.executedAtCritique
           /\ w.lastVerified = v.lastVerified
  BY DEF VerifyStates

\* The reflection is asked for after the first batch boundary.
StartInv == pc = "start" => ~verify.injected

LEMMA StartInit == Init => StartInv
  BY DEF Init, StartInv, NewVerifyState


LEMMA StartStep == TypeInv /\ StartInv /\ [Next]_vars => StartInv'
<1> SUFFICES ASSUME TypeInv, StartInv, [Next]_vars
             PROVE  StartInv'
  OBVIOUS
<1>1. CASE Begin
  BY <1>1 DEF Begin, StartInv, control, batch, correction, verification
<1>2. CASE Boundary
  BY <1>2 DEF Boundary, BudgetLeft, Fail, FinishCancelled, StartInv, control, batch, correction, verification
<1>3. CASE InferenceFails
  BY <1>3 DEF InferenceFails, Fail, StartInv, control, batch, correction, verification
<1>4. CASE ModelDone
  BY <1>4 DEF ModelDone, CloseCritique, StartInv, control, batch, correction, verification
<1>5. CASE ModelCallsTools
  BY <1>5 DEF ModelCallsTools, CloseCritique, FinishCancelled, CancelledMeanwhile, StartInv, control, batch, correction, verification
<1>6. CASE RequestBatch
  BY <1>6 DEF RequestBatch, StartInv, control, batch, correction, verification
<1>7. CASE Decide
  BY <1>7 DEF Decide, Fail, StartInv, control, batch, correction, verification
<1>8. CASE \E p \in Positions : ToolReturns(p)
  BY <1>8 DEF ToolReturns, StartInv, control, batch, correction, verification
<1>9. CASE RecordResult
  BY <1>9 DEF RecordResult, SelfCorrect, StartInv, control, batch, correction, verification
<1>10. CASE FinishBatch
  BY <1>10 DEF FinishBatch, StartInv, control, batch, correction, verification
<1>11. CASE RunVerification
  BY <1>11 DEF RunVerification, StartInv
<1>12. CASE SkipVerification
  BY <1>12 DEF SkipVerification, StartInv, control, batch, correction, verification
<1>13. CASE InjectCritique
  BY <1>13 DEF InjectCritique, StartInv
<1>14. CASE Complete
  BY <1>14 DEF Complete, StartInv, control, batch, correction, verification
<1>15. CASE Cancel
  BY <1>15 DEF Cancel, StartInv, control, batch, correction, verification
<1>16. CASE UNCHANGED vars
  BY <1>16 DEF vars, StartInv, control, batch, correction, verification
<1>17. CASE NoChecks
  BY <1>17 DEF NoChecks, StartInv, control, batch, correction, verification
<1> QED
  BY <1>1, <1>2, <1>3, <1>4, <1>5, <1>6, <1>7, <1>8, <1>9, <1>10, <1>11, <1>12,
     <1>13, <1>14, <1>15, <1>16, <1>17 DEF Next, TurnStep

LEMMA DoneStep == TypeInv /\ StartInv /\ DoneInv /\ [Next]_vars => DoneInv'
<1> SUFFICES ASSUME TypeInv, StartInv, DoneInv, [Next]_vars
             PROVE  DoneInv'
  OBVIOUS
<1>t. verify \in VerifyStates
  BY DEF TypeInv, TypeOK, VerifyType
<1>1. CASE Begin
  <2>1. UNCHANGED <<verify, executed>> /\ ~verify.injected /\ pc' = "boundary"
    BY <1>1 DEF Begin, verification, DoneInv, StartInv
  <2> QED
    BY <2>1 DEF DoneInv
<1>2. CASE Boundary
  <2>1. UNCHANGED <<verify, executed, evidence>>
    BY <1>2 DEF Boundary, BudgetLeft, Fail, FinishCancelled, control, batch, correction, verification
  <2>2. ChecksLeft' <=> ChecksLeft
    BY <2>1 DEF ChecksLeft, TurnMutated
  <2> QED
    BY <1>2, <2>1, <2>2 DEF Boundary, BudgetLeft, Fail, FinishCancelled, DoneInv, Settled, control, batch, correction, verification
<1>3. CASE InferenceFails
  <2>1. UNCHANGED <<verify, executed, evidence>>
    BY <1>3 DEF InferenceFails, Fail, control, batch, correction, verification
  <2>2. ChecksLeft' <=> ChecksLeft
    BY <2>1 DEF ChecksLeft, TurnMutated
  <2> QED
    BY <1>3, <2>1, <2>2 DEF InferenceFails, Fail, DoneInv, Settled, control, batch, correction, verification
<1>4. CASE ModelDone
  <2>1. /\ UNCHANGED <<executed, evidence>> /\ pc = "inference"
        /\ verify' \in {verify, [verify EXCEPT !.pending = FALSE]}
        /\ pc' \in {"verify", "batch", "cancelled"}
    BY <1>4 DEF ModelDone, CloseCritique
  <2>2. /\ verify'.attempts = verify.attempts
        /\ verify'.injected = verify.injected
        /\ verify'.executedAtCritique = verify.executedAtCritique
        /\ verify'.lastVerified = verify.lastVerified
    BY <2>1, <1>t, CritiqueClosedFields, Zenon
  <2>3. ChecksLeft' <=> ChecksLeft
    BY <2>1, <2>2 DEF ChecksLeft, TurnMutated
  <2>4. Settled' <=> Settled
    BY <2>1, <2>2 DEF Settled
  <2> QED
    BY <2>1, <2>2, <2>3, <2>4 DEF DoneInv
<1>5. CASE ModelCallsTools
  <2>1. /\ UNCHANGED <<executed, evidence>> /\ pc = "inference"
        /\ verify' \in {verify, [verify EXCEPT !.pending = FALSE]}
        /\ pc' \in {"verify", "batch", "cancelled"}
    BY <1>5 DEF ModelCallsTools, CloseCritique, FinishCancelled
  <2>2. /\ verify'.attempts = verify.attempts
        /\ verify'.injected = verify.injected
        /\ verify'.executedAtCritique = verify.executedAtCritique
        /\ verify'.lastVerified = verify.lastVerified
    BY <2>1, <1>t, CritiqueClosedFields, Zenon
  <2>3. ChecksLeft' <=> ChecksLeft
    BY <2>1, <2>2 DEF ChecksLeft, TurnMutated
  <2>4. Settled' <=> Settled
    BY <2>1, <2>2 DEF Settled
  <2> QED
    BY <2>1, <2>2, <2>3, <2>4 DEF DoneInv
<1>6. CASE RequestBatch
  <2>1. UNCHANGED <<verify, executed, evidence>>
    BY <1>6 DEF RequestBatch, control, batch, correction, verification
  <2>2. ChecksLeft' <=> ChecksLeft
    BY <2>1 DEF ChecksLeft, TurnMutated
  <2> QED
    BY <1>6, <2>1, <2>2 DEF RequestBatch, DoneInv, Settled, control, batch, correction, verification
<1>7. CASE Decide
  <2>1. UNCHANGED <<verify, executed, evidence, next, index>> /\ pc = "decide"
        /\ pc' \in {"failed", "execute"}
    BY <1>7 DEF Decide, Fail, verification
  <2>2. next = index /\ index \in Nat
    BY <2>1 DEF TypeInv, CursorOK, TypeOK, BatchType
  <2> QED
    BY <2>1, <2>2 DEF DoneInv
<1>8. CASE \E p \in Positions : ToolReturns(p)
  <2>1. UNCHANGED <<verify, executed, next, index, pc>> /\ pc = "execute"
    BY <1>8 DEF ToolReturns, control
  <2> QED
    BY <2>1 DEF DoneInv
<1>9. CASE RecordResult
  <2>1. UNCHANGED <<verify, index, pc>> /\ pc = "execute" /\ Len(executed') = Len(executed) + 1
        /\ Len(executed) \in Nat /\ verify.executedAtCritique \in Nat
    BY <1>9, <1>t DEF RecordResult, control, verification, VerifyStates, TypeInv, TypeOK, SessionType
  <2>2. verify.executedAtCritique <= Len(executed)
    BY DEF DoneInv
  <2>3. /\ verify'.executedAtCritique <= Len(executed')
        /\ Len(executed') > verify'.executedAtCritique
        /\ pc' = "execute"
    BY <2>1, <2>2
  <2> QED
    BY <2>3 DEF DoneInv
<1>10. CASE FinishBatch
  <2>1. UNCHANGED <<verify, executed, evidence>> /\ pc' \in {"boundary", "batch"}
        /\ pc = "execute" /\ next > index
    BY <1>10 DEF FinishBatch, verification, TypeInv, CursorOK, TypeOK, BatchType
  <2>2. Len(executed) > verify.executedAtCritique
    BY <2>1 DEF DoneInv
  <2>3. Len(executed) \in Nat /\ verify.executedAtCritique \in Nat
    BY <1>t DEF VerifyStates, TypeInv, TypeOK, SessionType
  <2> QED
    BY <2>1, <2>2, <2>3 DEF DoneInv
<1>11. CASE RunVerification
  <2>1. PICK v \in CheckRuns :
          LET failed == \E k \in DOMAIN v : v[k] = "fail"
          IN  /\ verify' = [verify EXCEPT !.attempts = @ + 1,
                              !.lastVerified = IF failed THEN "failed" ELSE "passed"]
              /\ evidence' = IF failed THEN "failed" ELSE Shown(v)
              /\ pc' = IF failed THEN "boundary" ELSE "critique"
    BY <1>11, Zenon DEF RunVerification
  <2>2. executed' = executed
    BY <1>11 DEF RunVerification
  <2>3. /\ verify'.injected = verify.injected
        /\ verify'.executedAtCritique = verify.executedAtCritique
    BY <2>1, <1>t DEF VerifyStates
  <2>4. CASE \E k \in DOMAIN v : v[k] = "fail"
    <3>1. ~verify.injected \/ Len(executed) > verify.executedAtCritique
      BY <1>11 DEF RunVerification, VerificationDue, ReflectionAddedWork
    <3>2. Len(executed) \in Nat /\ verify.executedAtCritique \in Nat
      BY <1>t DEF VerifyStates, TypeInv, TypeOK, SessionType
    <3> QED
      BY <2>1, <2>2, <2>3, <2>4, <3>1, <3>2 DEF DoneInv
  <2>5. CASE ~ \E k \in DOMAIN v : v[k] = "fail"
    <3>1. /\ verify'.lastVerified = "passed" /\ pc' = "critique"
          /\ evidence' \in {"passed", "unrunnable"}
      BY <2>1, <2>5, <1>t DEF VerifyStates, Shown
    <3> QED
      BY <2>2, <2>3, <3>1 DEF DoneInv, Settled
  <2> QED
    BY <2>4, <2>5
<1>12. CASE SkipVerification
  <2>1. UNCHANGED <<verify, executed, evidence>> /\ pc = "verify" /\ pc' = "critique"
    BY <1>12 DEF SkipVerification, verification
  <2>2. /\ ChecksLeft' <=> ChecksLeft
        /\ Settled' <=> Settled
    BY <2>1 DEF ChecksLeft, TurnMutated, Settled
  <2>3. ChecksLeft => verify.injected /\ ~(Len(executed) > verify.executedAtCritique)
    BY <1>12 DEF SkipVerification, VerificationDue, ReflectionAddedWork, ChecksLeft
  <2>4. Len(executed) \in Nat /\ verify.executedAtCritique \in Nat
    BY <1>t DEF VerifyStates, TypeInv, TypeOK, SessionType
  <2>5. Len(executed) <= verify.executedAtCritique \/ ~ChecksLeft
    BY <2>3, <2>4
  <2>6. ChecksLeft => Settled
    BY <2>1, <2>3, <2>5 DEF DoneInv
  <2>7. verify'.executedAtCritique <= Len(executed')
    BY <2>1 DEF DoneInv
  <2> QED
    BY <2>1, <2>2, <2>6, <2>7 DEF DoneInv
<1>13. CASE InjectCritique
  <2>1. UNCHANGED <<executed, evidence>> /\ pc = "critique" /\ pc' = "boundary"
    BY <1>13 DEF InjectCritique
  <2>2. /\ verify'.attempts = verify.attempts
        /\ verify'.executedAtCritique = Len(executed)
        /\ verify'.lastVerified = verify.lastVerified
        /\ Len(executed) \in Nat
    BY <1>13, <1>t DEF InjectCritique, VerifyStates, TypeInv, TypeOK, SessionType
  <2>3. /\ ChecksLeft' <=> ChecksLeft
        /\ Settled' <=> Settled
    BY <2>1, <2>2 DEF ChecksLeft, TurnMutated, Settled
  <2> QED
    BY <2>1, <2>2, <2>3 DEF DoneInv
<1>14. CASE Complete
  <2>1. UNCHANGED <<verify, executed, evidence>> /\ pc = "critique" /\ pc' = "completed"
        /\ outcome'.verified = verify.lastVerified
    BY <1>14 DEF Complete, verification
  <2>2. /\ ChecksLeft' <=> ChecksLeft
        /\ Settled' <=> Settled
    BY <2>1 DEF ChecksLeft, TurnMutated, Settled
  <2> QED
    BY <2>1, <2>2 DEF DoneInv, Settled
<1>15. CASE Cancel
  <2>1. UNCHANGED <<verify, executed, evidence>>
    BY <1>15 DEF Cancel, control, batch, correction, verification
  <2>2. ChecksLeft' <=> ChecksLeft
    BY <2>1 DEF ChecksLeft, TurnMutated
  <2> QED
    BY <1>15, <2>1, <2>2 DEF Cancel, DoneInv, Settled, control, batch, correction, verification
<1>16. CASE UNCHANGED vars
  <2>1. UNCHANGED <<verify, executed, evidence>>
    BY <1>16 DEF vars, control, batch, correction, verification
  <2>2. ChecksLeft' <=> ChecksLeft
    BY <2>1 DEF ChecksLeft, TurnMutated
  <2> QED
    BY <1>16, <2>1, <2>2 DEF vars, DoneInv, Settled, control, batch, correction, verification
<1>17. CASE NoChecks
  <2>1. UNCHANGED <<verify, executed>> /\ evidence' = "missing" /\ pc' = "critique"
    BY <1>17 DEF NoChecks
  <2> QED
    BY <2>1 DEF DoneInv, Settled
<1> QED
  BY <1>1, <1>2, <1>3, <1>4, <1>5, <1>6, <1>7, <1>8, <1>9, <1>10, <1>11, <1>12,
     <1>13, <1>14, <1>15, <1>16, <1>17 DEF Next, TurnStep


\* A turn that changed the workspace and has attempts left completes only after
\* a done-point that follows its last change, where every check passed and the
\* turn says so, or one could not be run or found, for every number of checks.
THEOREM ChangesVerifiedBeforeDone == Spec => []VerifiedBeforeDone
<1>1. DoneInv => VerifiedBeforeDone
  BY DEF DoneInv, Settled, ChecksLeft, VerifiedBeforeDone
<1> QED
  BY <1>1, DoneInit, DoneStep, StartInit, StartStep, TypeInvariant, PTL DEF Spec


-----------------------------------------------------------------------------
(* The transcript *)

\* w continues the transcript t.
Continues(t, w) ==
    /\ Len(t) <= Len(w)
    /\ \A j \in DOMAIN t : w[j] = t[j]

LEMMA AppendContinues ==
    ASSUME NEW t \in Seq(Message), NEW m \in Message
    PROVE  /\ Continues(t, Append(t, m))
           /\ Append(t, m) \in Seq(Message)
           /\ \A j \in DOMAIN Append(t, m) : j \in DOMAIN t \/ j = Len(t) + 1
           /\ Append(t, m)[Len(t) + 1] = m
           /\ Len(t) + 1 \in DOMAIN Append(t, m)
  BY DEF Continues

\* Behind a call with no later response there is none after messages that
\* request nothing either, ...
LEMMA NoCallsBehind ==
    ASSUME NEW t \in Seq(Message), NEW w \in Seq(Message), Continues(t, w),
           \A j \in DOMAIN w : j \in DOMAIN t \/ w[j].role # "calls",
           NEW i \in DOMAIN t, \A q \in (i + 1)..Len(t) : t[q].role # "calls"
    PROVE  \A q \in (i + 1)..Len(w) : w[q].role # "calls"
<1> SUFFICES ASSUME NEW q \in (i + 1)..Len(w) PROVE w[q].role # "calls"
  OBVIOUS
<1>1. q \in DOMAIN w /\ i \in Nat
  OBVIOUS
<1>2. CASE q \in DOMAIN t
  <2>1. q \in (i + 1)..Len(t) /\ w[q] = t[q]
    BY <1>1, <1>2 DEF Continues
  <2> QED
    BY <2>1
<1> QED
  BY <1>1, <1>2

\* ... and its result may be appended.
LEMMA ResultAnswers ==
    ASSUME NEW t \in Seq(Message), NEW i \in DOMAIN t, NEW k \in DOMAIN t[i].ids,
           \A q \in (i + 1)..Len(t) : t[q].role # "calls",
           NEW m \in Message, m = Msg("result", <<t[i].ids[k]>>),
           NEW w, w = Append(t, m)
    PROVE  Answered(w, i, k)
<1> DEFINE n == Len(t) + 1
<1>1. /\ Len(t) \in Nat /\ i \in 1..Len(t) /\ DOMAIN t = 1..Len(t)
      /\ Len(w) = n /\ w[n] = m
      /\ \A j \in 1..Len(t) : w[j] = t[j]
  OBVIOUS
<1>2. n \in (i + 1)..Len(w) /\ w[i] = t[i]
  BY <1>1
<1>3. ASSUME NEW q \in (i + 1)..(n - 1) PROVE w[q].role # "calls"
  <2>1. q \in (i + 1)..Len(t) /\ q \in 1..Len(t)
    BY <1>1
  <2> QED
    BY <1>1, <2>1
<1>4. w[n] = Msg("result", <<w[i].ids[k]>>)
  BY <1>1, <1>2
<1> HIDE DEF n
<1> QED
  BY <1>2, <1>3, <1>4 DEF Answered

LEMMA ConcatFacts ==
    ASSUME NEW s \in Seq(Message), NEW t \in Seq(Message)
    PROVE  /\ s \o t \in Seq(Message)
           /\ Len(s \o t) = Len(s) + Len(t)
           /\ \A j \in 1..Len(s) : (s \o t)[j] = s[j]
           /\ \A j \in (Len(s) + 1)..(Len(s) + Len(t)) : (s \o t)[j] = t[j - Len(s)]
  OBVIOUS

LEMMA AnsweredContinues ==
    ASSUME NEW t \in Seq(Message), NEW w \in Seq(Message), Continues(t, w),
           NEW i \in DOMAIN t, NEW k \in DOMAIN t[i].ids, Answered(t, i, k)
    PROVE  Answered(w, i, k)
<1>1. PICK j \in (i + 1)..Len(t) : /\ t[j] = Msg("result", <<t[i].ids[k]>>)
                                   /\ \A m \in (i + 1)..(j - 1) : t[m].role # "calls"
  BY DEF Answered
<1>2. Len(t) \in Nat /\ Len(w) \in Nat /\ DOMAIN t = 1..Len(t) /\ i \in Nat /\ i >= 1
  OBVIOUS
<1>3. j \in DOMAIN t /\ j \in (i + 1)..Len(w)
  BY <1>2 DEF Continues
<1>4. w[j] = t[j] /\ w[i] = t[i]
  BY <1>3 DEF Continues
<1>5. ASSUME NEW m \in (i + 1)..(j - 1)
      PROVE  w[m].role # "calls"
  <2>1. m \in DOMAIN t
    BY <1>2
  <2> QED
    BY <1>1, <2>1 DEF Continues
<1> QED
  BY <1>1, <1>3, <1>4, <1>5 DEF Answered

\* Every call of t has its result, or had none when the turn was resumed.
AllAnswered(t) ==
    \A i \in DOMAIN t : t[i].role = "calls" =>
        \A k \in DOMAIN t[i].ids : Answered(t, i, k) \/ Interrupted(i, k)

\* Messages that request nothing leave nothing unanswered.
LEMMA AllAnsweredContinues ==
    ASSUME NEW t \in Seq(Message), NEW w \in Seq(Message), Continues(t, w), AllAnswered(t),
           \A j \in DOMAIN w : j \in DOMAIN t \/ w[j].role # "calls"
    PROVE  AllAnswered(w)
<1> SUFFICES ASSUME NEW i \in DOMAIN w, w[i].role = "calls", NEW k \in DOMAIN w[i].ids
             PROVE  Answered(w, i, k) \/ Interrupted(i, k)
  BY DEF AllAnswered
<1>1. i \in DOMAIN t /\ w[i] = t[i]
  BY DEF Continues
<1>2. Answered(t, i, k) \/ Interrupted(i, k)
  BY <1>1 DEF AllAnswered
<1> QED
  BY <1>1, <1>2, AnsweredContinues

\* Compaction keeps a suffix: an answer follows its call, so it stays.
LEMMA CompactKeepsAnswers ==
    ASSUME NEW t \in Seq(Message), NEW i \in DOMAIN CompactIfNeeded(t),
           CompactIfNeeded(t)[i].role = "calls"
    PROVE  LET w == CompactIfNeeded(t)
               b == i + Len(t) - Len(w)
           IN  /\ b \in DOMAIN t
               /\ t[b] = w[i]
               /\ \A k \in DOMAIN w[i].ids : Answered(t, b, k) => Answered(w, i, k)
<1>1. CASE ~(AtBlockingLimit /\ Len(t) > RecentMessages + 1)
  <2>1. CompactIfNeeded(t) = t
    BY <1>1 DEF CompactIfNeeded
  <2>2. i \in DOMAIN t /\ i + Len(t) - Len(t) = i
    BY <2>1
  <2> QED
    BY <2>1, <2>2
<1>2. CASE AtBlockingLimit /\ Len(t) > RecentMessages + 1
  <2> DEFINE n == Len(t) - 4
             s == SubSeq(t, n + 1, Len(t))
             w == <<Msg("summary", <<>>)>> \o s
  <2>1. CompactIfNeeded(t) = w
    BY <1>2 DEF CompactIfNeeded, CompactWithSummary, RecentMessages
  <2>2. Len(t) \in Nat /\ n \in Nat /\ n >= 2 /\ Len(t) = n + 4
    BY <1>2 DEF RecentMessages
  <2> HIDE DEF n
  <2>3. s \in Seq(Message) /\ Len(s) = 4 /\ \A j \in 1..4 : s[j] = t[n + j]
    BY <2>2
  <2>4. Msg("summary", <<>>) \in Message /\ Msg("summary", <<>>).role = "summary"
    BY MsgType, EmptyIds, Zenon DEF Roles
  <2> HIDE DEF s
  <2>5. w \in Seq(Message) /\ Len(w) = 5 /\ w[1] = Msg("summary", <<>>)
        /\ \A j \in 2..5 : w[j] = s[j - 1]
    <3> DEFINE one == <<Msg("summary", <<>>)>>
    <3>1. one \in Seq(Message) /\ Len(one) = 1 /\ one[1] = Msg("summary", <<>>)
      BY <2>4
    <3> HIDE DEF one
    <3>2. /\ one \o s \in Seq(Message)
          /\ Len(one \o s) = Len(one) + Len(s)
          /\ \A j \in 1..Len(one) : (one \o s)[j] = one[j]
          /\ \A j \in (Len(one) + 1)..(Len(one) + Len(s)) : (one \o s)[j] = s[j - Len(one)]
      BY <2>3, <3>1, ConcatFacts, Zenon
    <3> DEFINE c == one \o s
    <3>3. c = w /\ c \in Seq(Message)
      BY <3>2 DEF one
    <3> HIDE DEF c, w
    <3>4. /\ Len(c) = 5
          /\ \A j \in 1..1 : c[j] = one[j]
          /\ \A j \in 2..5 : c[j] = s[j - 1]
      BY <3>1, <3>2, <2>3 DEF c
    <3> QED
      BY <3>1, <3>3, <3>4
  <2> HIDE DEF w
  <2>6. \A j \in 2..5 : w[j] = t[n + j - 1] /\ n + j - 1 \in DOMAIN t
    BY <2>2, <2>3, <2>5
  <2>7. i \in 2..5 /\ i + Len(t) - Len(w) = n + i - 1
    <3>1. i \in DOMAIN w /\ w[i].role = "calls"
      BY <2>1
    <3>2. i \in 1..5 /\ i # 1
      BY <2>4, <2>5, <3>1
    <3> QED
      BY <2>2, <2>5, <3>2
  <2>8. ASSUME NEW k \in DOMAIN w[i].ids, Answered(t, n + i - 1, k)
        PROVE  Answered(w, i, k)
    <3>1. PICK j \in (n + i)..Len(t) :
            /\ t[j] = Msg("result", <<t[n + i - 1].ids[k]>>)
            /\ \A m \in (n + i)..(j - 1) : t[m].role # "calls"
      <4>1. n + i - 1 + 1 = n + i /\ n + i - 1 \in Nat
        BY <2>2, <2>7
      <4> DEFINE b == n + i - 1
      <4>2. PICK j \in (b + 1)..Len(t) :
              /\ t[j] = Msg("result", <<t[b].ids[k]>>)
              /\ \A m \in (b + 1)..(j - 1) : t[m].role # "calls"
        BY <2>8 DEF Answered
      <4> QED
        BY <4>1, <4>2
    <3>2. j - n + 1 \in (i + 1)..5 /\ j - n + 1 \in 2..5 /\ n + (j - n + 1) - 1 = j
      BY <2>2, <2>7
    <3>3. w[j - n + 1] = t[j] /\ w[i] = t[n + i - 1]
      BY <2>6, <2>7, <3>2
    <3> DEFINE a == j - n + 1
    <3>4. ASSUME NEW m \in (i + 1)..(a - 1)
          PROVE  w[m].role # "calls"
      <4>1. m \in 2..5 /\ n + m - 1 \in (n + i)..(j - 1)
        BY <2>2, <2>7, <3>2
      <4> QED
        BY <2>6, <3>1, <4>1
    <3>5. a \in (i + 1)..Len(w) /\ w[a] = Msg("result", <<w[i].ids[k]>>)
      BY <2>5, <3>1, <3>2, <3>3
    <3> HIDE DEF a
    <3> QED
      BY <3>4, <3>5 DEF Answered
  <2>9. n + i - 1 \in DOMAIN t /\ t[n + i - 1] = w[i]
    BY <2>6, <2>7
  <2> QED
    BY <2>1, <2>7, <2>8, <2>9
<1> QED
  BY <1>1, <1>2

\* The transcript a turn opens with: only what was unanswered before is.
LEMMA OpeningAnswered ==
    ASSUME resumed \in Seq(Message)
    PROVE  AllAnswered(Opening)
<1> DEFINE m == Msg("user", <<>>)
           t == Append(resumed, m)
<1>1. Opening = CompactIfNeeded(t)
  BY DEF Opening
<1>2. m \in Message /\ m.role # "calls"
  BY MsgType, EmptyIds, Zenon DEF Roles
<1> HIDE DEF m
<1>3. /\ t \in Seq(Message) /\ Continues(resumed, t) /\ Len(t) = Len(resumed) + 1
      /\ \A j \in DOMAIN t : j \in DOMAIN resumed \/ j = Len(resumed) + 1
      /\ t[Len(resumed) + 1] = m
  BY <1>2, AppendContinues
<1> HIDE DEF t
<1> SUFFICES ASSUME NEW i \in DOMAIN Opening, Opening[i].role = "calls",
                    NEW k \in DOMAIN Opening[i].ids, ~Interrupted(i, k)
             PROVE  Answered(Opening, i, k)
  BY DEF AllAnswered
<1> DEFINE b == i + Len(t) - Len(Opening)
<1>4. /\ b \in DOMAIN t
      /\ t[b] = Opening[i]
      /\ Answered(t, b, k) => Answered(Opening, i, k)
  BY <1>1, <1>3, CompactKeepsAnswers
<1>5. Opening \in Seq(Message)
  BY <1>1, <1>3, CompactType
<1>6. b = ResumedPlace(i) /\ i <= Len(Opening)
  <2>1. Len(Opening) \in Nat /\ Len(resumed) \in Nat /\ DOMAIN Opening = 1..Len(Opening)
    BY <1>5
  <2>2. b = i + Len(resumed) + 1 - Len(Opening) /\ i <= Len(Opening)
    BY <1>3, <2>1
  <2> QED
    BY <2>2 DEF ResumedPlace
<1> HIDE DEF b
<1>7. b \in DOMAIN resumed /\ resumed[b] = t[b]
  BY <1>2, <1>3, <1>4 DEF Continues
<1>8. Answered(resumed, b, k)
  BY <1>6, <1>7 DEF Interrupted
<1>9. Answered(t, b, k)
  BY <1>3, <1>4, <1>7, <1>8, AnsweredContinues
<1> QED
  BY <1>4, <1>9

\* A call without an answer is one of the current response, not recorded yet.
Awaited(i, k) ==
    /\ pc \in {"batch", "decide", "execute"}
    /\ next <= k
    /\ k \in DOMAIN calls
    /\ transcript[i].ids[k] = calls[k].id
    /\ \A m \in (i + 1)..Len(transcript) : transcript[m].role # "calls"

AnswerInv ==
    /\ pc = "start" => transcript = resumed
    /\ pc \notin {"start", "failed"} =>
        \A i \in DOMAIN transcript : transcript[i].role = "calls" =>
            \A k \in DOMAIN transcript[i].ids :
                Answered(transcript, i, k) \/ Interrupted(i, k) \/ Awaited(i, k)

LEMMA AnswerInit == Init => AnswerInv
  BY DEF Init, AnswerInv

LEMMA ResumedStays == [Next]_vars => resumed' = resumed
<1> SUFFICES ASSUME [Next]_vars PROVE resumed' = resumed
  OBVIOUS
<1>1. CASE Begin \/ Boundary \/ InferenceFails \/ ModelDone \/ ModelCallsTools
  BY <1>1 DEF Begin, Boundary, InferenceFails, ModelDone, ModelCallsTools
<1>2. CASE RequestBatch \/ Decide \/ RecordResult \/ FinishBatch
  BY <1>2 DEF RequestBatch, Decide, RecordResult, FinishBatch, control
<1>3. CASE \E p \in Positions : ToolReturns(p)
  BY <1>3 DEF ToolReturns, control
<1>4. CASE RunVerification \/ NoChecks \/ SkipVerification \/ InjectCritique \/ Complete
  BY <1>4, Zenon DEF RunVerification, NoChecks, SkipVerification, InjectCritique, Complete
<1>5. CASE Cancel \/ UNCHANGED vars
  BY <1>5 DEF Cancel, vars, control
<1> QED
  BY <1>1, <1>2, <1>3, <1>4, <1>5 DEF Next, TurnStep

LEMMA InterruptedStays ==
    ASSUME resumed' = resumed, NEW i, NEW k
    PROVE  Interrupted(i, k)' <=> Interrupted(i, k)
<1>1. Opening' = Opening
  BY DEF Opening
<1>2. ResumedPlace(i)' = ResumedPlace(i)
  BY <1>1 DEF ResumedPlace
<1> QED
  BY <1>1, <1>2 DEF Interrupted, Answered

LEMMA NothingAwaited ==
    ASSUME AnswerInv, pc \notin {"start", "failed", "batch", "decide", "execute"}
    PROVE  AllAnswered(transcript)
  BY DEF AnswerInv, Awaited, AllAnswered

\* A transcript without open calls satisfies the invariant wherever the turn is.
LEMMA AllAnsweredSuffices ==
    ASSUME resumed' = resumed, pc' # "start", AllAnswered(transcript')
    PROVE  AnswerInv'
<1>1. \A i \in DOMAIN transcript' : transcript'[i].role = "calls" =>
        \A k \in DOMAIN transcript'[i].ids :
            Answered(transcript', i, k) \/ Interrupted(i, k)'
  BY InterruptedStays DEF AllAnswered
<1> QED
  BY <1>1 DEF AnswerInv

\* An action outside the tool phases that appends messages requesting nothing.
LEMMA AnswersStay ==
    ASSUME AnswerInv, pc \notin {"start", "failed", "batch", "decide", "execute"},
           resumed' = resumed, pc' # "start",
           transcript \in Seq(Message), transcript' \in Seq(Message),
           Continues(transcript, transcript'),
           \A j \in DOMAIN transcript' : j \in DOMAIN transcript \/ transcript'[j].role # "calls"
    PROVE  AnswerInv'
<1>1. AllAnswered(transcript')
  BY NothingAwaited, AllAnsweredContinues
<1> QED
  BY <1>1, AllAnsweredSuffices

\* An action inside them that does not touch the transcript.
LEMMA AwaitedStays ==
    ASSUME AnswerInv, UNCHANGED <<transcript, next, calls>>, resumed' = resumed,
           pc # "failed",
           pc' = pc \/ (pc # "start" /\ pc' \in {"batch", "decide", "execute", "failed"})
    PROVE  AnswerInv'
<1>1. ASSUME NEW i, NEW k, Awaited(i, k), pc' # "failed"
      PROVE  Awaited(i, k)'
  BY <1>1 DEF Awaited
<1>2. ASSUME NEW i, NEW k
      PROVE  Answered(transcript, i, k)' <=> Answered(transcript, i, k)
  BY DEF Answered
<1>3. pc' = "start" => pc = "start"
  OBVIOUS
<1>4. pc' \notin {"start", "failed"} => pc \notin {"start", "failed"}
  OBVIOUS
<1> QED
  BY <1>1, <1>2, <1>3, <1>4, InterruptedStays DEF AnswerInv


LEMMA AnswerStep == TypeInv /\ TypeInv' /\ AnswerInv /\ [Next]_vars => AnswerInv'
<1> SUFFICES ASSUME TypeInv, TypeInv', AnswerInv, [Next]_vars
             PROVE  AnswerInv'
  OBVIOUS
<1>t. transcript \in Seq(Message) /\ transcript' \in Seq(Message)
  BY DEF TypeInv, TypeOK, SessionType
<1>r. resumed' = resumed
  BY ResumedStays
<1>i. \A i, k : Interrupted(i, k)' <=> Interrupted(i, k)
  BY <1>r, InterruptedStays
<1>1. CASE Begin
  <2>1. pc = "start" /\ pc' = "boundary"
        /\ transcript' = CompactIfNeeded(Append(transcript, Msg("user", <<>>)))
    BY <1>1 DEF Begin
  <2>2. transcript' = Opening
    BY <2>1 DEF AnswerInv, Opening
  <2>3. AllAnswered(Opening)
    BY OpeningAnswered DEF TypeInv, TypeOK, ControlType
  <2>4. AllAnswered(transcript')
    BY <2>2, <2>3 DEF AllAnswered
  <2> QED
    BY <2>1, <2>4, <1>r, AllAnsweredSuffices
<1>2. CASE Boundary
  <2>1. /\ UNCHANGED transcript /\ pc' # "start"
        /\ pc \notin {"start", "failed", "batch", "decide", "execute"}
    BY <1>2 DEF Boundary, Fail, FinishCancelled
  <2>2. Continues(transcript, transcript')
    BY <2>1, <1>t DEF Continues
  <2> QED
    BY <2>1, <2>2, <1>t, <1>r, AnswersStay
<1>3. CASE InferenceFails
  <2>1. UNCHANGED <<transcript, next, calls>> /\ pc # "failed"
        /\ (pc' = pc \/ (pc # "start" /\ pc' \in {"batch", "decide", "execute", "failed"}))
    BY <1>3 DEF InferenceFails, Fail, control, batch, correction, verification, Final
  <2> QED
    BY <2>1, <1>r, AwaitedStays
<1>4. CASE ModelDone
  <2>1. /\ pc \notin {"start", "failed", "batch", "decide", "execute"} /\ pc' # "start"
        /\ transcript' \in {transcript, Append(transcript, Msg("assistant", <<>>))}
    BY <1>4 DEF ModelDone
  <2>2. Msg("assistant", <<>>) \in Message /\ Msg("assistant", <<>>).role # "calls"
    BY MsgType, EmptyIds, Zenon DEF Roles
  <2>3. CASE transcript' = transcript
    <3>1. Continues(transcript, transcript')
      BY <2>3, <1>t DEF Continues
    <3> QED
      BY <2>1, <2>3, <3>1, <1>t, <1>r, AnswersStay
  <2>4. CASE transcript' = Append(transcript, Msg("assistant", <<>>))
    <3> DEFINE m == Msg("assistant", <<>>)
    <3>1. m \in Message /\ m.role # "calls" /\ transcript' = Append(transcript, m)
      BY <2>2, <2>4
    <3> HIDE DEF m
    <3> QED
      BY <2>1, <3>1, <1>t, <1>r, AppendContinues, AnswersStay
  <2> QED
    BY <2>1, <2>3, <2>4
<1>5. CASE ModelCallsTools
  <2>1. AllAnswered(transcript)
    BY <1>5, NothingAwaited DEF ModelCallsTools
  <2>2. CASE transcript' = transcript /\ pc' = "cancelled"
    BY <2>1, <2>2, <1>r, AllAnsweredSuffices
  <2>3. CASE ~CancelledMeanwhile
    <3> DEFINE ids == [k \in DOMAIN calls' |-> calls'[k].id]
               m == Msg("calls", ids)
    <3>1. transcript' = Append(transcript, m) /\ pc' = "batch" /\ next' = 1
      BY <1>5, <2>3 DEF ModelCallsTools
    <3>2. calls' \in Seq(Call)
      BY DEF TypeInv, TypeOK, BatchType
    <3>3. m \in Message /\ m.ids = ids
      BY <3>2, CallsIds, MsgType DEF Roles
    <3> HIDE DEF m
    <3>4. ASSUME NEW i \in DOMAIN transcript', transcript'[i].role = "calls",
                 NEW k \in DOMAIN transcript'[i].ids
          PROVE  Answered(transcript', i, k) \/ Interrupted(i, k)' \/ Awaited(i, k)'
      <4>1. CASE i \in DOMAIN transcript
        <5>0. Continues(transcript, transcript')
          BY <3>1, <3>3, <1>t, AppendContinues
        <5>1. transcript'[i] = transcript[i]
          BY <4>1, <5>0 DEF Continues
        <5>2. CASE Answered(transcript, i, k)
          BY <4>1, <5>0, <5>1, <5>2, <1>t, AnsweredContinues
        <5> QED
          BY <2>1, <3>4, <4>1, <5>1, <5>2, <1>i DEF AllAnswered
      <4>2. CASE i = Len(transcript) + 1
        <5>1. transcript'[i] = m
          BY <3>1, <3>3, <4>2, <1>t, AppendContinues
        <5>2. k \in DOMAIN calls' /\ k \in Nat /\ k >= 1 /\ transcript'[i].ids[k] = calls'[k].id
          BY <3>2, <3>3, <3>4, <5>1
        <5>3. \A q \in (i + 1)..Len(transcript') : transcript'[q].role # "calls"
          BY <3>1, <3>3, <4>2, <1>t
        <5> QED
          BY <3>1, <5>2, <5>3 DEF Awaited
      <4> QED
        BY <3>1, <3>3, <4>1, <4>2, <1>t, AppendContinues
    <3> QED
      BY <3>1, <3>4 DEF AnswerInv
  <2> QED
    BY <1>5, <2>2, <2>3 DEF ModelCallsTools, FinishCancelled
<1>6. CASE RequestBatch
  <2>1. UNCHANGED <<transcript, next, calls>> /\ pc # "failed"
        /\ (pc' = pc \/ (pc # "start" /\ pc' \in {"batch", "decide", "execute", "failed"}))
    BY <1>6 DEF RequestBatch, control, batch, correction, verification, Final
  <2> QED
    BY <2>1, <1>r, AwaitedStays
<1>7. CASE Decide
  <2>1. UNCHANGED <<transcript, next, calls>> /\ pc # "failed"
        /\ (pc' = pc \/ (pc # "start" /\ pc' \in {"batch", "decide", "execute", "failed"}))
    BY <1>7 DEF Decide, Fail, control, batch, correction, verification, Final
  <2> QED
    BY <2>1, <1>r, AwaitedStays
<1>8. CASE \E p \in Positions : ToolReturns(p)
  <2>1. UNCHANGED <<transcript, next, calls>> /\ pc # "failed"
        /\ (pc' = pc \/ (pc # "start" /\ pc' \in {"batch", "decide", "execute", "failed"}))
    BY <1>8 DEF ToolReturns, control, batch, correction, verification, Final
  <2> QED
    BY <2>1, <1>r, AwaitedStays
<1>9. CASE RecordResult
  <2> DEFINE m == Msg("result", <<calls[next].id>>)
  <2>1. /\ transcript' = Append(transcript, m) /\ next' = next + 1
        /\ UNCHANGED <<pc, calls>> /\ pc = "execute"
    BY <1>9 DEF RecordResult, control
  <2>2. calls[next].id \in Ids
    BY <1>9, RecordedCall
  <2>3. m \in Message /\ m.role = "result"
    BY <2>2, OneId, MsgType, Zenon DEF Roles
  <2>4. ASSUME NEW i \in DOMAIN transcript', transcript'[i].role = "calls",
               NEW k \in DOMAIN transcript'[i].ids
        PROVE  Answered(transcript', i, k) \/ Interrupted(i, k)' \/ Awaited(i, k)'
    <3> HIDE DEF m
    <3>0. /\ Continues(transcript, transcript')
          /\ \A j \in DOMAIN transcript' : j \in DOMAIN transcript \/ transcript'[j].role # "calls"
      BY <2>1, <2>3, <1>t, AppendContinues
    <3>1. i \in DOMAIN transcript /\ transcript'[i] = transcript[i]
      BY <2>4, <3>0 DEF Continues
    <3>2. CASE Answered(transcript, i, k)
      BY <3>0, <3>1, <3>2, <1>t, AnsweredContinues
    <3>3. ASSUME Awaited(i, k)
          PROVE  /\ k \in DOMAIN calls /\ next <= k /\ transcript'[i].ids[k] = calls[k].id
                 /\ \A q \in (i + 1)..Len(transcript) : transcript[q].role # "calls"
                 /\ \A q \in (i + 1)..Len(transcript') : transcript'[q].role # "calls"
      <4>1. /\ k \in DOMAIN calls /\ next <= k /\ transcript'[i].ids[k] = calls[k].id
            /\ \A q \in (i + 1)..Len(transcript) : transcript[q].role # "calls"
        BY <3>1, <3>3 DEF Awaited
      <4> QED
        BY <3>0, <3>1, <4>1, <1>t, NoCallsBehind
    <3>4. CASE Awaited(i, k) /\ k # next
      <4>1. next \in Nat /\ calls \in Seq(Call)
        BY DEF TypeInv, TypeOK, BatchType
      <4>2. next + 1 <= k
        BY <3>3, <3>4, <4>1
      <4>3. pc' = "execute" /\ next' = next + 1 /\ calls' = calls
        BY <2>1
      <4> QED
        BY <3>3, <3>4, <4>2, <4>3 DEF Awaited
    <3>5. CASE Awaited(i, k) /\ k = next
      <4>1. m = Msg("result", <<transcript[i].ids[k]>>)
        BY <3>1, <3>3, <3>5 DEF m
      <4>2. m \in Message /\ transcript' = Append(transcript, m) /\ k \in DOMAIN transcript[i].ids
        BY <2>1, <2>3, <3>1
      <4> QED
        BY <3>1, <3>3, <3>5, <4>1, <4>2, <1>t, ResultAnswers, Zenon
    <3>6. Answered(transcript, i, k) \/ Interrupted(i, k) \/ Awaited(i, k)
      BY <2>1, <2>4, <3>1 DEF AnswerInv
    <3> QED
      BY <3>2, <3>4, <3>5, <3>6, <1>i
  <2> QED
    BY <2>1, <2>4 DEF AnswerInv
<1>10. CASE FinishBatch
  <2> DEFINE m == Msg("nudge", <<>>)
             ns == [k \in 1..nudges |-> m]
  <2>1. /\ transcript' = transcript \o ns
        /\ UNCHANGED <<calls, next>> /\ pc = "execute" /\ next = end
        /\ pc' = IF end > Len(calls) THEN "boundary" ELSE "batch"
    BY <1>10 DEF FinishBatch, LastBatch
  <2>2. m \in Message /\ m.role = "nudge" /\ nudges \in Nat
    BY MsgType, EmptyIds, Zenon DEF Roles, TypeInv, TypeOK, BatchType
  <2> HIDE DEF m
  <2>3. ns \in Seq(Message) /\ Len(ns) = nudges /\ \A k \in 1..nudges : ns[k] = m
    BY <2>2, FunctionSeq
  <2> HIDE DEF ns
  <2>4. /\ transcript' \in Seq(Message)
        /\ Continues(transcript, transcript')
        /\ \A j \in DOMAIN transcript' : j \in DOMAIN transcript \/ transcript'[j] = m
    <3>1. Len(transcript') = Len(transcript) + nudges /\ transcript' \in Seq(Message)
      BY <2>1, <2>2, <2>3, <1>t, ConcatFacts
    <3>2. \A j \in 1..Len(transcript) : transcript'[j] = transcript[j]
      BY <2>1, <2>2, <2>3, <1>t
    <3>3. \A j \in (Len(transcript) + 1)..(Len(transcript) + nudges) :
            transcript'[j] = ns[j - Len(transcript)] /\ j - Len(transcript) \in 1..nudges
      BY <2>1, <2>2, <2>3, <1>t
    <3>4. Continues(transcript, transcript')
      BY <2>2, <3>1, <3>2, <1>t DEF Continues
    <3>5. ASSUME NEW j \in DOMAIN transcript', j \notin DOMAIN transcript
          PROVE  transcript'[j] = m
      <4>1. j \in (Len(transcript) + 1)..(Len(transcript) + nudges)
        BY <2>2, <3>1, <3>5, <1>t
      <4> QED
        BY <4>1, <3>3, <2>3
    <3> QED
      BY <3>1, <3>4, <3>5
  <2>5. ASSUME NEW i \in DOMAIN transcript', transcript'[i].role = "calls",
               NEW k \in DOMAIN transcript'[i].ids
        PROVE  Answered(transcript', i, k) \/ Interrupted(i, k)' \/ Awaited(i, k)'
    <3>1. i \in DOMAIN transcript /\ transcript'[i] = transcript[i]
      BY <2>2, <2>4, <2>5 DEF Continues
    <3>2. CASE Answered(transcript, i, k)
      BY <2>4, <3>1, <3>2, <1>t, AnsweredContinues
    <3>3. CASE Awaited(i, k)
      <4>1. end <= k /\ k \in DOMAIN calls
        BY <2>1, <3>3 DEF Awaited
      <4>2. end \in Nat /\ calls \in Seq(Call)
        BY DEF TypeInv, TypeOK, BatchType
      <4>3. ~(end > Len(calls))
        BY <4>1, <4>2
      <4>4. pc' = "batch" /\ calls' = calls /\ next' = next
        BY <2>1, <4>3
      <4>5. \A q \in (i + 1)..Len(transcript) : transcript[q].role # "calls"
        BY <3>3 DEF Awaited
      <4>6. \A j \in DOMAIN transcript' : j \in DOMAIN transcript \/ transcript'[j].role # "calls"
        BY <2>2, <2>4
      <4>7. \A q \in (i + 1)..Len(transcript') : transcript'[q].role # "calls"
        BY <2>4, <3>1, <4>5, <4>6, <1>t, NoCallsBehind
      <4> QED
        BY <3>1, <3>3, <4>4, <4>7 DEF Awaited
    <3>4. Answered(transcript, i, k) \/ Interrupted(i, k) \/ Awaited(i, k)
      BY <2>1, <2>5, <3>1 DEF AnswerInv
    <3> QED
      BY <3>2, <3>3, <3>4, <1>i
  <2> QED
    BY <2>1, <2>5 DEF AnswerInv
<1>11. CASE RunVerification
  <2>1. /\ pc \notin {"start", "failed", "batch", "decide", "execute"} /\ pc' # "start"
        /\ transcript' \in {transcript, Append(transcript, Msg("feedback", <<>>))}
    BY <1>11 DEF RunVerification
  <2>2. Msg("feedback", <<>>) \in Message /\ Msg("feedback", <<>>).role # "calls"
    BY MsgType, EmptyIds, Zenon DEF Roles
  <2>3. CASE transcript' = transcript
    <3>1. Continues(transcript, transcript')
      BY <2>3, <1>t DEF Continues
    <3> QED
      BY <2>1, <2>3, <3>1, <1>t, <1>r, AnswersStay
  <2>4. CASE transcript' = Append(transcript, Msg("feedback", <<>>))
    <3> DEFINE m == Msg("feedback", <<>>)
    <3>1. m \in Message /\ m.role # "calls" /\ transcript' = Append(transcript, m)
      BY <2>2, <2>4
    <3> HIDE DEF m
    <3> QED
      BY <2>1, <3>1, <1>t, <1>r, AppendContinues, AnswersStay
  <2> QED
    BY <2>1, <2>3, <2>4
<1>12. CASE SkipVerification
  <2>1. /\ UNCHANGED transcript /\ pc' # "start"
        /\ pc \notin {"start", "failed", "batch", "decide", "execute"}
    BY <1>12 DEF SkipVerification
  <2>2. Continues(transcript, transcript')
    BY <2>1, <1>t DEF Continues
  <2> QED
    BY <2>1, <2>2, <1>t, <1>r, AnswersStay
<1>13. CASE InjectCritique
  <2>1. /\ pc \notin {"start", "failed", "batch", "decide", "execute"} /\ pc' # "start"
        /\ transcript' \in {transcript, Append(transcript, Msg("critique", <<>>))}
    BY <1>13 DEF InjectCritique
  <2>2. Msg("critique", <<>>) \in Message /\ Msg("critique", <<>>).role # "calls"
    BY MsgType, EmptyIds, Zenon DEF Roles
  <2>3. CASE transcript' = transcript
    <3>1. Continues(transcript, transcript')
      BY <2>3, <1>t DEF Continues
    <3> QED
      BY <2>1, <2>3, <3>1, <1>t, <1>r, AnswersStay
  <2>4. CASE transcript' = Append(transcript, Msg("critique", <<>>))
    <3> DEFINE m == Msg("critique", <<>>)
    <3>1. m \in Message /\ m.role # "calls" /\ transcript' = Append(transcript, m)
      BY <2>2, <2>4
    <3> HIDE DEF m
    <3> QED
      BY <2>1, <3>1, <1>t, <1>r, AppendContinues, AnswersStay
  <2> QED
    BY <2>1, <2>3, <2>4
<1>14. CASE Complete
  <2>1. /\ UNCHANGED transcript /\ pc' # "start"
        /\ pc \notin {"start", "failed", "batch", "decide", "execute"}
    BY <1>14 DEF Complete
  <2>2. Continues(transcript, transcript')
    BY <2>1, <1>t DEF Continues
  <2> QED
    BY <2>1, <2>2, <1>t, <1>r, AnswersStay
<1>15. CASE Cancel
  <2>1. UNCHANGED <<transcript, next, calls>> /\ pc # "failed"
        /\ (pc' = pc \/ (pc # "start" /\ pc' \in {"batch", "decide", "execute", "failed"}))
    BY <1>15 DEF Cancel, control, batch, correction, verification, Final
  <2> QED
    BY <2>1, <1>r, AwaitedStays
<1>16. CASE UNCHANGED vars
  <2>1. UNCHANGED <<transcript, next, calls, pc>>
    BY <1>16 DEF vars, control, batch
  <2>2. CASE pc = "failed"
    BY <2>1, <2>2 DEF AnswerInv
  <2>3. CASE pc # "failed"
    BY <2>1, <2>3, <1>r, AwaitedStays
  <2> QED
    BY <2>2, <2>3
<1>17. CASE NoChecks
  <2>1. /\ UNCHANGED transcript /\ pc' # "start"
        /\ pc \notin {"start", "failed", "batch", "decide", "execute"}
    BY <1>17 DEF NoChecks
  <2>2. Continues(transcript, transcript')
    BY <2>1, <1>t DEF Continues
  <2> QED
    BY <2>1, <2>2, <1>t, <1>r, AnswersStay
<1> QED
  BY <1>1, <1>2, <1>3, <1>4, <1>5, <1>6, <1>7, <1>8, <1>9, <1>10, <1>11, <1>12,
     <1>13, <1>14, <1>15, <1>16, <1>17 DEF Next, TurnStep


\* Whenever the model is asked, and on return, every tool call of the transcript
\* has its result before the next response, except the calls that had none when
\* the turn was resumed: for any history, complete or cut off, compacted or not.
THEOREM CallsAreAnswered == Spec => []EveryCallAnswered
<1>1. AnswerInv => EveryCallAnswered
  BY NothingAwaited DEF EveryCallAnswered, AllAnswered
<1> QED
  BY <1>1, AnswerInit, AnswerStep, TypeInvariant, PTL DEF Spec

=============================================================================
