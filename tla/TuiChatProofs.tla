---------------------------- MODULE TuiChatProofs ----------------------------
(***************************************************************************)
(* For any number of homes, sessions, turns and batched requests: a key    *)
(* press in the approval modal answers the request shown, and while the UI *)
(* is busy nothing the running turn waits for is out of its reach.         *)
(***************************************************************************)
EXTENDS TuiChat, TLAPS

\* The modal's request is one that was posted and still waits for its reply.
ModalInv ==
    overlay = "permission" =>
        /\ pending = shown
        /\ shown \in DOMAIN reply
        /\ reply[shown] = "waiting"

LEMMA ModalStep ==
    ASSUME ModalInv, Next
    PROVE  ModalInv'
<1>1. CASE OpenMenu
  BY <1>1 DEF OpenMenu, ModalInv
<1>2. ASSUME NEW kind \in Overlays \ {"none", "menu", "permission"}, OpenOverlay(kind)
      PROVE  ModalInv'
  BY <1>2 DEF OpenOverlay, ModalInv, Overlays
<1>3. CASE CloseOverlay
  BY <1>3 DEF CloseOverlay, ModalInv
<1>4. CASE Submit \/ Quit
  BY <1>4 DEF Submit, Quit, ModalInv
<1>5. CASE Reset \/ Answer
  BY <1>5 DEF Reset, Answer, ModalInv
<1>6. CASE Ended
  BY <1>6 DEF Ended, vars, ModalInv
<1>7. ASSUME NEW s \in 1..MaxSessions, Resume(s)
      PROVE  ModalInv'
  BY <1>7 DEF Resume, ModalInv
<1>8. ASSUME NEW home \in Homes, SwitchAgent(home) \/ CreateAgent(home)
      PROVE  ModalInv'
  BY <1>8 DEF SwitchAgent, CreateAgent, Switch, ModalInv
<1>9. ASSUME NEW load \in loads, LoadSession(load) \/ SessionResumed(load)
      PROVE  ModalInv'
  BY <1>9 DEF LoadSession, SessionResumed, ModalInv
<1>10. ASSUME NEW t \in DOMAIN flight, NEW n \in 1..MaxBatch, PostBatch(t, n)
       PROVE  ModalInv'
  <2>1. UNCHANGED <<overlay, shown, pending>>
    BY <1>10 DEF PostBatch
  <2>2. \A r \in DOMAIN reply : r \in DOMAIN reply' /\ reply'[r] = reply[r]
    BY <1>10 DEF PostBatch
  <2> QED
    BY <2>1, <2>2 DEF ModalInv
<1>11. ASSUME NEW t \in DOMAIN flight,
              TurnFailed(t) \/ \E written \in 0..(2 * MaxTurns) : TurnFinished(t, written)
       PROVE  ModalInv'
  BY <1>11 DEF TurnFailed, TurnFinished, ModalInv
<1>12. ASSUME NEW r \in DOMAIN reply, PermissionAsked(r)
       PROVE  ModalInv'
  BY <1>12 DEF PermissionAsked, NextPending, RepliesAfter, ModalInv
<1> QED
  BY <1>1, <1>2, <1>3, <1>4, <1>5, <1>6, <1>7, <1>8, <1>9, <1>10, <1>11, <1>12 DEF Next

\* The approval modal never answers a request other than the one on screen,
\* however requests, overlays, resumes and agent switches interleave.
THEOREM ModalAnswersWhatItShows == Spec => []ModalAnswersItsRequest
<1>1. Init => ModalInv
  BY DEF Init, ModalInv
<1>2. ModalInv /\ UNCHANGED vars => ModalInv'
  BY DEF ModalInv, vars
<1>3. ModalInv => ModalAnswersItsRequest
  BY DEF ModalInv, ModalAnswersItsRequest
<1> QED
  BY <1>1, <1>2, <1>3, ModalStep, PTL DEF Spec

\* A request that waits for its reply is the one whose reply channel the UI holds.
WaitInv == \A r \in DOMAIN reply : reply[r] = "waiting" => r = pending

LEMMA WaitStep ==
    ASSUME WaitInv, Next
    PROVE  WaitInv'
<1>1. CASE OpenMenu \/ CloseOverlay \/ Submit \/ Reset \/ Quit
  BY <1>1 DEF OpenMenu, CloseOverlay, Submit, Reset, Quit, WaitInv
<1>2. CASE Answer
  <2>1. CASE pending = NoRequest
    BY <1>2, <2>1 DEF Answer, WaitInv
  <2>2. CASE pending # NoRequest
    BY <1>2, <2>2 DEF Answer, WaitInv
  <2> QED
    BY <2>1, <2>2
<1>3. CASE Ended
  BY <1>3 DEF Ended, vars, WaitInv
<1>4. ASSUME NEW kind \in Overlays \ {"none", "menu", "permission"}, OpenOverlay(kind)
      PROVE  WaitInv'
  BY <1>4 DEF OpenOverlay, WaitInv
<1>5. ASSUME NEW s \in 1..MaxSessions, Resume(s)
      PROVE  WaitInv'
  BY <1>5 DEF Resume, WaitInv
<1>6. ASSUME NEW home \in Homes, SwitchAgent(home) \/ CreateAgent(home)
      PROVE  WaitInv'
  BY <1>6 DEF SwitchAgent, CreateAgent, Switch, WaitInv
<1>7. ASSUME NEW load \in loads, LoadSession(load) \/ SessionResumed(load)
      PROVE  WaitInv'
  BY <1>7 DEF LoadSession, SessionResumed, WaitInv
<1>8. ASSUME NEW t \in DOMAIN flight, NEW n \in 1..MaxBatch, PostBatch(t, n)
      PROVE  WaitInv'
  <2>1. pending' = pending
    BY <1>8 DEF PostBatch
  <2>2. \A r \in DOMAIN reply' :
            \/ r \in DOMAIN reply /\ reply'[r] = reply[r]
            \/ reply'[r] = "posted"
    BY <1>8 DEF PostBatch
  <2> QED
    BY <2>1, <2>2 DEF WaitInv
<1>9. ASSUME NEW t \in DOMAIN flight,
             TurnFailed(t) \/ \E written \in 0..(2 * MaxTurns) : TurnFinished(t, written)
      PROVE  WaitInv'
  BY <1>9 DEF TurnFailed, TurnFinished, WaitInv
<1>10. ASSUME NEW r \in DOMAIN reply, PermissionAsked(r)
       PROVE  WaitInv'
  BY <1>10 DEF PermissionAsked, NextPending, RepliesAfter, WaitInv
<1> QED
  BY <1>1, <1>2, <1>3, <1>4, <1>5, <1>6, <1>7, <1>8, <1>9, <1>10 DEF Next

\* The turn submitted last is in flight while the UI says a turn is running.
LastInFlight == app.running => turns \in DOMAIN flight

AppRecord == app = [home |-> app.home, session |-> app.session, messages |-> app.messages,
                    persisted |-> app.persisted, running |-> app.running, up |-> app.up]

LEMMA FlightStep ==
    ASSUME LastInFlight, AppRecord, Next
    PROVE  LastInFlight' /\ AppRecord'
<1>1. CASE OpenMenu \/ CloseOverlay \/ Answer
  BY <1>1 DEF OpenMenu, CloseOverlay, Answer, LastInFlight, AppRecord
<1>2. CASE Submit
  <2>1. turns' \in DOMAIN flight'
    BY <1>2 DEF Submit
  <2>2. AppRecord'
    BY <1>2 DEF Submit, AppRecord
  <2> QED
    BY <2>1, <2>2 DEF LastInFlight
<1>3. CASE Reset \/ Quit
  BY <1>3 DEF Reset, Quit, LastInFlight, AppRecord
<1>4. CASE Ended
  BY <1>4 DEF Ended, vars, LastInFlight, AppRecord
<1>5. ASSUME NEW kind \in Overlays \ {"none", "menu", "permission"}, OpenOverlay(kind)
      PROVE  LastInFlight' /\ AppRecord'
  BY <1>5 DEF OpenOverlay, LastInFlight, AppRecord
<1>6. ASSUME NEW s \in 1..MaxSessions, Resume(s)
      PROVE  LastInFlight' /\ AppRecord'
  BY <1>6 DEF Resume, LastInFlight, AppRecord
<1>7. ASSUME NEW home \in Homes, SwitchAgent(home) \/ CreateAgent(home)
      PROVE  LastInFlight' /\ AppRecord'
  <2>1. Switch(home)
    BY <1>7 DEF SwitchAgent, CreateAgent
  <2> QED
    BY <2>1 DEF Switch, LastInFlight, AppRecord
<1>8. ASSUME NEW load \in loads, LoadSession(load) \/ SessionResumed(load)
      PROVE  LastInFlight' /\ AppRecord'
  BY <1>8 DEF LoadSession, SessionResumed, LastInFlight, AppRecord
<1>9. ASSUME NEW t \in DOMAIN flight, NEW n \in 1..MaxBatch, PostBatch(t, n)
      PROVE  LastInFlight' /\ AppRecord'
  BY <1>9 DEF PostBatch, LastInFlight, AppRecord
<1>10. ASSUME NEW t \in DOMAIN flight, TurnFailed(t)
       PROVE  LastInFlight' /\ AppRecord'
  BY <1>10 DEF TurnFailed, RunningAfter, LastInFlight, AppRecord
<1>11. ASSUME NEW t \in DOMAIN flight, NEW written \in 0..(2 * MaxTurns),
              TurnFinished(t, written)
       PROVE  LastInFlight' /\ AppRecord'
  BY <1>11 DEF TurnFinished, RunningAfter, LastInFlight, AppRecord
<1>12. ASSUME NEW r \in DOMAIN reply, PermissionAsked(r)
       PROVE  LastInFlight' /\ AppRecord'
  BY <1>12 DEF PermissionAsked, LastInFlight, AppRecord
<1> QED
  BY <1>1, <1>2, <1>3, <1>4, <1>5, <1>6, <1>7, <1>8, <1>9, <1>10, <1>11, <1>12 DEF Next

\* While the UI is busy the turn submitted last is in flight, and each reply it waits
\* for is in the channel or held by the UI, however requests are posted, answered and
\* dropped and conversations and agents change meanwhile.  Whether the held one is
\* still on screen, and that the turn then ends, is the liveness property's.
THEOREM BusyTurnStaysReachable == Spec => []BusyTurnIsReachable
<1>1. Init => WaitInv /\ LastInFlight /\ AppRecord
  <2> SUFFICES ASSUME Init
               PROVE  WaitInv /\ LastInFlight /\ AppRecord
    OBVIOUS
  <2>1. WaitInv
    BY DEF Init, WaitInv
  <2>2. LastInFlight /\ AppRecord
    BY DEF Init, LastInFlight, AppRecord
  <2> QED
    BY <2>1, <2>2
<1>2. WaitInv /\ LastInFlight /\ AppRecord /\ UNCHANGED vars
        => (WaitInv /\ LastInFlight /\ AppRecord)'
  BY DEF WaitInv, LastInFlight, AppRecord, vars
<1>3. WaitInv /\ LastInFlight => BusyTurnIsReachable
  BY DEF WaitInv, LastInFlight, BusyTurnIsReachable, RequestsOf
<1> QED
  BY <1>1, <1>2, <1>3, WaitStep, FlightStep, PTL DEF Spec

=============================================================================
