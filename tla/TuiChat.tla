------------------------------- MODULE TuiChat -------------------------------
(***************************************************************************)
(* The interactive terminal UI (codel00p-cli/src/tui): one UI task handles *)
(* key presses and the messages of the tasks it spawned (turns, session    *)
(* replays), one at a time.  A message that waits in the channel is a task *)
(* that has not sent it yet, so a task's send and the UI's handling of it  *)
(* are one step.  Permission requests of a batch are posted together, each *)
(* with a reply channel of its own.                                        *)
(***************************************************************************)
EXTENDS Naturals, Sequences

CONSTANTS
    Homes,       \* agent homes; each has its own session database
    MaxSessions, \* bound: fresh session ids
    MaxTurns,    \* bound: turns submitted
    MaxBatch     \* bound: requests one turn posts together

ASSUME HomesAssumption == Homes # {} /\ "none" \notin Homes
ASSUME BoundsAssumption == MaxSessions \in Nat \ {0} /\ MaxTurns \in Nat /\ MaxBatch \in Nat

Turns == 1..MaxTurns
Requests == Turns \X (1..MaxBatch)
NoRequest == <<0, 0>>
Overlays == {"none", "menu", "sessions", "agents", "create", "other", "permission"}

VARIABLES
    app,     \* App: home, session_state, persisted_message_count, turn.running
    overlay, \* which overlay is open
    shown,   \* the request of Overlay::Permission
    pending, \* App::pending_permission: the request its reply channel belongs to
    created, \* the homes of the agents that exist
    flight,  \* spawned turns by number: the home, the session and the messages it
             \* began with
    reply,   \* per posted request: "posted", "waiting", "decided" or "dropped"
    loads,   \* session replays spawned and not delivered
    log,     \* the messages persisted per home and session
    fresh,   \* the next fresh session id
    turns,   \* turns submitted
    moved,   \* history: the conversation was left or replaced while a turn was in flight
    strayed  \* history: the agent was switched while a turn or a replay was under way

vars == <<app, overlay, shown, pending, created, flight, reply, loads, log, fresh, turns,
          moved, strayed>>

\* TurnStatus; "down" once the UI has quit or panicked
Init ==
    /\ app \in [home : Homes, session : {1}, messages : {<<>>}, persisted : {0},
                running : {FALSE}, up : {TRUE}]
    /\ created \in {homes \in SUBSET Homes : app.home \in homes}
    /\ overlay = "none"
    /\ shown = NoRequest
    /\ pending = NoRequest
    /\ flight = <<>>
    /\ reply = <<>>
    /\ loads = {}
    /\ log = [h \in Homes |-> [s \in 1..MaxSessions |-> <<>>]]
    /\ fresh = 2
    /\ turns = 0
    /\ moved = FALSE
    /\ strayed = FALSE

-----------------------------------------------------------------------------
(* Keys *)

\* Ctrl-P replaces whatever overlay is open.
OpenMenu ==
    /\ app.up
    /\ overlay' = "menu"
    /\ UNCHANGED <<app, shown, pending, flight, reply, loads, log, fresh, turns, moved, created, strayed>>

\* F-keys, slash commands, a section of the menu; the agent switcher refuses mid-turn,
\* the form for a new agent (also behind the switcher's first row) does not.
OpenOverlay(kind) ==
    /\ app.up
    /\ overlay \in {"none", "menu"} \/ (overlay = "agents" /\ kind = "create")
    /\ overlay' = IF kind = "agents" /\ app.running THEN "none" ELSE kind
    /\ UNCHANGED <<app, shown, pending, flight, reply, loads, log, fresh, turns, moved, created, strayed>>

CloseOverlay ==
    /\ app.up
    /\ overlay \notin {"none", "permission"}
    /\ overlay' = "none"
    /\ UNCHANGED <<app, shown, pending, flight, reply, loads, log, fresh, turns, moved, created, strayed>>

\* submit_turn, spawn_turn
Submit ==
    /\ app.up
    /\ overlay = "none"
    /\ ~app.running
    /\ turns < MaxTurns
    /\ turns' = turns + 1
    /\ app' = [app EXCEPT !.running = TRUE]
    /\ flight' = [t \in DOMAIN flight \union {turns + 1} |->
                    IF t # turns + 1 THEN flight[t]
                    ELSE [home |-> app.home, session |-> app.session,
                          messages |-> app.messages]]
    /\ UNCHANGED <<overlay, shown, pending, reply, loads, log, fresh, moved, created, strayed>>

\* /reset, /clear, or New in the conversations overlay
Reset ==
    /\ app.up
    /\ overlay \in {"none", "sessions"}
    /\ fresh <= MaxSessions
    /\ fresh' = fresh + 1
    /\ overlay' = "none"
    /\ app' = [app EXCEPT !.session = fresh, !.messages = <<>>, !.persisted = 0]
    /\ moved' = (moved \/ DOMAIN flight # {})
    /\ UNCHANGED <<shown, pending, flight, reply, loads, log, turns, created, strayed>>

\* Enter on a listed conversation: spawn_resume_session
Resume(s) ==
    /\ app.up
    /\ overlay = "sessions"
    /\ log[app.home][s] # <<>>
    /\ overlay' = "none"
    /\ loads' = loads \union {[home |-> app.home, session |-> s, read |-> FALSE,
                               messages |-> <<>>]}
    /\ UNCHANGED <<app, shown, pending, flight, reply, log, fresh, turns, moved, created, strayed>>

\* switch_agent: the configuration, a fresh session and TurnStatus are replaced.
Switch(home) ==
    /\ fresh <= MaxSessions
    /\ fresh' = fresh + 1
    /\ overlay' = "none"
    /\ app' = [app EXCEPT !.home = home, !.session = fresh, !.messages = <<>>,
                          !.persisted = 0, !.running = FALSE]
    /\ moved' = (moved \/ DOMAIN flight # {})
    /\ strayed' = (strayed \/ DOMAIN flight # {} \/ loads # {})
    /\ UNCHANGED <<shown, pending, flight, reply, loads, log, turns>>

\* Enter on another agent; the switcher opens only when no turn is shown as running.
SwitchAgent(home) ==
    /\ app.up
    /\ overlay = "agents"
    /\ home \in created \ {app.home}
    /\ Switch(home)
    /\ UNCHANGED created

\* submit_agent_create: the new agent is switched to at once, running turn or not
CreateAgent(home) ==
    /\ app.up
    /\ overlay = "create"
    /\ home \in Homes \ created
    /\ Switch(home)
    /\ created' = created \union {home}

\* y, a, n or Esc in the approval modal: the reply channel is taken and answered
Answer ==
    /\ app.up
    /\ overlay = "permission"
    /\ overlay' = "none"
    /\ pending' = NoRequest
    /\ reply' = IF pending = NoRequest THEN reply
                ELSE [reply EXCEPT ![pending] = "decided"]
    /\ UNCHANGED <<app, shown, flight, loads, log, fresh, turns, moved, created, strayed>>

\* Esc on an empty composer, /quit, or Ctrl-C anywhere
Quit ==
    /\ app.up
    /\ app' = [app EXCEPT !.up = FALSE]
    /\ UNCHANGED <<overlay, shown, pending, flight, reply, loads, log, fresh, turns, moved, created, strayed>>

-----------------------------------------------------------------------------
(* Messages of the spawned tasks *)

\* load_chat_session_state on a blocking thread
LoadSession(load) ==
    /\ ~load.read
    /\ loads' = (loads \ {load}) \union
                 {[load EXCEPT !.read = TRUE, !.messages = log[load.home][load.session]]}
    /\ UNCHANGED <<app, overlay, shown, pending, flight, reply, log, fresh, turns, moved, created, strayed>>

\* Mutant of ResumedCount: the count of the conversation left behind is kept.
ResumedCount_Kept(load) == app.persisted

ResumedCount(load) == Len(load.messages)

\* Msg::SessionResumed; a failed replay is only reported
SessionResumed(load) ==
    /\ app.up
    /\ load.read
    /\ loads' = loads \ {load}
    /\ \/ /\ app' = [app EXCEPT !.session = load.session, !.messages = load.messages,
                                !.persisted = ResumedCount(load), !.running = FALSE]
          /\ moved' = (moved \/ DOMAIN flight # {})
       \/ UNCHANGED <<app, moved, created, strayed>>
    /\ UNCHANGED <<overlay, shown, pending, flight, reply, log, fresh, turns, created, strayed>>

RequestsOf(t) == {r \in DOMAIN reply : r[1] = t}
Awaiting(t) == \E r \in RequestsOf(t) : reply[r] \in {"posted", "waiting"}

\* The turn reaches a batch of n calls that need approval: join_all of decide.
\* Bound: one batch per turn.
PostBatch(t, n) ==
    /\ t \in DOMAIN flight
    /\ RequestsOf(t) = {}
    /\ reply' = [r \in DOMAIN reply \union ({t} \X (1..n)) |->
                    IF r \in DOMAIN reply THEN reply[r] ELSE "posted"]
    /\ UNCHANGED <<app, overlay, shown, pending, flight, loads, log, fresh, turns, moved, created, strayed>>

\* Mutant of NextPending: the first reply channel is kept.
NextPending_First(r) == IF pending = NoRequest THEN r ELSE pending

\* app.pending_permission = Some(reply)
NextPending(r) == r

\* Mutant of RepliesAfter: the channel that was pending is kept open.
RepliesAfter_Leaked(r) == [reply EXCEPT ![r] = "waiting"]

\* The reply channel that was pending is dropped.
RepliesAfter(r) ==
    [q \in DOMAIN reply |-> IF q = r THEN "waiting"
                            ELSE IF q = pending THEN "dropped" ELSE reply[q]]

\* Msg::PermissionAsked
PermissionAsked(r) ==
    /\ app.up
    /\ r \in DOMAIN reply
    /\ reply[r] = "posted"
    /\ overlay' = "permission"
    /\ shown' = r
    /\ pending' = NextPending(r)
    /\ reply' = RepliesAfter(r)
    /\ UNCHANGED <<app, flight, loads, log, fresh, turns, moved, created, strayed>>

Forget(t) == [u \in DOMAIN flight \ {t} |-> flight[u]]

\* Mutant of RunningAfter: a failed turn leaves the UI busy.
RunningAfter_Stuck(ok) == IF ok THEN FALSE ELSE app.running

\* handle_turn_finished clears turn.running first
RunningAfter(ok) == FALSE

\* Msg::TurnFinished(Err): the provider failed, or a reply channel was dropped
TurnFailed(t) ==
    /\ app.up
    /\ t \in DOMAIN flight
    /\ ~Awaiting(t)
    /\ flight' = Forget(t)
    /\ app' = [app EXCEPT !.running = RunningAfter(FALSE)]
    /\ UNCHANGED <<overlay, shown, pending, reply, loads, log, fresh, turns, moved, created, strayed>>

\* Mutant of PersistedSession: the session the UI shows when the turn ends.
PersistedSession_Shown(t) == app.session

\* outcome.session_state.session_id()
PersistedSession(t) == flight[t].session

\* Mutant of PersistStart: the whole conversation is persisted.
PersistStart_All == 0

\* Effect::Persist's count: what the UI holds when the turn ends
PersistStart == app.persisted

\* Msg::TurnFinished(Ok) and its Effect::Persist: the state is adopted, then the
\* messages from the count the UI held are appended, as many as the store takes.
\* A count past the end is an out-of-range slice.  The database is that of the
\* configuration the UI holds by then.
TurnFinished(t, written) ==
    LET s == flight[t].session
        New(k) == [turn |-> t, home |-> flight[t].home, session |-> s, k |-> k]
        messages == flight[t].messages \o <<New(1), New(2)>>
        start == PersistStart
        new == SubSeq(messages, start + 1, Len(messages)) IN
    /\ app.up
    /\ t \in DOMAIN flight
    /\ \A r \in RequestsOf(t) : reply[r] = "decided"
    /\ written \in 0..Len(new)
    /\ flight' = Forget(t)
    /\ app' = [app EXCEPT !.session = s, !.messages = messages,
                          !.persisted = Len(messages),
                          !.running = RunningAfter(TRUE), !.up = start <= Len(messages)]
    /\ log' = [log EXCEPT ![app.home][PersistedSession(t)] = @ \o SubSeq(new, 1, written)]
    /\ UNCHANGED <<overlay, shown, pending, reply, loads, fresh, turns, moved, created, strayed>>

\* The program has ended.
Ended == ~app.up /\ UNCHANGED vars

Next ==
    \/ OpenMenu \/ CloseOverlay \/ Submit \/ Reset \/ Answer \/ Quit \/ Ended
    \/ \E kind \in Overlays \ {"none", "menu", "permission"} : OpenOverlay(kind)
    \/ \E s \in 1..MaxSessions : Resume(s)
    \/ \E home \in Homes : SwitchAgent(home) \/ CreateAgent(home)
    \/ \E load \in loads : LoadSession(load) \/ SessionResumed(load)
    \/ \E t \in DOMAIN flight :
          \/ \E n \in 1..MaxBatch : PostBatch(t, n)
          \/ TurnFailed(t)
          \/ \E written \in 0..(2 * MaxTurns) : TurnFinished(t, written)
    \/ \E r \in DOMAIN reply : PermissionAsked(r)

Spec == Init /\ [][Next]_vars

\* The UI handles the messages that reach it, turns end, and the user answers the
\* modal in front of them.
TurnReports(t) == TurnFailed(t) \/ \E written \in 0..(2 * MaxTurns) : TurnFinished(t, written)
Fairness ==
    /\ WF_vars(Answer)
    /\ \A r \in Requests : WF_vars(PermissionAsked(r))
    /\ \A t \in Turns : WF_vars(TurnReports(t))

FairSpec == Spec /\ Fairness

(***************************************************************************)
(* Properties                                                              *)
(***************************************************************************)

Messages == [turn : Turns, home : Homes, session : 1..MaxSessions, k : 1..2]

\* The UI's state has the shape of App, and turns and requests are numbered once.
TypeOK ==
    /\ app \in [home : Homes, session : 1..MaxSessions, messages : Seq(Messages),
                persisted : Nat, running : BOOLEAN, up : BOOLEAN]
    /\ app.persisted = Len(app.messages)
    /\ overlay \in Overlays
    /\ app.home \in created /\ created \subseteq Homes
    /\ {shown, pending} \subseteq Requests \union {NoRequest}
    /\ DOMAIN flight \subseteq 1..turns
    /\ DOMAIN reply \subseteq (1..turns) \X (1..MaxBatch)

\* A key press in the approval modal answers the request the modal shows, and no
\* other: the open modal and the pending reply channel belong together.
ModalAnswersItsRequest ==
    overlay = "permission" => pending = shown /\ reply[shown] = "waiting"

\* While the UI says a turn is running, the turn submitted last is in flight, and no
\* reply it waits for is out of reach: what is neither in the channel nor answered
\* is the request whose reply channel the UI holds.
BusyTurnIsReachable ==
    app.up /\ app.running =>
        /\ turns \in DOMAIN flight
        /\ \A r \in RequestsOf(turns) : reply[r] = "waiting" => r = pending

\* The UI holds a reply channel whose modal is not on screen any more.
ModalReplaced == pending # NoRequest /\ overlay # "permission"

\* A busy composer is freed at last, however turns, requests and resumes interleave
\* and whichever request is dropped for another, unless the UI is quit or Ctrl-P
\* replaces a modal: then the turn waits for an answer nobody can give any more.
ComposerIsFreed == app.running ~> (~app.running \/ ~app.up \/ ModalReplaced)

\* Whatever conversation is shown when a turn ends, its messages go to the log of the
\* conversation the turn was started in, and to the database of the agent it was
\* started with, unless the agent was switched while a turn or a replay was under way.
ConversationsDoNotMix ==
    \A h \in Homes, s \in 1..MaxSessions :
        \A i \in DOMAIN log[h][s] :
            log[h][s][i].session = s /\ (strayed \/ log[h][s][i].home = h)

\* switch_agent: "the caller (`update`) only emits `Effect::SwitchAgent` when idle
\* (`!app.turn.running`), so there is no harness in flight": a turn's messages are
\* persisted with the agent that ran it.
TurnsStayWithTheirAgent ==
    \A h \in Homes, s \in 1..MaxSessions :
        \A i \in DOMAIN log[h][s] : log[h][s][i].home = h

\* "Persist a completed turn's new messages and events": no message is persisted
\* twice, and none is persisted before one that precedes it in its conversation, as
\* long as no conversation was left or replaced while a turn was in flight; the count
\* the UI holds then belongs to another conversation than the turn's.
PersistsOnlyNewMessages ==
    ~moved =>
        \A h \in Homes, s \in 1..MaxSessions :
            \A i, j \in DOMAIN log[h][s] : i < j =>
                LET a == log[h][s][i]
                    b == log[h][s][j]
                IN  a.turn < b.turn \/ (a.turn = b.turn /\ a.k < b.k)

\* A request in Ask mode "awaits the user's choice": its reply channel is not dropped
\* while the UI runs.
RequestsAwaitTheUser ==
    app.up => \A r \in DOMAIN reply : reply[r] # "dropped"

=============================================================================
