----------------------------- MODULE SessionStore -----------------------------
(***************************************************************************)
(* The durable sessions of codel00p-session and the CLI commands that      *)
(* write them: `agent run`, `agent resume`, the chat loop, sub-agents,     *)
(* `sessions rename / describe / delete` and the TUI's edit form.  Every   *)
(* process opens its own store on one database, so processes interleave    *)
(* between storage operations; one storage operation is a step (module     *)
(* Storage).  A session is a metadata document and a log of records.       *)
(***************************************************************************)
EXTENDS Naturals, Sequences, SequencesExt

CONSTANTS
    Processes,   \* CLI processes, and the blocking tasks of a TUI
    Named,       \* session ids chosen by the user, the gateway or the clock
    MaxCounter,  \* bound: ids SESSION_COUNTER hands out in one process
    MaxTurns,    \* bound: turns and sub-agent runs
    MaxMessages, \* bound: messages a turn adds
    MaxEdits     \* bound: renames, descriptions and deletions

ASSUME NamedAssumption == Named \intersect (1..MaxCounter) = {}
ASSUME BoundsAssumption ==
    /\ MaxCounter \in Nat /\ MaxTurns \in Nat /\ MaxEdits \in Nat
    /\ MaxMessages \in Nat \ {0}

\* "session-<n>" for the n of a process's own SESSION_COUNTER, or a chosen id.
Sessions == Named \union (1..MaxCounter)

VARIABLES
    doc,     \* the metadata document of each session
    log,     \* the record stream of each session
    at,      \* the storage operation each process is about to run
    chat,    \* its session id, session_state messages and persisted_message_count
    job,     \* what it is writing: the session, the records left, the edits left
    counter, \* its SESSION_COUNTER
    turns,   \* turns run so far; names a turn's records
    edits    \* edits begun so far

vars == <<doc, log, at, chat, job, counter, turns, edits>>

NoDoc == [live |-> FALSE, title |-> "none", description |-> "none"]
NewDoc(title) == [live |-> TRUE, title |-> title, description |-> "none"]
NoChat == [session |-> "none", messages |-> <<>>, persisted |-> 0]
NoJob == [session |-> "none", todo |-> <<>>, set |-> <<>>, meta |-> NoDoc, by |-> "none"]

Exists(s) == doc[s].live

\* Some sessions were created by a release that did not derive titles.
Init ==
    /\ doc \in [Sessions -> {NoDoc, NewDoc("none")}]
    /\ log = [s \in Sessions |-> <<>>]
    /\ at = [p \in Processes |-> "idle"]
    /\ chat = [p \in Processes |-> NoChat]
    /\ job = [p \in Processes |-> NoJob]
    /\ counter = [p \in Processes |-> 1]
    /\ turns = 0
    /\ edits = 0

Goto(p, label) == at' = [at EXCEPT ![p] = label]
UnchangedStore == UNCHANGED <<doc, log>>

\* The process ends: done, failed with an error it reports, or killed.
Exit(p) ==
    /\ at[p] # "idle"
    /\ Goto(p, "idle")
    /\ chat' = [chat EXCEPT ![p] = NoChat]
    /\ job' = [job EXCEPT ![p] = NoJob]
    /\ counter' = [counter EXCEPT ![p] = 1]
    /\ UnchangedStore
    /\ UNCHANGED <<turns, edits>>

-----------------------------------------------------------------------------
(* prepare_session_state, load_chat_session_state, /reset *)

\* AgentSessionMode::Fresh, or a chat on an id without a session; the user named it
OpenNamed(p, s) ==
    /\ at[p] = "idle"
    /\ s \in Named
    /\ Goto(p, "ready")
    /\ chat' = [chat EXCEPT ![p] = [NoChat EXCEPT !.session = s]]
    /\ UnchangedStore
    /\ UNCHANGED <<job, counter, turns, edits>>

\* `agent run` without --session-id, and /reset in a chat: SessionId::default()
OpenDefault(p) ==
    /\ at[p] \in {"idle", "ready"}
    /\ counter[p] <= MaxCounter
    /\ Goto(p, "ready")
    /\ chat' = [chat EXCEPT ![p] = [NoChat EXCEPT !.session = counter[p]]]
    /\ counter' = [counter EXCEPT ![p] = counter[p] + 1]
    /\ UnchangedStore
    /\ UNCHANGED <<job, turns, edits>>

\* `agent resume`, `agent continue`, a chat on an existing session: replay's
\* ensure_session
EnsureForReplay(p, s) ==
    /\ at[p] = "idle"
    /\ Exists(s)
    /\ Goto(p, "replay")
    /\ chat' = [chat EXCEPT ![p] = [NoChat EXCEPT !.session = s]]
    /\ UnchangedStore
    /\ UNCHANGED <<job, counter, turns, edits>>

MessagesOf(records) == SelectSeq(records, LAMBDA r : r.kind = "message")

\* Mutant of LoadedCount: the events of the log are counted too.
LoadedCount_Records(records) == Len(records)

\* previous_message_count of a conversation rebuilt from these records
LoadedCount(records) == Len(MessagesOf(records))

\* replay_log
Replay(p) ==
    LET records == log[chat[p].session] IN
    /\ at[p] = "replay"
    /\ Goto(p, "ready")
    /\ chat' = [chat EXCEPT ![p].messages = MessagesOf(records),
                            ![p].persisted = LoadedCount(records)]
    /\ UnchangedStore
    /\ UNCHANGED <<job, counter, turns, edits>>

-----------------------------------------------------------------------------
(* run_turn_with_state and CliSubAgentSpawner::spawn *)

\* The messages, then the events, of a turn
TurnRecords(turn, n) ==
    [k \in 1..n |-> [turn |-> turn, k |-> k, kind |-> "message"]]
        \o <<[turn |-> turn, k |-> n + 1, kind |-> "event"]>>

\* Mutant of NewRecords: the whole conversation is written again.
NewRecords_All(messages, start, records) ==
    messages \o SelectSeq(records, LAMBDA r : r.kind = "event")

\* Mutant of NewRecords: the slice starts one message late.
NewRecords_Late(messages, start, records) ==
    SubSeq(messages, start + 2, Len(messages))
        \o SelectSeq(records, LAMBDA r : r.kind = "event")

\* messages[start..], then the events of the turn
NewRecords(messages, start, records) ==
    SubSeq(messages, start + 1, Len(messages))
        \o SelectSeq(records, LAMBDA r : r.kind = "event")

\* The turn succeeded or was cancelled; its outcome goes to persist_turn_outcome.
RunTurn(p, n) ==
    LET records  == TurnRecords(turns + 1, n)
        messages == chat[p].messages \o MessagesOf(records) IN
    /\ at[p] = "ready"
    /\ turns < MaxTurns
    /\ turns' = turns + 1
    /\ chat' = [chat EXCEPT ![p].messages = messages]
    /\ job' = [job EXCEPT ![p] = [NoJob EXCEPT
                  !.session = chat[p].session,
                  !.todo = NewRecords(messages, chat[p].persisted, records),
                  !.by = "user"]]
    /\ Goto(p, "create get")
    /\ UnchangedStore
    /\ UNCHANGED <<counter, edits>>

\* A sub-agent of the running turn finished; its session id is SessionId::new().
RunChild(p, n) ==
    /\ at[p] = "ready"
    /\ turns < MaxTurns
    /\ counter[p] <= MaxCounter
    /\ turns' = turns + 1
    /\ counter' = [counter EXCEPT ![p] = counter[p] + 1]
    /\ job' = [job EXCEPT ![p] = [NoJob EXCEPT
                  !.session = counter[p],
                  !.todo = TurnRecords(turns + 1, n),
                  !.by = "child"]]
    /\ Goto(p, "create get")
    /\ UnchangedStore
    /\ UNCHANGED <<chat, edits>>

-----------------------------------------------------------------------------
(* persist_session_records *)

\* create_session: get_document
CreateGet(p) ==
    /\ at[p] = "create get"
    /\ Goto(p, IF Exists(job[p].session) THEN "title get" ELSE "create put")
    /\ UnchangedStore
    /\ UNCHANGED <<chat, job, counter, turns, edits>>

\* create_session: put_document, with the title derived from the first message
CreatePut(p) ==
    /\ at[p] = "create put"
    /\ doc' = [doc EXCEPT ![job[p].session] = NewDoc("auto")]
    /\ Goto(p, "append")
    /\ UNCHANGED <<log, chat, job, counter, turns, edits>>

\* has_title: false too when the metadata is gone
HasTitle(s) == doc[s].title # "none"

\* SessionAlreadyExists
TitleGet(p) ==
    /\ at[p] = "title get"
    /\ IF HasTitle(job[p].session)
       THEN Goto(p, "append") /\ UNCHANGED job
       ELSE /\ Goto(p, "edit get")
            /\ job' = [job EXCEPT ![p].set = <<[field |-> "title", value |-> "auto"]>>]
    /\ UnchangedStore
    /\ UNCHANGED <<chat, counter, turns, edits>>

\* A sub-agent that cannot be recorded is a failed tool call of its parent.
GiveUp(p) ==
    /\ Goto(p, IF job[p].by = "child" THEN "ready" ELSE "idle")
    /\ job' = [job EXCEPT ![p] = NoJob]
    /\ chat' = IF job[p].by = "child" THEN chat ELSE [chat EXCEPT ![p] = NoChat]
    /\ counter' = IF job[p].by = "child" THEN counter ELSE [counter EXCEPT ![p] = 1]

\* append_record: ensure_session
EnsureForAppend(p) ==
    /\ at[p] = "append"
    /\ \/ /\ Exists(job[p].session)
          /\ Goto(p, "append log")
          /\ UNCHANGED <<chat, job, counter>>
       \/ ~Exists(job[p].session) /\ GiveUp(p)
    /\ UnchangedStore
    /\ UNCHANGED <<turns, edits>>

\* append_record: append_log.  After the last one the chat counts its messages
\* as persisted.
AppendLog(p) ==
    LET s == job[p].session
        last == Len(job[p].todo) = 1 IN
    /\ at[p] = "append log"
    /\ log' = [log EXCEPT ![s] = Append(@, Head(job[p].todo))]
    /\ job' = [job EXCEPT ![p] = IF last THEN NoJob ELSE [@ EXCEPT !.todo = Tail(@)]]
    /\ Goto(p, IF last THEN "ready" ELSE "append")
    /\ chat' = IF last /\ job[p].by = "user"
               THEN [chat EXCEPT ![p].persisted = Len(chat[p].messages)]
               ELSE chat
    /\ UNCHANGED <<doc, counter, turns, edits>>

-----------------------------------------------------------------------------
(* set_session_title, set_session_description, delete_session *)

UserEdits ==
    {<<[field |-> "title", value |-> "user"]>>,
     <<[field |-> "description", value |-> "user"]>>,
     <<[field |-> "title", value |-> "user"], [field |-> "description", value |-> "user"]>>}

\* sessions rename, sessions describe, the TUI's spawn_edit_session
Edit(p, s, set) ==
    /\ at[p] = "idle"
    /\ edits < MaxEdits
    /\ edits' = edits + 1
    /\ job' = [job EXCEPT ![p] = [NoJob EXCEPT !.session = s, !.set = set]]
    /\ Goto(p, "edit get")
    /\ UnchangedStore
    /\ UNCHANGED <<chat, counter, turns>>

\* The setter's own metadata: SessionNotFound ends the command
EditGet(p) ==
    /\ at[p] = "edit get"
    /\ \/ /\ Exists(job[p].session)
          /\ job' = [job EXCEPT ![p].meta = doc[job[p].session]]
          /\ Goto(p, "edit put")
          /\ UNCHANGED <<chat, counter>>
       \/ ~Exists(job[p].session) /\ GiveUp(p)
    /\ UnchangedStore
    /\ UNCHANGED <<turns, edits>>

\* The document read, with one field set
With(meta, change) ==
    IF change.field = "title" THEN [meta EXCEPT !.title = change.value]
                              ELSE [meta EXCEPT !.description = change.value]

EditPut(p) ==
    LET rest == Tail(job[p].set)
        done == rest = <<>> /\ job[p].todo = <<>> IN
    /\ at[p] = "edit put"
    /\ doc' = [doc EXCEPT ![job[p].session] = With(job[p].meta, Head(job[p].set))]
    /\ job' = [job EXCEPT ![p] = IF done THEN NoJob ELSE [@ EXCEPT !.set = rest]]
    /\ Goto(p, IF rest # <<>> THEN "edit get" ELSE IF done THEN "idle" ELSE "append")
    /\ UNCHANGED <<log, chat, counter, turns, edits>>

Delete(p, s) ==
    /\ at[p] = "idle"
    /\ edits < MaxEdits
    /\ Exists(s)
    /\ edits' = edits + 1
    /\ doc' = [doc EXCEPT ![s] = NoDoc]
    /\ UNCHANGED <<log, at, chat, job, counter, turns>>

Next ==
    \E p \in Processes :
        \/ \E s \in Sessions : OpenNamed(p, s) \/ EnsureForReplay(p, s) \/ Delete(p, s)
        \/ \E s \in Sessions, set \in UserEdits : Edit(p, s, set)
        \/ \E n \in 1..MaxMessages : RunTurn(p, n) \/ RunChild(p, n)
        \/ OpenDefault(p) \/ Replay(p) \/ CreateGet(p) \/ CreatePut(p) \/ TitleGet(p)
        \/ EnsureForAppend(p) \/ AppendLog(p) \/ EditGet(p) \/ EditPut(p) \/ Exit(p)

Spec == Init /\ [][Next]_vars

(***************************************************************************)
(* Properties                                                              *)
(***************************************************************************)

Records == [turn : 1..MaxTurns, k : 1..(MaxMessages + 1), kind : {"message", "event"}]
Docs == [live : BOOLEAN, title : {"none", "auto", "user"}, description : {"none", "user"}]

\* Every process's place, conversation and unfinished write has its shape, and a
\* write has something left to write.
TypeOK ==
    /\ \A s \in Sessions : doc[s] \in Docs /\ log[s] \in Seq(Records)
    /\ \A p \in Processes :
         /\ at[p] \in {"idle", "replay", "ready", "create get", "create put", "title get",
                       "append", "append log", "edit get", "edit put"}
         /\ chat[p].messages \in Seq(Records)
         /\ chat[p].persisted \in 0..Len(chat[p].messages)
         /\ at[p] \in {"append", "append log"} => job[p].todo # <<>>
         /\ at[p] \in {"edit get", "edit put"} => job[p].set # <<>>

RecordsOf(turn, s) == SelectSeq(log[s], LAMBDA r : r.turn = turn)

\* Whatever interleaves and wherever a process dies, what a session's log holds of
\* a turn is its records in order, from the first, none twice: messages first,
\* then events.
TurnsAreLoggedInOrder ==
    \A s \in Sessions, t \in 1..MaxTurns :
        \A i \in DOMAIN RecordsOf(t, s) : RecordsOf(t, s)[i].k = i

\* A conversation of `agent run`, `agent resume` or the chat loop that is waiting for
\* its next prompt is on disk: the messages the
\* model has seen are in the log in that order, so a later resume sees them.
ConversationIsOnDisk ==
    \A p \in Processes :
        at[p] = "ready" =>
            LET mine == ToSet(chat[p].messages) IN
            /\ SelectSeq(MessagesOf(log[chat[p].session]), LAMBDA r : r \in mine)
                   = chat[p].messages
            /\ chat[p].persisted = Len(chat[p].messages)

\* persist_session_records: "a user rename ... is never clobbered by re-deriving from
\* the first message": the title a turn derives replaces no title of the user's.
RenameIsNotRederived ==
    [][\A p \in Processes :
          LET s == job[p].session IN
          /\ at[p] \in {"create put", "edit put"} /\ job[p].by # "none"
          /\ doc[s].title = "user"
          => doc'[s].title = "user"]_vars

=============================================================================
