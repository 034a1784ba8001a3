# codel00p: TLA+ models, checks and proofs

codel00p is a coding agent: a harness that lets a language model call tools in a
workspace, a command line and terminal UI around it, project memory that people
review, durable sessions, and services (gateway, cron, cloud, MCP) that start
turns or share what was learned. These modules model the parts of it where
several actors meet (turns and tools, processes on one database, UI task and
background tasks, child processes and reader threads), check them with TLC on
small instances and prove the most important properties with TLAPS for every
value of the constants.

Paths below are relative to `src/core/crates/`.

## The system and its parts

| part | code | how it meets the others | here |
|---|---|---|---|
| agent turn loop | `codel00p-harness/src/agent/turn.rs`, `agent/turn/*` | asks a provider, runs tools, asks for permissions, returns a session state and events | `TurnLoop` |
| storage backends | `codel00p-storage` | values, documents and append logs under sessions, memory and the cloud service | `Storage`, `AppendLog` |
| durable sessions | `codel00p-session`, `codel00p-cli/src/agent/session_state.rs`, `chat.rs`, `delegation.rs` | every turn persists its records; the UI and `sessions` edit and delete | `SessionStore` |
| terminal UI chat | `codel00p-cli/src/tui` | spawns turns and replays, answers permission requests, persists results | `TuiChat` |
| project memory | `codel00p-memory` | candidates from turns, reviews from people, merges from the curator; approved memory goes into prompts | `MemoryStore` |
| background commands | `codel00p-harness/src/background.rs`, `commands.rs` | `run_command` with `background: true` and the `process_*` tools | `BackgroundProcesses` |
| foreground commands | `codel00p-harness/src/terminal.rs`, `commands.rs` | `run_command` | `ForegroundCommand` |
| checkpoints, delegation, code execution, planning, file tools, docker and ssh backends, prompt assembly, streaming | `codel00p-harness` | tools and helpers of a turn | planned |
| curator, extraction, ranking | `codel00p-memory`, `codel00p-cli/src/memory` | writes the memory repository | planned |
| cron, gateway and approvals | `codel00p-cron`, `codel00p-gateway`, `codel00p-cli` | start and resume turns unattended | planned |
| MCP client, subscriptions and server | `codel00p-mcp`, `codel00p-cli/src/mcp_server` | remote tools of a turn; memory for other agents | planned |
| providers: client, retry, policy, transports | `codel00p-providers` | the inference of a turn | planned |
| cloud service, skills, plugins, settings | `codel00p-cloud`, `codel00p-skill`, `codel00p-plugin`, `codel00p-cli/src/settings` | shared documents and files | planned |
| TUI managers, overlays, pickers | `codel00p-cli/src/*_ui`, `tui/*` | lists and forms over the stores | planned |
| protocol types, text similarity, installers, desktop, landing, TypeScript packages, test kit | | data, floating point, drawing, I/O | not modelled |

`PROJECT.json` lists every part with its sources, and the source lines every
definition stands for.

## Modules

### TurnLoop

One call of `run_turn_with_state`. The state is the session's messages (role and
call ids), the events, the iteration budget, the response being worked on
(`calls`, `batch`, `slot`), the failure streaks of the self-correction, the
verification state and the cancel signal, which another task sets at any moment.
`Begin` compacts at the blocking limit, `Boundary` is the head of the loop (cancel
check, budget), `ModelDone`, `ModelCallsTools` and `InferenceFails` are what an
inference can give, `RequestBatch`, `Decide`, `ToolReturns` and `RecordResult`
are one batch (permission decisions, concurrent execution in any order, results
in call order), and the verification, critique and completion have actions of
their own. A turn starts from a fresh history or a resumed one, which may end inside a
turn: a process can die while the messages of a turn are saved. `evidence` follows what
the checks have shown of the last change. The text of messages, the arguments of calls and the provider's
retries are abstracted away; the identifiers stay because the transcript's
well-formedness depends on them.

### AppendLog and Storage

`AppendLog` is the promise of the log store: an append is one atomic step at the
end of the stream. `Storage` has the three backends, one of which `Init` chooses: in
memory a whole operation is a step; in SQLite a put is a read and a write, an
append one Immediate transaction; in Postgres an append is a `SELECT max` and an
`INSERT` that the primary key may refuse. Clients may crash between two
statements. `ImplementsAppendLog` is the refinement, with `stream <- log`.

### SessionStore

CLI processes and blocking tasks of the TUI on one database. Each storage
operation (`Storage`) is a step: look up the session, create it, append the
records of a turn one by one, derive a title, rename, describe, delete. A process
may end between any two of them (`Exit`). `counter` is the process-local
`SESSION_COUNTER` behind `SessionId::default()`.

### TuiChat

The UI task with its key presses, and the turns and session replays it spawned.
Approval requests are posted by a turn in batches and answered through one modal.
A message waiting in the channel is a task that has not sent it yet, so the send
and the handling are one step. An agent is switched to from the switcher, which does not
open while a turn is shown as running, or by creating it, which no turn prevents. `moved` remembers that a conversation was left or
replaced while a turn was in flight.

### MemoryStore

Every operation of the memory repository is a read followed by writes (document,
audit event, index entry), one storage operation per step, interleaved with the
writes of other processes and cut off by `Stop`. Content is a model value after
`trim`; queries only filter and appear in the properties. `overlap` remembers that
two operations were in progress at once, `vetted` the contents a reviewer approved: nothing in the code excludes that, and what
the code keeps only without it is stated with it.

### BackgroundProcesses and ForegroundCommand

A child writes to a bounded pipe, exits with a code, and may leave a descendant
that has inherited the pipe. In the background a reader thread per stream copies
the pipe into a capped buffer and `process_output`, `process_list` and
`process_kill` poll, join the readers and publish the exit; every turn starts with
an empty store. In the foreground nobody reads the pipe until the exit or the
timeout. The background model follows bytes of one- and two-byte characters: each poll
decodes its own slice, lossily. Reads and waits may fail.

## Runs

| run | shows | states | bounds |
|---|---|---|---|
| `turn_batches` | every tool call answered when the model is asked again or the turn returns; permissions, overlap, order of results, cancellation, reported iterations, events | 998 k | 2 responses of 2 calls, one safe and one mutating operation, fresh, compacted and interrupted history |
| `turn_verify` | no turn with attempts left completes before a done-point behind its last change; one replan nudge per failure streak; every turn returns | 554 k | 4 iterations of one operation, 2 attempts, 1 check, failure budget 2 |
| `storage_backends` | acknowledged entries stay, without gaps; each backend implements `AppendLog` | 108 k | 3 backends, 3 clients, 3 entries |
| `session_logs` | a turn's records are in the log in order, a chat's conversation is on disk | 272 k | 2 processes, 2 turns, 1 edit |
| `tui_chat` | the modal answers the request it shows, a busy composer has a turn that can still report and is freed at last, conversations do not mix, messages are persisted once | 996 k | 2 homes, 2 sessions, 2 turns, batches of 2 |
| `memory_writers` | the index names only memories that exist; what is retrieved was approved or written by a reviewer; without overlap, record, audit trail, index and merged tags agree | 565 k | 2 writers, 3 operations (4 without overlap), 2 memories |
| `background_polls` | exit published only with complete buffers and final; bytes returned once; no pipe stays full; calls return | 184 k | 1 process, streams of 5 and 1 bytes, pipe 2, cap 3, 2 calls, 2 turns |
| `command_outcomes` | the outcome tells what happened; the call returns | 7.1 k | up to 8 bytes, pipe 4, cap 5 |

The bounds are the smallest at which the cases of interest happen: two batches
and a cancellation between them, a streak that reaches its budget and starts
again, three clients so that one loses a race twice, two approvals at once, a
chunk across the cap, a pipe that fills behind a full buffer. `CHECK_DEADLOCK
FALSE` is used for the turn alone, which ends by returning; elsewhere a bounded
model that has run out of operations has a stuttering disjunct (`Quiet`, `Ended`,
`Returned`), so that a real deadlock is still found.

### Fairness

`TurnEnds` assumes weak fairness of the turn's own steps: the task is polled, and
providers, tools and permission decisions answer (they have timeouts, or are
awaited without one, in which case the assumption is about them). `CallsReturn`
and `FullPipeIsRead` assume that the caller's and the reader threads run; nothing
is assumed of children. `ComposerIsFreed` assumes that turns report, that
the channel is drained and that a person answers the modal they are shown. `CallReturns` assumes that the caller's thread runs and
that time passes.

### Where the code and its documentation disagree

Four runs find a state that a comment, a tool description or a document of the
repository excludes; the quoted line is in `PROJECT.json` under "findings".

* `turn_cancel_loss`: the budget is consumed before the cancel signal is polled, so a
  cancellation in the last iteration becomes the IterationLimit error and the session
  is dropped.
* `tui_approvals`: the second request of a batch drops the first one's reply channel.
* `memory_lost_review`: an operation that read a record before its rejection writes
  the old status back.
* `command_pipe`: a program that writes more than its pipe holds always times out.

Other behaviours the models have, because the code has them, which a comment or a
document says otherwise about. Where a property is affected it names the condition.

* Turn: a graced invalid-input failure leaves the streak at zero, so every consecutive
  one is graced (`turn.rs:787`, comment at 779); a nudge may land between the results
  of one response (848, comment at 709); a turn whose checks could not be run
  completes as verified (`verify.rs:263`, protocol `events.rs:276`).
* Sessions: a rename between the title check and the title write is overwritten
  (`session_state.rs:90` says it never is); the records of a deleted session are
  replayed when its id is used again; the first sub-agents of two processes, and
  `/reset` in two processes, share `session-1`.
* Terminal UI: a reset or resume during a turn makes it persist from the count of
  another conversation (`PersistsOnlyNewMessages` excludes it); a resume clears the
  running flag of a turn in flight, and the agent switcher opens, as the form for a new agent always does, so that a
  turn in flight finds another home (`event_loop.rs:366`); Ctrl-P replaces the
  approval modal for good.
* Memory: an operation cut between its writes changes a record without an audit
  event; no transition leads out of archived, which `curate` calls reversible.
* Commands: a descendant that keeps a pipe open blocks the call, past any timeout
  (`CallsReturn` and `CallReturns` exclude it); killing a process that had exited by
  itself loses its code; processes of earlier turns cannot be listed or killed; a
  character whose bytes fall into two polls is returned as replacement characters.

## Proofs

Every theorem holds for all values of the constants that satisfy the named
assumptions of its module (sizes are natural numbers, flags are Booleans, subsets
are subsets, `"none"` is not a home).

* `TurnLoopProofs`: `TypeCorrect`. `TypeOK` alone is not inductive: recording the
  result of `calls[next]` needs to know that the cursor is inside the response.
  `TypeInv` adds `CursorOK`.
* `TurnLoopSafety` and `TurnLoopAnswers`: eight theorems, each from an inductive invariant relative to
  `TypeInv`. `NudgeInv` ties streaks and nudges to the failures counted since the last
  success. `CountInv` ties budget to
  inferences; `OrderInv` says that what has been recorded is the prefix of the
  response before the cursor and that positions of the batch are after it;
  `GrantInv` (relative to `OrderInv`) ties slots to decisions; `LateInv` says that a
  response that came after the cancellation is never begun; `OverlapInv` that a batch
  with two members is all safe. In `TurnLoopAnswers`, `DoneInv` (with `StartInv`) follows the
  evidence of the last change; `AnswerInv` says that the calls without a result are exactly those of
  the current response from the cursor on, and `CompactKeepsAnswers` that
  compaction cuts no call from its result; a call that was open in the resumed history
  keeps its place in the transcript.
* `StorageProofs`: `LogInv` says that the log is dense and that a sequence number
  read earlier is at most one past its end: if it is still free it is the next
  one. From it `AckedEntriesAreKept`, and the refinement
  `BackendsImplementAppendLog`: every step appends one payload or leaves the
  stream alone.
* `TuiChatProofs`: `ModalInv` (the modal's request was posted and still waits)
  gives `ModalAnswersWhatItShows`; `WaitInv` and `LastInFlight` give `BusyTurnStaysReachable`.

Model-checked only: liveness (`TurnEnds`, `ComposerIsFreed`, `FullPipeIsRead`, `CallsReturn`,
`CallReturns`), which the prover does not reach, and for now `EventsMatchResults`,
`ConversationsDoNotMix`, `PersistsOnlyNewMessages` and the properties of `SessionStore`, `MemoryStore`,
`BackgroundProcesses` and `ForegroundCommand`.

## Not modelled

Text (prompts, diffs, rendering), network and file formats, signing, floating
point scores, the desktop and landing applications, installers. Compaction is
modelled in the turn loop, although the command line never sets a context window
and so never compacts. Two threads on one `BackgroundProcesses` store are not
modelled: all of its callers run inline on the turn's task.

## Plan

In this order; modules marked (p) are to get theorems. No module that is proved
about declares a recursive operator. Components that share nothing are checked
together: one MC module extends several of them and its initial states choose which
one runs, so that their state spaces add up instead of multiplying.

1. Gateway approvals and permission policies: approval files, resolve against
   record, resume of the parked turn, conversation session ids (p).
2. Cron: job files, ticks of several daemons, edits and removals during a tick.
3. Checkpoints: the shadow repository's history, index and work tree.
4. Delegation: children, worktrees, the cap on concurrent children; composed with
   `TurnLoop`'s batches.
5. Provider client: retry, fallback, policy; the stream decoders of the transports
   as state machines over deltas, each against the message it must produce.
6. MCP: requests and responses, subscription worker, supervisor; the server's
   dispatch.
7. Curator: union-find against connected components, and the apply phase
   composed with `MemoryStore`.
8. Cloud service over `Storage`; skills; settings layers; tool registry and plans;
   `apply_patch`; code execution.
9. TUI overlays, pickers, composer and the manager screens.
10. Proofs: `IndexedMemoriesExist` (every index entry still to be written follows
    its document), `ExitedMeansDrained` (a reader ends only when nobody can write),
    `TurnsAreLoggedInOrder`, `ConversationsDoNotMix`, and the invariants of the
    modules marked (p).
