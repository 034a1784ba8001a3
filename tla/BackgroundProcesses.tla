------------------------ MODULE BackgroundProcesses ------------------------
(***************************************************************************)
(* Background commands of the harness: run_command with background: true   *)
(* spawns a child, one reader thread per stream copies its pipe into a     *)
(* capped buffer, and the process_* tools poll, list and kill.  The tools  *)
(* call the store inline on the turn's task, so there is one caller; the   *)
(* children, what they leave running and the readers are concurrent with   *)
(* it.  A byte is a whole character, or the lead or the rest of one of two *)
(* bytes, so that the model can tell where a poll cuts a character.        *)
(***************************************************************************)
EXTENDS Naturals, Sequences

CONSTANTS
    MaxProcs,   \* bound: processes spawned
    Streams,    \* stdout and stderr
    Output,     \* the bytes a child may write to each stream, in order
    PipeSize,   \* bytes the operating system holds in a pipe
    StreamCap,  \* MAX_STREAM_BYTES
    MaxBytes,   \* max_output_bytes of a poll
    Leaves,     \* whether a child may leave a descendant with its pipes open
    MaxTurns,   \* bound: turns of the session
    MaxCalls    \* bound: process_* calls

ASSUME BoundsAssumption ==
    /\ MaxProcs \in Nat /\ StreamCap \in Nat /\ MaxBytes \in Nat
    /\ MaxCalls \in Nat
    /\ PipeSize \in Nat \ {0} /\ MaxTurns \in Nat \ {0}
    /\ Leaves \in BOOLEAN
Parts == {"whole", "lead", "rest"}
Replacement == 65533   \* U+FFFD

\* Valid UTF-8: a lead is followed by its rest, and nothing else is.
ASSUME OutputAssumption ==
    /\ Output \in [Streams -> Seq([char : Nat \ {Replacement}, part : Parts])]
    /\ \A s \in Streams : \A i \in DOMAIN Output[s] :
           LET byte == Output[s][i] IN
           /\ byte.part = "lead" =>
                 i < Len(Output[s]) /\ Output[s][i + 1] = [byte EXCEPT !.part = "rest"]
           /\ byte.part = "rest" => i > 1 /\ Output[s][i - 1].part = "lead"

Pids == 1..MaxProcs
Codes == {"ok", "failed", "signal"}   \* ended by a signal: no exit code

VARIABLES
    child,    \* the operating system's side of each process
    buffer,   \* the StreamBuffer and reader thread of each stream
    finished, \* the published ExitInfo of each process
    table,    \* the store's entries: proc-n is table[n]
    call,     \* the process_* call in progress
    turn,
    calls,
    shown     \* history: the text the polls of a stream returned

vars == <<child, buffer, finished, table, call, turn, calls, shown>>

NotFinished == [code |-> "none", killed |-> FALSE]
Idle == [op |-> "none", at |-> "idle", rest |-> <<>>]
EmptyBuffer == [data |-> <<>>, read_cursor |-> 0, truncated |-> FALSE,
                read |-> 0, reader |-> "none"]

Init ==
    /\ child = [p \in Pids |-> [os |-> "none", code |-> "none", left |-> FALSE,
                                wrote |-> [s \in Streams |-> 0]]]
    /\ buffer = [p \in Pids |-> [s \in Streams |-> EmptyBuffer]]
    /\ finished = [p \in Pids |-> NotFinished]
    /\ table = <<>>
    /\ call = Idle
    /\ turn = 1
    /\ calls = 0
    /\ shown = [p \in Pids |-> [s \in Streams |-> <<>>]]

(* The children *)

InPipe(p, s) == child[p].wrote[s] - buffer[p][s].read
Full(p, s) == InPipe(p, s) = PipeSize
HasWriter(p) == child[p].os = "running" \/ child[p].left

ChildWrites(p, s) ==
    /\ HasWriter(p)
    /\ child[p].wrote[s] < Len(Output[s])
    /\ ~Full(p, s)
    /\ buffer[p][s].reader # "failed"
    /\ child' = [child EXCEPT ![p].wrote[s] = @ + 1]
    /\ UNCHANGED <<buffer, finished, table, call, turn, calls, shown>>

ChildExits(p) ==
    /\ child[p].os = "running"
    /\ \E code \in Codes, left \in {FALSE, Leaves} :
           child' = [child EXCEPT ![p].os = "exited", ![p].code = code, ![p].left = left]
    /\ UNCHANGED <<buffer, finished, table, call, turn, calls, shown>>

DescendantExits(p) ==
    /\ child[p].left
    /\ child' = [child EXCEPT ![p].left = FALSE]
    /\ UNCHANGED <<buffer, finished, table, call, turn, calls, shown>>

(* The reader threads: spawn_reader and StreamBuffer::append *)

AppendChunk_StopsWhenFull(b, chunk) ==
    LET remaining == StreamCap - Len(b.data) IN
    IF Len(chunk) >= remaining
    THEN [b EXCEPT !.data = @ \o SubSeq(chunk, 1, remaining), !.reader = "done"]
    ELSE [b EXCEPT !.data = @ \o chunk]
\* StreamBuffer::append; a chunk is never empty.
AppendChunk(b, chunk) ==
    LET remaining == StreamCap - Len(b.data) IN
    IF Len(chunk) > remaining
    THEN [b EXCEPT !.data = @ \o SubSeq(chunk, 1, remaining), !.truncated = TRUE]
    ELSE [b EXCEPT !.data = @ \o chunk]

ReaderReads(p, s) ==
    /\ buffer[p][s].reader = "reading"
    /\ \E n \in 1..InPipe(p, s) :
           LET b == buffer[p][s] IN
           buffer' = [buffer EXCEPT ![p][s] =
                          AppendChunk([b EXCEPT !.read = @ + n],
                                      SubSeq(Output[s], b.read + 1, b.read + n))]
    /\ UNCHANGED <<child, finished, table, call, turn, calls, shown>>

ReaderEnds(p, s) ==
    /\ buffer[p][s].reader = "reading"
    /\ InPipe(p, s) = 0 /\ ~HasWriter(p)
    /\ buffer' = [buffer EXCEPT ![p][s].reader = "done"]
    /\ UNCHANGED <<child, finished, table, call, turn, calls, shown>>

\* The loop also ends when the read fails; the pipe is closed unread.
ReaderFails(p, s) ==
    /\ buffer[p][s].reader = "reading"
    /\ buffer' = [buffer EXCEPT ![p][s].reader = "failed"]
    /\ UNCHANGED <<child, finished, table, call, turn, calls, shown>>

(* The store *)

\* A spawn the backend refuses returns its error and changes nothing.
Spawn ==
    /\ call = Idle
    /\ \E p \in Pids :
           /\ child[p].os = "none" /\ \A q \in 1..(p - 1) : child[q].os # "none"
           /\ child' = [child EXCEPT ![p].os = "running"]
           /\ buffer' = [buffer EXCEPT ![p] =
                             [s \in Streams |-> [EmptyBuffer EXCEPT !.reader = "reading"]]]
           /\ table' = Append(table, p)
    /\ UNCHANGED <<finished, call, turn, calls, shown>>

\* Every turn builds its registry, and with it a new, empty store.  Dropping
\* the old entries neither kills the children nor stops the readers.
NewTurn ==
    /\ call = Idle
    /\ turn < MaxTurns
    /\ turn' = turn + 1
    /\ table' = <<>>
    /\ UNCHANGED <<child, buffer, finished, call, calls, shown>>

Begin(op, pids, at) ==
    /\ call = Idle
    /\ calls < MaxCalls
    /\ calls' = calls + 1
    /\ call' = [op |-> op, at |-> at, rest |-> pids]
    /\ UNCHANGED <<child, buffer, finished, table, turn, shown>>

BeginOutput == \E n \in DOMAIN table : Begin("output", <<table[n]>>, "poll")
BeginList == table # <<>> /\ Begin("list", table, "poll")
BeginKill == \E n \in DOMAIN table : Begin("kill", <<table[n]>>, "kill")

Current == Head(call.rest)

\* refresh_status: an exit already published is not looked at again.
Poll ==
    /\ call.at = "poll"
    /\ call' = [call EXCEPT !.at =
                   IF finished[Current] = NotFinished /\ child[Current].os = "exited"
                   THEN "join" ELSE "answer"]
    /\ UNCHANGED <<child, buffer, finished, table, turn, calls, shown>>

KillChild_WaitsOnly ==
    /\ call.at = "kill" /\ child[Current].os = "exited"
    /\ call' = [call EXCEPT !.at = "join"]
    /\ UNCHANGED <<child, buffer, finished, table, turn, calls, shown>>
\* child.kill(); child.wait(): a child that had already exited keeps its code;
\* the descendants of one that had not are not killed with it.
KillChild ==
    /\ call.at = "kill"
    /\ IF child[Current].os = "exited" THEN UNCHANGED child
       ELSE \E left \in {FALSE, Leaves} :
                child' = [child EXCEPT ![Current].os = "exited", ![Current].code = "signal",
                                       ![Current].left = left]
    /\ call' = [call EXCEPT !.at = "join"]
    /\ UNCHANGED <<buffer, finished, table, turn, calls, shown>>

Drained_Now(p) == TRUE
\* drain_readers returns when every reader thread has ended.
Drained(p) == \A s \in Streams : buffer[p][s].reader \in {"done", "failed"}

ExitInfo_Overwriting(p) ==
    IF call.op = "kill" THEN [code |-> "none", killed |-> TRUE]
    ELSE [code |-> child[p].code, killed |-> FALSE]
ExitInfo(p) ==
    IF finished[p] # NotFinished THEN finished[p]
    ELSE IF call.op = "kill" THEN [code |-> "none", killed |-> TRUE]
    ELSE [code |-> child[p].code, killed |-> FALSE]

Join ==
    /\ call.at = "join"
    /\ Drained(Current)
    /\ finished' = [finished EXCEPT ![Current] = ExitInfo(Current)]
    /\ call' = [call EXCEPT !.at = "answer"]
    /\ UNCHANGED <<child, buffer, table, turn, calls, shown>>

\* String::from_utf8_lossy of a slice of the stream: what is left of a character
\* that the slice cuts is replaced.
Lossy(slice) ==
    LET starts == SelectSeq([i \in 1..Len(slice) |-> i],
                            LAMBDA i : i = 1 \/ slice[i].part # "rest")
        Cut(i) == slice[i].part = "rest" \/ (slice[i].part = "lead" /\ i = Len(slice))
    IN  [n \in 1..Len(starts) |->
            IF Cut(starts[n]) THEN Replacement ELSE slice[starts[n]].char]

\* take_new
TakeEnd(b) ==
    IF b.read_cursor + MaxBytes < Len(b.data) THEN b.read_cursor + MaxBytes ELSE Len(b.data)
TakeNew_Uncapped(b) == Lossy(SubSeq(b.data, b.read_cursor + 1, Len(b.data)))
TakeNew(b) == Lossy(SubSeq(b.data, b.read_cursor + 1, TakeEnd(b)))

AfterAnswer_OneMore ==
    IF call.rest = <<>> THEN Idle ELSE [call EXCEPT !.at = "poll", !.rest = Tail(@)]
AfterAnswer ==
    IF Len(call.rest) = 1 THEN Idle ELSE [call EXCEPT !.at = "poll", !.rest = Tail(@)]

\* The streams are read one after the other; they share nothing, so the order
\* cannot be seen.
Answer ==
    /\ call.at = "answer"
    /\ IF call.op # "output" THEN UNCHANGED <<buffer, shown>>
       ELSE LET b == buffer[Current] IN
            /\ shown' = [shown EXCEPT ![Current] = [s \in Streams |-> @[s] \o TakeNew(b[s])]]
            /\ buffer' = [buffer EXCEPT ![Current] =
                              [s \in Streams |-> [b[s] EXCEPT !.read_cursor = TakeEnd(b[s])]]]
    /\ call' = AfterAnswer
    /\ UNCHANGED <<child, finished, table, turn, calls>>

Quiet ==
    /\ call = Idle
    /\ calls = MaxCalls \/ (table = <<>> /\ turn = MaxTurns)
    /\ UNCHANGED vars

Reader == \E p \in Pids, s \in Streams :
    ReaderReads(p, s) \/ ReaderEnds(p, s) \/ ReaderFails(p, s)
Caller == Poll \/ KillChild \/ Join \/ Answer
Begins == BeginOutput \/ BeginList \/ BeginKill
Programs ==
    \E p \in Pids :
        \/ \E s \in Streams : ChildWrites(p, s)
        \/ ChildExits(p)
        \/ DescendantExits(p)

Next == Programs \/ Reader \/ Spawn \/ NewTurn \/ Begins \/ Caller \/ Quiet

Spec == Init /\ [][Next]_vars

\* Threads of this program run; a child may do anything, also nothing.
LiveSpec ==
    /\ Spec
    /\ WF_vars(Caller)
    /\ \A p \in Pids, s \in Streams : WF_vars(ReaderReads(p, s) \/ ReaderEnds(p, s))

----------------------------------------------------------------------------

Bytes == [char : Nat, part : Parts]
Buffers == [data : Seq(Bytes), read_cursor : Nat, truncated : BOOLEAN,
            read : Nat, reader : {"none", "reading", "done", "failed"}]

TypeOK ==
    /\ child \in [Pids -> [os : {"none", "running", "exited"}, code : Codes \union {"none"},
                           left : BOOLEAN, wrote : [Streams -> Nat]]]
    /\ buffer \in [Pids -> [Streams -> Buffers]]
    /\ finished \in [Pids -> [code : Codes \union {"none"}, killed : BOOLEAN]]
    /\ table \in Seq(Pids)
    /\ call \in [op : {"none", "output", "list", "kill"},
                 at : {"idle", "poll", "kill", "join", "answer"}, rest : Seq(Pids)]
    /\ call.at # "idle" => call.rest # <<>>
    /\ turn \in 1..MaxTurns
    /\ calls \in 0..MaxCalls
    /\ shown \in [Pids -> [Streams -> Seq(Nat)]]

\* "exited => all output is in the buffers" (refresh_status): when the exit of
\* a process is published, each buffer holds everything the process and what it
\* left behind ever wrote, up to MAX_STREAM_BYTES, nobody can write more, and
\* truncated says exactly whether something was dropped.  Of a stream whose read
\* failed the buffer holds what had been read.
ExitedMeansDrained ==
    \A p \in Pids, s \in Streams : finished[p] # NotFinished =>
        LET b == buffer[p][s]
            kept == IF b.read < StreamCap THEN b.read ELSE StreamCap
        IN  /\ b.data = SubSeq(Output[s], 1, kept)
            /\ b.truncated = (b.read > StreamCap)
            /\ b.reader # "failed" => b.read = child[p].wrote[s] /\ ~HasWriter(p)

Chars(bytes) ==
    LET first == SelectSeq(bytes, LAMBDA b : b.part # "rest")
    IN  [n \in DOMAIN first |-> first[n].char]
Elements(s) == {s[i] : i \in DOMAIN s}
TwoBytes(s, c) == [char |-> c, part |-> "lead"] \in Elements(Output[s])

\* The polls of a stream account for its bytes once each and in their order,
\* whatever the readers do between them and wherever the cap of a read falls
\* (take_new): the text they returned is that of the bytes before the cursor, in
\* which only two-byte characters may be missing, and the replacement characters
\* in it stand, one each, for the bytes of those.
PollsReturnBytesOnce ==
    \A p \in Pids, s \in Streams :
        LET cursor == buffer[p][s].read_cursor
            written == Chars(SubSeq(Output[s], 1, cursor))
            text == SelectSeq(shown[p][s], LAMBDA c : c # Replacement)
            found == Elements(text)
            wide == SelectSeq(text, LAMBDA c : TwoBytes(s, c))
        IN  /\ text = SelectSeq(written, LAMBDA c : c \in found)
            /\ \A c \in Elements(written) \ found : TwoBytes(s, c)
            /\ Len(shown[p][s]) + Len(wide) = cursor

\* A published exit is final: a later poll, list or kill reports the same code
\* and the same killed flag (refresh_status, kill).
ExitIsFinal ==
    [][\A p \in Pids : finished[p] # NotFinished => finished'[p] = finished[p]]_vars

\* "a chatty process never blocks on a full pipe": the readers go on reading
\* after the buffer's cap is reached, so a full pipe is always emptied,
\* or closed when its read fails.
FullPipeIsRead ==
    \A p \in Pids, s \in Streams :
        Full(p, s) ~> (~Full(p, s) \/ buffer[p][s].reader = "failed")

\* Every process_* call returns if no descendant keeps the pipes of its process for
\* ever.  (refresh_status: "each reader is guaranteed to hit EOF and terminate
\* promptly" once the child has exited; it is not, while a descendant lives.)
CallsReturn ==
    (\A p \in Pids : []<>~child[p].left) => (call # Idle ~> call = Idle)

=============================================================================
