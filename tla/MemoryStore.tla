---------------------------- MODULE MemoryStore ----------------------------
(***************************************************************************)
(* The project memory of codel00p-memory: a record per memory, an audit    *)
(* stream per memory and one index stream, written by review commands,     *)
(* the agent's candidate sink and the MCP server.  Every operation reads,  *)
(* then writes its documents and log entries one by one, so other          *)
(* processes and crashes fall between any two of them.  One project, and   *)
(* one kind, which only a creation compares (for its duplicate check).     *)
(***************************************************************************)
EXTENDS Naturals, Sequences, SequencesExt

CONSTANTS
    Actors,   \* processes with the store open
    Ids,
    Contents, \* contents after trim
    Tags,
    MaxOps,   \* bound: operations begun, one at a time
    MaxOverlapOps \* bound: operations begun once two of them overlapped

ASSUME BoundsAssumption == MaxOps \in Nat /\ MaxOverlapOps \in Nat
ASSUME NamesAssumption == "none" \notin Ids /\ "none" \notin Contents

VARIABLES
    records, \* the MEMORY_COLLECTION documents
    audit,   \* the audit stream of each memory
    index,   \* the CandidateCreated stream: the ids in order of creation
    actor,   \* per process: the operation's second read, or the writes left
    ops,     \* operations begun
    cut,     \* history: memories of operations that stopped half way
    gone,    \* history: memories a finished review rejected or archived
    overlap, \* history: an operation began while another process was in one
    into,    \* history: the memory each merged one was archived in favour of
    vetted   \* history: the contents of each memory a reviewer approved or wrote

vars == <<records, audit, index, actor, ops, cut, gone, overlap, into, vetted>>

NoRecord == [status |-> "none", content |-> "none", tags |-> {}, evidence |-> 0]
Idle == [at |-> "idle", todo |-> <<>>]

Exists(id) == records[id] # NoRecord
IsActive(record) == record.status \in {"candidate", "approved"}

Init ==
    /\ records = [id \in Ids |-> NoRecord]
    /\ audit = [id \in Ids |-> <<>>]
    /\ index = <<>>
    /\ actor = [a \in Actors |-> Idle]
    /\ ops = 0
    /\ cut = {}
    /\ gone = {}
    /\ overlap = FALSE
    /\ into = [id \in Ids |-> "none"]
    /\ vetted = [id \in Ids |-> {}]

(* The writes of an operation *)

Put(id, record) == [do |-> "put", id |-> id, record |-> record]
Audit(id, action, content, other) ==
    [do |-> "audit", id |-> id, event |-> [action |-> action, content |-> content,
                                          other |-> other]]
Index(id) == [do |-> "index", id |-> id]
\* The put of a merge that archives its source.
PutMerged(id, record, target) == [do |-> "put", id |-> id, record |-> record, into |-> target]

Read(a, next) ==
    /\ actor[a] = Idle
    /\ overlap' = (overlap \/ \E b \in Actors : actor[b] # Idle)
    /\ ops < (IF overlap' THEN MaxOverlapOps ELSE MaxOps)
    /\ ops' = ops + 1
    /\ actor' = [actor EXCEPT ![a] = next]
    /\ UNCHANGED <<records, audit, index, cut, gone, into>>

Then(a, todo) ==
    /\ actor' = [actor EXCEPT ![a] = [at |-> "write", todo |-> todo]]
    /\ UNCHANGED <<records, audit, index, ops, cut, gone, overlap, into, vetted>>

Refuse(a) ==
    /\ actor' = [actor EXCEPT ![a] = Idle]
    /\ UNCHANGED <<records, audit, index, ops, cut, gone, overlap, into, vetted>>

-----------------------------------------------------------------------------
(* create_candidate *)

Candidate(content, tags) ==
    [status |-> "candidate", content |-> content, tags |-> tags, evidence |-> 0]

\* Mutant of Created: the index entry is written before the document.
Created_IndexFirst(id, record) ==
    <<Index(id), Put(id, record), Audit(id, "created", record.content, "none")>>

Created(id, record) ==
    <<Put(id, record), Audit(id, "created", record.content, "none"), Index(id)>>

\* Mutant of Taken: the document is not looked up.
Taken_Unchecked(id) == FALSE

Taken(id) == Exists(id)

CreateGet(a, id, record) ==
    /\ ~Taken(id)
    /\ Read(a, [at |-> "create", todo |-> <<>>, id |-> id, record |-> record])
    /\ UNCHANGED vetted

Continue(a, op) ==
    /\ actor' = [actor EXCEPT ![a] = op]
    /\ UNCHANGED <<records, audit, index, ops, cut, gone, overlap, into, vetted>>

\* active_duplicate_id: indexed_records replays the index, ...
CreateReplay(a) ==
    LET op == actor[a] IN
    /\ op.at = "create"
    /\ Continue(a, [at |-> "scan", todo |-> <<>>, id |-> op.id, record |-> op.record,
                    rest |-> index, duplicate |-> FALSE])

\* ... gets every document it lists, ...
CreateScan(a) ==
    LET op == actor[a]
        found == records[Head(op.rest)]
    IN
    /\ op.at = "scan" /\ op.rest # <<>>
    /\ IF found = NoRecord THEN Refuse(a)
       ELSE Continue(a, [op EXCEPT !.rest = Tail(@),
                !.duplicate = @ \/ (IsActive(found) /\ found.content = op.record.content)])

\* ... and only then are they compared.
CreateDecide(a) ==
    LET op == actor[a] IN
    /\ op.at = "scan" /\ op.rest = <<>>
    /\ IF op.duplicate THEN Refuse(a) ELSE Then(a, Created(op.id, op.record))

-----------------------------------------------------------------------------
(* review, edit, add_evidence *)

Transitions ==
    {<<"candidate", "approved">>, <<"candidate", "rejected">>, <<"approved", "archived">>}

EnsureTransition(from, to) == <<from, to>> \in Transitions

Review(a, id, status) ==
    /\ EnsureTransition(records[id].status, status)
    /\ Read(a, [at |-> "write", todo |->
            <<Put(id, [records[id] EXCEPT !.status = status]),
              Audit(id, status, "none", "none")>>])
    /\ vetted' = IF status = "approved"
                 THEN [vetted EXCEPT ![id] = @ \union {records[id].content}] ELSE vetted

\* Mutant of Edited: the content is replaced without an event.
Edited_Silently(id, record, content) ==
    <<Put(id, [record EXCEPT !.content = content])>>

Edited(id, record, content) ==
    <<Put(id, [record EXCEPT !.content = content]), Audit(id, "edited", content, "none")>>

Edit(a, id, content) ==
    /\ Exists(id)
    /\ Read(a, [at |-> "write", todo |-> Edited(id, records[id], content)])
    /\ vetted' = [vetted EXCEPT ![id] = @ \union {content}]

AddEvidence(a, id) ==
    /\ IsActive(records[id])
    /\ Read(a, [at |-> "write", todo |->
            <<Put(id, [records[id] EXCEPT !.evidence = @ + 1]),
              Audit(id, "evidence", "none", "none")>>])
    /\ UNCHANGED vetted

-----------------------------------------------------------------------------
(* merge: get source, get target *)

MergeSource(a, source, target) ==
    /\ source # target
    /\ Exists(source)
    /\ Read(a, [at |-> "merge", todo |-> <<>>, source |-> source, target |-> target,
                record |-> records[source]])
    /\ UNCHANGED vetted

UnionTags(target, source) == target.tags \union source.tags

\* Mutant of Merged: the source is archived before the survivor has its tags.
Merged_SourceFirst(source, target, from, to) ==
    <<PutMerged(source, [from EXCEPT !.status = "archived"], target),
      Put(target, [to EXCEPT !.tags = UnionTags(to, from)]),
      Audit(source, "merged", "none", target),
      Audit(target, "merged", "none", "none")>>

Merged(source, target, from, to) ==
    <<Put(target, [to EXCEPT !.tags = UnionTags(to, from)]),
      PutMerged(source, [from EXCEPT !.status = "archived"], target),
      Audit(source, "merged", "none", target),
      Audit(target, "merged", "none", "none")>>

MergeTarget(a) ==
    LET op == actor[a] IN
    /\ op.at = "merge"
    /\ IF IsActive(op.record) /\ IsActive(records[op.target])
       THEN Then(a, Merged(op.source, op.target, op.record, records[op.target]))
       ELSE Refuse(a)

-----------------------------------------------------------------------------
(* split: get source, look up new_id; updated is "none" or the source's new content *)

SplitSource(a, source, new, content, updated) ==
    /\ IsActive(records[source])
    /\ Read(a, [at |-> "split", todo |-> <<>>, source |-> source, record |-> records[source],
                new |-> new, content |-> content, updated |-> updated])
    /\ vetted' = IF updated = "none" THEN vetted
                 ELSE [vetted EXCEPT ![source] = @ \union {updated}]

\* Mutant of SplitOff: the new memory starts with the status of its source.
SplitOff_Inherits(source, record, new, content, updated) ==
    Created(new, [record EXCEPT !.content = content])
        \o (IF updated = "none" THEN <<>> ELSE Edited(source, record, updated))
        \o <<Audit(source, "split", "none", new), Audit(new, "split", "none", "none")>>

SplitOff(source, record, new, content, updated) ==
    Created(new, Candidate(content, record.tags))
        \o (IF updated = "none" THEN <<>> ELSE Edited(source, record, updated))
        \o <<Audit(source, "split", "none", new), Audit(new, "split", "none", "none")>>

SplitNew(a) ==
    LET op == actor[a] IN
    /\ op.at = "split"
    /\ IF ~Taken(op.new)
       THEN Then(a, SplitOff(op.source, op.record, op.new, op.content, op.updated))
       ELSE Refuse(a)

-----------------------------------------------------------------------------
(* put_record, append_audit, append_index: one storage operation *)

\* Mutant of AfterWrite: the operation is not over after its last write.
AfterWrite_Open(todo) == [at |-> "write", todo |-> Tail(todo)]

AfterWrite(todo) == IF Len(todo) = 1 THEN Idle ELSE [at |-> "write", todo |-> Tail(todo)]

Write(a) ==
    LET w == Head(actor[a].todo) IN
    /\ actor[a].at = "write"
    /\ records' = IF w.do = "put" THEN [records EXCEPT ![w.id] = w.record] ELSE records
    /\ audit' = IF w.do = "audit" THEN [audit EXCEPT ![w.id] = Append(@, w.event)] ELSE audit
    /\ index' = IF w.do = "index" THEN Append(index, w.id) ELSE index
    /\ actor' = [actor EXCEPT ![a] = AfterWrite(actor[a].todo)]
    /\ gone' = IF w.do = "audit" /\ w.event.action \in {"rejected", "archived"}
               THEN gone \union {w.id} ELSE gone
    /\ into' = IF "into" \in DOMAIN w THEN [into EXCEPT ![w.id] = w.into] ELSE into
    /\ UNCHANGED <<ops, cut, overlap, vetted>>

\* A write fails or the process dies: the rest is never written.
Stop(a) ==
    /\ actor[a].at = "write"
    /\ actor' = [actor EXCEPT ![a] = Idle]
    /\ cut' = cut \union {actor[a].todo[i].id : i \in DOMAIN actor[a].todo}
    /\ UNCHANGED <<records, audit, index, ops, gone, overlap, into, vetted>>

\* The bound on operations is used up and every one of them is over.
Quiet ==
    /\ ops >= (IF overlap THEN MaxOverlapOps ELSE MaxOps)
    /\ \A a \in Actors : actor[a] = Idle
    /\ UNCHANGED vars

Next ==
    \/ Quiet
    \/ \E a \in Actors :
          \/ \E id \in Ids, content \in Contents, tags \in SUBSET Tags :
                CreateGet(a, id, Candidate(content, tags))
          \/ \E id \in Ids, status \in {"approved", "rejected", "archived"} : Review(a, id, status)
          \/ \E id \in Ids, content \in Contents : Edit(a, id, content)
          \/ \E id \in Ids : AddEvidence(a, id)
          \/ \E source, target \in Ids : MergeSource(a, source, target)
          \/ \E source, new \in Ids, content \in Contents, updated \in Contents \union {"none"} :
                SplitSource(a, source, new, content, updated)
          \/ CreateReplay(a) \/ CreateScan(a) \/ CreateDecide(a) \/ MergeTarget(a) \/ SplitNew(a) \/ Write(a) \/ Stop(a)

Spec == Init /\ [][Next]_vars

(***************************************************************************)
(* Properties                                                              *)
(***************************************************************************)

Records == [status : {"candidate", "approved", "rejected", "archived"},
            content : Contents, tags : SUBSET Tags, evidence : 0..MaxOps]
BusyWith(id) == \E a \in Actors : \E i \in DOMAIN actor[a].todo : actor[a].todo[i].id = id

\* A record is a complete entry or absent, and an operation that is writing has a
\* write left.
TypeOK ==
    /\ \A id \in Ids : records[id] \in Records \union {NoRecord}
    /\ \A a \in Actors : actor[a].at = "write" <=> actor[a].todo # <<>>
    /\ ToSet(index) \union cut \union gone \subseteq Ids

\* The status the audit stream tells, and the content revisions() ends with
StatusEvents(events) ==
    SelectSeq(events, LAMBDA e : \/ e.action \in {"created", "approved", "rejected", "archived"}
                                 \/ e.action = "merged" /\ e.other # "none")
StatusAfter(event) ==
    CASE event.action = "created" -> "candidate"
      [] event.action = "merged"  -> "archived"
      [] OTHER -> event.action
Revisions(events) == SelectSeq(events, LAMBDA e : e.action \in {"created", "edited"})

\* While operations do not overlap, whatever sequence of them is run: a memory no
\* unfinished operation has touched has the status its audit stream ends with, and the
\* last of its revisions is its content.
HistoryMatchesRecord ==
    ~overlap => \A id \in Ids :
        Exists(id) /\ id \notin cut /\ ~BusyWith(id) =>
            /\ records[id].content = Last(Revisions(audit[id])).content
            /\ records[id].status = StatusAfter(Last(StatusEvents(audit[id])))

\* While operations do not overlap the index lists no memory twice, so no query returns
\* one twice, even when a creation stopped half way and was tried again.
IndexedOnce == ~overlap => IsInjective(index)

\* "Carry the duplicate's tags onto the survivor, then archive the source": while
\* operations do not overlap, a memory that a merge archived has its tags on the
\* memory it was merged into, also when the merge stopped half way, and whatever was
\* reviewed, edited, merged or split since.
MergedTagsSurvive ==
    ~overlap => \A id \in Ids :
        into[id] # "none" =>
            /\ records[id].status = "archived"
            /\ records[id].tags \subseteq records[into[id]].tags

\* Whoever writes concurrently and wherever they stop, every indexed memory has its
\* document: one missing would fail every list, retrieve and create (indexed_records).
IndexedMemoriesExist == \A id \in ToSet(index) : Exists(id)

\* retrieve: approved memory reaches inference
Retrieved == {id \in ToSet(index) : records[id].status = "approved"}

\* Whoever writes concurrently and wherever they stop, what inference retrieves was
\* reviewed: the content of every approved memory is one that its reviewer approved,
\* or wrote into it (review, edit, split; a split-off memory starts as a candidate).
RetrievedWasVetted == \A id \in Retrieved : records[id].content \in vetted[id]

\* "Candidates, rejected memory, and archived memory ... are excluded from inference
\* retrieval": a memory whose rejection or archiving was recorded is not retrieved.
ReviewedOutStaysOut == gone \intersect Retrieved = {}

=============================================================================
