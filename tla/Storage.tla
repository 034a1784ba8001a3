------------------------------- MODULE Storage -------------------------------
(***************************************************************************)
(* The storage backends of codel00p-storage (in_memory.rs, sqlite.rs,      *)
(* postgres.rs) under concurrent clients, each a process with its own      *)
(* connection.  A put reads the version of the row and then writes it; an  *)
(* append reads the last sequence number and then inserts.  A statement is *)
(* atomic; in memory a whole operation is (&mut self), in SQLite an append *)
(* is (an Immediate transaction), in Postgres its two statements run in a  *)
(* READ COMMITTED transaction and the primary key refuses a taken sequence *)
(* number.                                                                 *)
(***************************************************************************)
EXTENDS Naturals, FiniteSetsExt

CONSTANTS
    Clients,    \* processes that share one database
    Keys,       \* the <<scope, collection, id>> of documents, <<scope, key>> of values
    Payloads,
    MaxVersion, \* bound: versions a row reaches
    MaxEntries  \* bound: entries of the log stream

ASSUME BoundsAssumption == MaxVersion \in Nat /\ MaxEntries \in Nat

Tables == {"values", "documents"}
NoRow == [version |-> 0, payload |-> "none"]

VARIABLES
    backend, \* which implementation of the traits the processes use
    rows,   \* storage_values and storage_documents
    log,    \* storage_logs of one stream: the payload of each sequence number
    client, \* what each client has read: the statement it is about to run
    acked   \* history: the entries append_log_entry returned

vars == <<backend, rows, log, client, acked>>

Idle == [at |-> "idle"]
Entry == [sequence : Nat, payload : Payloads]

Init ==
    /\ backend \in {"memory", "sqlite", "postgres"}
    /\ rows = [t \in Tables |-> [k \in Keys |-> NoRow]]
    /\ log = <<>>
    /\ client = [c \in Clients |-> Idle]
    /\ acked = {}

-----------------------------------------------------------------------------
(* put_value, put_document, delete_value, delete_document *)

\* A put is one step only where the store is owned by its single user.
OneStep == backend = "memory"

Upsert(table, key, version, payload) ==
    rows' = [rows EXCEPT ![table][key] = [version |-> version, payload |-> payload]]

\* Mutant of NextVersion: the version is bumped twice.
NextVersion_Twice(table, key) == rows[table][key].version + 2

NextVersion(table, key) == rows[table][key].version + 1

\* InMemoryStorage
PutInMemory(c, table, key, payload) ==
    /\ OneStep
    /\ client[c] = Idle
    /\ rows[table][key].version < MaxVersion
    /\ Upsert(table, key, NextVersion(table, key), payload)
    /\ UNCHANGED <<log, client, acked>>

\* SELECT version
PutSelect(c, table, key, payload) ==
    /\ ~OneStep
    /\ client[c] = Idle
    /\ rows[table][key].version < MaxVersion
    /\ client' = [client EXCEPT ![c] = [at |-> "put", table |-> table, key |-> key,
                        version |-> NextVersion(table, key), payload |-> payload]]
    /\ UNCHANGED <<rows, log, acked>>

\* INSERT ... ON CONFLICT DO UPDATE
PutUpsert(c) ==
    /\ client[c].at = "put"
    /\ Upsert(client[c].table, client[c].key, client[c].version, client[c].payload)
    /\ client' = [client EXCEPT ![c] = Idle]
    /\ UNCHANGED <<log, acked>>

Delete(c, table, key) ==
    /\ client[c] = Idle
    /\ rows' = [rows EXCEPT ![table][key] = NoRow]
    /\ UNCHANGED <<log, client, acked>>

-----------------------------------------------------------------------------
(* append_log_entry *)

\* Mutant of NextSequence: the number of the last entry is taken again.
NextSequence_Last == Max(DOMAIN log \union {0})

\* COALESCE(MAX(sequence), 0) + 1
NextSequence == Max(DOMAIN log \union {0}) + 1

\* Mutant of SequenceFree: the insert overwrites, as the upserts of rows do.
SequenceFree_Upsert(sequence) == TRUE

\* The primary key (scope, stream, sequence) accepts the row.
SequenceFree(sequence) == sequence \notin DOMAIN log

InsertEntry(sequence, payload) ==
    /\ log' = [s \in DOMAIN log \union {sequence} |->
                  IF s = sequence THEN payload ELSE log[s]]
    /\ acked' = acked \union {[sequence |-> sequence, payload |-> payload]}

\* InMemoryStorage, and SqliteStorage inside its Immediate transaction
AppendAtOnce(c, payload) ==
    /\ backend \in {"memory", "sqlite"}
    /\ client[c] = Idle
    /\ NextSequence <= MaxEntries
    /\ InsertEntry(NextSequence, payload)
    /\ UNCHANGED <<rows, client>>

\* PostgresStorage: the transaction's SELECT
AppendSelect(c, payload) ==
    /\ backend = "postgres"
    /\ client[c] = Idle
    /\ NextSequence <= MaxEntries
    /\ client' = [client EXCEPT ![c] =
                    [at |-> "append", sequence |-> NextSequence, payload |-> payload]]
    /\ UNCHANGED <<rows, log, acked>>

\* Its INSERT and commit, or the unique violation that fails the append
AppendInsert(c) ==
    /\ client[c].at = "append"
    /\ IF SequenceFree(client[c].sequence)
       THEN InsertEntry(client[c].sequence, client[c].payload)
       ELSE UNCHANGED <<log, acked>>
    /\ client' = [client EXCEPT ![c] = Idle]
    /\ UNCHANGED rows

\* A process dies between two statements; an open transaction rolls back.
Crash(c) ==
    /\ client[c] # Idle
    /\ client' = [client EXCEPT ![c] = Idle]
    /\ UNCHANGED <<rows, log, acked>>

Next ==
    /\ \E c \in Clients :
        \/ \E t \in Tables, k \in Keys, p \in Payloads :
             PutInMemory(c, t, k, p) \/ PutSelect(c, t, k, p)
        \/ PutUpsert(c)
        \/ \E t \in Tables, k \in Keys : Delete(c, t, k)
        \/ \E p \in Payloads : AppendAtOnce(c, p) \/ AppendSelect(c, p)
        \/ AppendInsert(c)
        \/ Crash(c)
    /\ UNCHANGED backend

Spec == Init /\ [][Next]_vars

(***************************************************************************)
(* Properties                                                              *)
(***************************************************************************)

Rows == [version : 0..MaxVersion, payload : Payloads \union {"none"}]

Pending ==
    {Idle}
      \union [at : {"put"}, table : Tables, key : Keys, version : 1..MaxVersion,
               payload : Payloads]
      \union [at : {"append"}, sequence : 1..MaxEntries, payload : Payloads]

\* Rows, entries and what a client has read keep the shape of the tables.
TypeOK ==
    /\ backend \in {"memory", "sqlite", "postgres"}
    /\ rows \in [Tables -> [Keys -> Rows]]
    /\ DOMAIN log \subseteq Nat
    /\ \A s \in DOMAIN log : log[s] \in Payloads
    /\ client \in [Clients -> Pending]
    /\ acked \subseteq Entry

\* The sequence numbers of a stream are 1, 2, 3, ... without a gap, and an entry
\* that append_log_entry returned is replayed with its payload, whoever else
\* appends.
AckedEntriesKept ==
    /\ \E n \in 0..MaxEntries : DOMAIN log = 1..n
    /\ \A e \in acked : e.sequence \in DOMAIN log /\ log[e.sequence] = e.payload

\* Every backend implements the atomic append log.
Abstract == INSTANCE AppendLog WITH stream <- log

ImplementsAppendLog == Abstract!Spec

=============================================================================
