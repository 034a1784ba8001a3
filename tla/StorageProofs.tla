---------------------------- MODULE StorageProofs ----------------------------
(***************************************************************************)
(* For any number of clients, keys and payloads: an acknowledged append is *)
(* replayed for good, and every backend implements the atomic append log,  *)
(* the one that inserts in a second statement included.                    *)
(***************************************************************************)
EXTENDS Storage, SequenceTheorems, TLAPS

\* The stream is dense, and a sequence number read earlier is at most one past
\* its end: when it is still free, it is the next one.
LogInv ==
    /\ client = [c \in Clients |-> client[c]]
    /\ log \in Seq(Payloads)
    /\ Len(log) <= MaxEntries
    /\ \A c \in Clients : client[c].at = "append" =>
         /\ client[c].payload \in Payloads
         /\ client[c].sequence \in 1..(Len(log) + 1)
         /\ client[c].sequence <= MaxEntries
    /\ \A e \in acked : e.sequence \in DOMAIN log /\ log[e.sequence] = e.payload

LEMMA MaxOfDense ==
    ASSUME NEW n \in Nat
    PROVE  Max((1..n) \union {0}) = n
<1>1. /\ n \in (1..n) \union {0}
      /\ \A y \in (1..n) \union {0} : n >= y
  OBVIOUS
<1>2. ASSUME NEW x \in (1..n) \union {0}, \A y \in (1..n) \union {0} : x >= y
      PROVE  x = n
  BY <1>1, <1>2
<1> QED
  BY <1>1, <1>2 DEF Max

LEMMA NextSequenceIs ==
    ASSUME log \in Seq(Payloads)
    PROVE  NextSequence = Len(log) + 1
<1>1. DOMAIN log = 1..Len(log) /\ Len(log) \in Nat
  OBVIOUS
<1> QED
  BY <1>1, MaxOfDense DEF NextSequence

\* Inserting the next number is an Append.
LEMMA InsertIsAppend ==
    ASSUME log \in Seq(Payloads), NEW p \in Payloads, InsertEntry(Len(log) + 1, p)
    PROVE  log' = Append(log, p)
<1>1. DOMAIN log = 1..Len(log) /\ Len(log) \in Nat
  OBVIOUS
<1>2. log' = [s \in 1..(Len(log) + 1) |-> IF s = Len(log) + 1 THEN p ELSE log[s]]
  <2>1. (1..Len(log)) \union {Len(log) + 1} = 1..(Len(log) + 1)
    BY <1>1
  <2> QED
    BY <1>1, <2>1 DEF InsertEntry
<1>3. log' \in Seq(Payloads) /\ Len(log') = Len(log) + 1
  <2>1. log' \in [1..(Len(log) + 1) -> Payloads]
    BY <1>1, <1>2
  <2> QED
    BY <1>1, <2>1
<1>4. /\ Append(log, p) \in Seq(Payloads) /\ Len(Append(log, p)) = Len(log) + 1
      /\ \A s \in 1..(Len(log) + 1) : Append(log, p)[s] = log'[s]
  BY <1>1, <1>2
<1> QED
  BY <1>3, <1>4, SeqEqual

LEMMA LogGrows ==
    ASSUME LogInv, NEW p \in Payloads, InsertEntry(Len(log) + 1, p), Len(log) < MaxEntries
    PROVE  /\ log' \in Seq(Payloads) /\ Len(log') = Len(log) + 1
           /\ \A e \in acked' : e.sequence \in DOMAIN log' /\ log'[e.sequence] = e.payload
<1>1. log \in Seq(Payloads) /\ Len(log) \in Nat
  BY DEF LogInv
<1>2. log' = Append(log, p)
  BY <1>1, InsertIsAppend
<1>3. /\ log' \in Seq(Payloads) /\ Len(log') = Len(log) + 1
      /\ \A s \in DOMAIN log : log'[s] = log[s] /\ s \in DOMAIN log'
      /\ log'[Len(log) + 1] = p /\ Len(log) + 1 \in DOMAIN log'
  BY <1>1, <1>2
<1>4. acked' = acked \union {[sequence |-> Len(log) + 1, payload |-> p]}
  BY DEF InsertEntry
<1> QED
  BY <1>3, <1>4 DEF LogInv

LEMMA LogInit == Init => LogInv
<1> SUFFICES ASSUME Init PROVE LogInv
  OBVIOUS
<1>1. log \in Seq(Payloads) /\ Len(log) = 0 /\ acked = {}
  BY DEF Init
<1>2. \A c \in Clients : client[c].at # "append"
  BY DEF Init, Idle
<1>3. client = [c \in Clients |-> client[c]]
  BY DEF Init
<1> QED
  BY <1>1, <1>2, <1>3, BoundsAssumption DEF LogInv

\* Every step leaves the stream alone or appends one payload to it.
LEMMA LogStep ==
    ASSUME LogInv, Next
    PROVE  LogInv' /\ (log' = log \/ \E p \in Payloads : log' = Append(log, p))
<1>t. log \in Seq(Payloads) /\ Len(log) \in Nat /\ MaxEntries \in Nat
  BY BoundsAssumption DEF LogInv
<1> PICK c \in Clients :
        \/ \E t \in Tables, k \in Keys, p \in Payloads :
             PutInMemory(c, t, k, p) \/ PutSelect(c, t, k, p)
        \/ PutUpsert(c)
        \/ \E t \in Tables, k \in Keys : Delete(c, t, k)
        \/ \E p \in Payloads : AppendAtOnce(c, p) \/ AppendSelect(c, p)
        \/ AppendInsert(c)
        \/ Crash(c)
  BY DEF Next
<1>f. client = [d \in Clients |-> client[d]]
  BY DEF LogInv
<1>g. ASSUME NEW v, client' = [client EXCEPT ![c] = v]
      PROVE  /\ client' = [d \in Clients |-> client'[d]]
             /\ client'[c] = v
             /\ \A d \in Clients : d # c => client'[d] = client[d]
  BY <1>f, <1>g
<1>k. ASSUME UNCHANGED <<log, acked>>, client' = [d \in Clients |-> client'[d]],
             \A d \in Clients : client'[d] = client[d] \/ client'[d].at # "append"
      PROVE  LogInv'
  BY <1>k DEF LogInv
<1>1. CASE \E t \in Tables, k \in Keys, p \in Payloads :
             PutInMemory(c, t, k, p) \/ PutSelect(c, t, k, p)
  <2>1. UNCHANGED <<log, acked>>
    BY <1>1 DEF PutInMemory, PutSelect
  <2>2. /\ client' = [d \in Clients |-> client'[d]]
        /\ \A d \in Clients : client'[d] = client[d] \/ client'[d].at # "append"
    <3>1. CASE client' = client
      BY <1>f, <3>1
    <3>2. ASSUME NEW t \in Tables, NEW k \in Keys, NEW p \in Payloads, PutSelect(c, t, k, p)
          PROVE  \E v : client' = [client EXCEPT ![c] = v] /\ v.at = "put"
      <4> DEFINE v == [at |-> "put", table |-> t, key |-> k,
                       version |-> NextVersion(t, k), payload |-> p]
      <4>1. client' = [client EXCEPT ![c] = v] /\ v.at = "put"
        BY <3>2 DEF PutSelect
      <4> QED
        BY <4>1
    <3>3. CASE \E v : client' = [client EXCEPT ![c] = v] /\ v.at = "put"
      BY <3>3, <1>g
    <3> QED
      BY <1>1, <3>1, <3>2, <3>3 DEF PutInMemory
  <2> QED
    BY <2>1, <2>2, <1>k
<1>2. CASE PutUpsert(c) \/ Crash(c)
  <2>1. UNCHANGED <<log, acked>>
    BY <1>2 DEF PutUpsert, Crash
  <2>2. /\ client' = [d \in Clients |-> client'[d]]
        /\ \A d \in Clients : client'[d] = client[d] \/ client'[d].at # "append"
    <3>1. client' = [client EXCEPT ![c] = Idle]
      BY <1>2 DEF PutUpsert, Crash
    <3> QED
      BY <3>1, <1>g DEF Idle
  <2> QED
    BY <2>1, <2>2, <1>k
<1>3. CASE \E t \in Tables, k \in Keys : Delete(c, t, k)
  <2>1. UNCHANGED <<log, acked, client>>
    BY <1>3 DEF Delete
  <2> QED
    BY <2>1, <1>f, <1>k
<1>4. ASSUME NEW p \in Payloads, AppendAtOnce(c, p)
      PROVE  LogInv' /\ log' = Append(log, p)
  <2>1. InsertEntry(Len(log) + 1, p) /\ Len(log) < MaxEntries /\ client' = client
    BY <1>4, <1>t, NextSequenceIs DEF AppendAtOnce
  <2>2. log' \in Seq(Payloads) /\ Len(log') = Len(log) + 1
        /\ \A e \in acked' : e.sequence \in DOMAIN log' /\ log'[e.sequence] = e.payload
    BY <2>1, LogGrows
  <2> QED
    BY <2>1, <2>2, <1>t, InsertIsAppend DEF LogInv
<1>5. ASSUME NEW p \in Payloads, AppendSelect(c, p)
      PROVE  LogInv' /\ log' = log
  <2>1. UNCHANGED <<log, acked>> /\ Len(log) < MaxEntries
        /\ client' = [client EXCEPT ![c] = [at |-> "append", sequence |-> Len(log) + 1, payload |-> p]]
    BY <1>5, <1>t, NextSequenceIs DEF AppendSelect
  <2>2. ASSUME NEW d \in Clients, client'[d].at = "append"
        PROVE  /\ client'[d].payload \in Payloads
               /\ client'[d].sequence \in 1..(Len(log) + 1)
               /\ client'[d].sequence <= MaxEntries
    <3>1. CASE client'[d] = client[d]
      BY <2>2, <3>1 DEF LogInv
    <3>2. CASE client'[d] = [at |-> "append", sequence |-> Len(log) + 1, payload |-> p]
      BY <2>1, <3>2, <1>t
    <3> QED
      BY <2>1, <3>1, <3>2
  <2> QED
    BY <2>1, <2>2 DEF LogInv
<1>6. CASE AppendInsert(c)
  <2>1. client' = [client EXCEPT ![c] = Idle] /\ client[c].at = "append"
    BY <1>6 DEF AppendInsert
  <2>2. /\ client' = [d \in Clients |-> client'[d]]
        /\ \A d \in Clients : client'[d] = client[d] \/ client'[d].at # "append"
    BY <2>1, <1>g DEF Idle
  <2>3. /\ client[c].payload \in Payloads
        /\ client[c].sequence \in 1..(Len(log) + 1)
        /\ client[c].sequence <= MaxEntries
    BY <2>1 DEF LogInv
  <2>4. CASE ~SequenceFree(client[c].sequence)
    <3>1. UNCHANGED <<log, acked>>
      BY <1>6, <2>4 DEF AppendInsert
    <3> QED
      BY <3>1, <2>2, <1>k
  <2>5. CASE SequenceFree(client[c].sequence)
    <3>1. client[c].sequence = Len(log) + 1
      BY <2>3, <2>5, <1>t DEF SequenceFree
    <3>2. InsertEntry(Len(log) + 1, client[c].payload) /\ Len(log) < MaxEntries
      BY <1>6, <2>3, <2>5, <3>1, <1>t DEF AppendInsert
    <3>3. log' \in Seq(Payloads) /\ Len(log') = Len(log) + 1
          /\ \A e \in acked' : e.sequence \in DOMAIN log' /\ log'[e.sequence] = e.payload
      BY <2>3, <3>2, LogGrows
    <3>4. LogInv'
      BY <3>2, <3>3, <2>2, <1>t DEF LogInv
    <3> QED
      BY <2>3, <3>2, <3>4, <1>t, InsertIsAppend
  <2> QED
    BY <2>4, <2>5
<1>7. \A q \in Payloads : AppendAtOnce(c, q) \/ AppendSelect(c, q) =>
          LogInv' /\ (log' = log \/ log' = Append(log, q))
  BY <1>4, <1>5
<1>8. CASE \E p \in Payloads : AppendAtOnce(c, p) \/ AppendSelect(c, p)
  BY <1>7, <1>8
<1>9. ASSUME PutUpsert(c) \/ Crash(c) \/ (\E t \in Tables, k \in Keys : Delete(c, t, k))
             \/ \E t \in Tables, k \in Keys, p \in Payloads :
                  PutInMemory(c, t, k, p) \/ PutSelect(c, t, k, p)
      PROVE  log' = log
  BY <1>9 DEF PutUpsert, Crash, Delete, PutInMemory, PutSelect
<1> QED
  BY <1>1, <1>2, <1>3, <1>6, <1>8, <1>9

LEMMA LogInvariant == Spec => []LogInv
<1>1. LogInv /\ UNCHANGED vars => LogInv'
  BY DEF LogInv, vars
<1> QED
  BY <1>1, LogInit, LogStep, PTL DEF Spec

\* The stream of every backend is dense and keeps every entry an append
\* returned, for any number of concurrent clients and any crash.
THEOREM AckedEntriesAreKept == Spec => []AckedEntriesKept
<1>1. LogInv => AckedEntriesKept
  <2> SUFFICES ASSUME LogInv PROVE AckedEntriesKept
    OBVIOUS
  <2>1. DOMAIN log = 1..Len(log) /\ Len(log) \in 0..MaxEntries
    BY BoundsAssumption DEF LogInv
  <2> QED
    BY <2>1 DEF LogInv, AckedEntriesKept
<1> QED
  BY <1>1, LogInvariant, PTL

\* Reading the last number and inserting in two statements implements the
\* atomic append, because the primary key refuses a number taken meanwhile.
THEOREM BackendsImplementAppendLog == Spec => ImplementsAppendLog
<1>1. Init => Abstract!Init
  BY DEF Init, Abstract!Init
<1>2. LogInv /\ [Next]_vars => [Abstract!Next]_log
  <2> SUFFICES ASSUME LogInv, [Next]_vars
               PROVE  [Abstract!Next]_log
    OBVIOUS
  <2>1. CASE Next
    BY <2>1, LogStep DEF Abstract!Next, Abstract!Append_
  <2>2. CASE UNCHANGED vars
    BY <2>2 DEF vars
  <2> QED
    BY <2>1, <2>2
<1> QED
  BY <1>1, <1>2, LogInvariant, PTL DEF Spec, ImplementsAppendLog, Abstract!Spec

=============================================================================
