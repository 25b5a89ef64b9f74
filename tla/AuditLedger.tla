----------------------------- MODULE AuditLedger -----------------------------
(***************************************************************************)
(* audit.py: the evidence ledger in SQLite, one connection per thread, one *)
(* process-wide chain lock around read-head / insert / commit.             *)
(*                                                                         *)
(* A step is one lock operation or one SQL statement of one thread.  The   *)
(* connections are in Python's legacy transaction mode: an INSERT opens a  *)
(* transaction, commit() ends it, and the executescript() of _init_db,     *)
(* with which every entry point starts, first commits whatever is open.    *)
(* A failing statement raises with the transaction still open, and nothing *)
(* in audit.py rolls it back.                                              *)
(***************************************************************************)
EXTENDS HashChain, FiniteSets

CONSTANTS
    Threads,
    RequestOf,      \* the request_id argument of each call
    Nobody,         \* no thread: a free lock
    MaxRoots        \* bound on the Merkle roots taken

ASSUME RequestOfAssumption == RequestOf \in [Calls -> RequestIds]
ASSUME NobodyAssumption    == Nobody \notin Threads
ASSUME MaxRootsAssumption  == MaxRoots \in Nat

VARIABLES
    rows,           \* the committed audit_records, in id order
    roots,          \* the committed merkle_roots
    chainLock,      \* the holder of _chain_lock
    writeLock,      \* the connection that holds SQLite's write lock
    txn,            \* the open transaction of each thread's connection
    pc,             \* where each thread is
    local,          \* the locals of the call a thread is in
    todo,           \* the store calls not made yet
    stored,         \* history: the rows as they were committed
    acked           \* history: the records returned to a caller

vars == <<rows, roots, chainLock, writeLock, txn, pc, local, todo, stored, acked>>

-------------------------------------------------------------------------------
NoCall == [kind |-> "none"]

\* A merkle_roots row.  The root hash stands for the set of hashes under it.
Roots == [leaves : SUBSET Hashes, from : Nat, to : Nat, count : Nat]

Closed == [kind |-> "closed"]
Open   == [kind |-> "open"]             \* begun, nothing written
Writes(table, row) == [kind |-> table, row |-> row]

StorePcs  == {"lock", "head", "insert", "commit", "return"}
ReadPcs   == {"check", "query"}
MerklePcs == {"mkInsert", "mkCommit"}

\* The lines audit.py runs with _chain_lock held.
Critical == {"head", "insert", "commit"}

Init ==
    /\ rows = <<>>
    /\ roots = {}
    /\ chainLock = Nobody
    /\ writeLock = Nobody
    /\ txn = [t \in Threads |-> Closed]
    /\ pc = [t \in Threads |-> "idle"]
    /\ local = [t \in Threads |-> NoCall]
    /\ todo = Calls
    /\ stored = <<>>
    /\ acked = {}

-------------------------------------------------------------------------------
\* The write lock once the transaction of t has ended.
Released(t) == IF writeLock = t THEN Nobody ELSE writeLock

WriteLockFree(t) == writeLock \in {Nobody, t}

\* _init_db: whatever a failed statement left open is committed.  It never
\* holds a row, because a COMMIT that fails in WAL mode rolls back.
InitDb(t) ==
    /\ txn' = [txn EXCEPT ![t] = Closed]
    /\ writeLock' = Released(t)

RaiseHoldingLock(t) ==        \* mutant: the lock is not a with-block
    /\ pc' = [pc EXCEPT ![t] = "idle"]
    /\ local' = [local EXCEPT ![t] = NoCall]
    /\ UNCHANGED chainLock

\* The call raises: back to the caller, with the chain lock given up if the
\* with-block was entered.
Raise(t) ==
    /\ pc' = [pc EXCEPT ![t] = "idle"]
    /\ local' = [local EXCEPT ![t] = NoCall]
    /\ chainLock' = IF pc[t] \in Critical THEN Nobody ELSE chainLock

\* What a failed INSERT leaves behind: a constraint error undoes the statement
\* and keeps the transaction with its write lock; an I/O error may also roll
\* the transaction back.
StatementFails(t) ==
    \/ /\ txn' = [txn EXCEPT ![t] = Open]
       /\ writeLock' = t
    \/ /\ txn' = [txn EXCEPT ![t] = Closed]
       /\ UNCHANGED writeLock

\* Another connection kept the write lock for the whole busy timeout.
Busy(t) ==
    /\ ~WriteLockFree(t)
    /\ txn' = [txn EXCEPT ![t] = Open]
    /\ UNCHANGED writeLock

-------------------------------------------------------------------------------
\* store_verification up to the with-statement.
StoreBegin(t, c, evidence, verdict) ==
    /\ pc[t] = "idle"
    /\ c \in todo
    /\ todo' = todo \ {c}
    /\ InitDb(t)
    /\ pc' = [pc EXCEPT ![t] = "lock"]
    /\ local' = [local EXCEPT ![t] =
           [kind    |-> "store",
            content |-> [evidence |-> evidence, call |-> c, verdict |-> verdict],
            head    |-> Genesis]]
    /\ UNCHANGED <<rows, roots, chainLock, stored, acked>>

EnterUnlocked(t) ==           \* mutant: no _chain_lock
    /\ pc[t] = "lock"
    /\ chainLock' = t
    /\ pc' = [pc EXCEPT ![t] = "head"]
    /\ UNCHANGED <<rows, roots, writeLock, txn, local, todo, stored, acked>>

AcquireChainLock(t) ==
    /\ pc[t] = "lock"
    /\ chainLock = Nobody
    /\ chainLock' = t
    /\ pc' = [pc EXCEPT ![t] = "head"]
    /\ UNCHANGED <<rows, roots, writeLock, txn, local, todo, stored, acked>>

\* SELECT record_hash ... LIMIT 1: outside any transaction, committed rows only.
ReadHead(t) ==
    /\ pc[t] = "head"
    /\ local' = [local EXCEPT ![t].head = HeadHash(rows)]
    /\ pc' = [pc EXCEPT ![t] = "insert"]
    /\ UNCHANGED <<rows, roots, chainLock, writeLock, txn, todo, stored, acked>>

\* The row _compute_hash and the INSERT build from the locals of t.
NewRow(t) ==
    [content  |-> local[t].content,
     request  |-> RequestOf[local[t].content.call],
     previous |-> local[t].head,
     hash     |-> RecordHash(local[t].content, local[t].head)]

NeverTaken(t) == FALSE        \* mutant: evidence_id without UNIQUE

\* evidence_id TEXT NOT NULL UNIQUE
EvidenceTaken(t) ==
    \E i \in DOMAIN rows : rows[i].content.evidence = local[t].content.evidence

Insert(t) ==
    /\ pc[t] = "insert"
    /\ WriteLockFree(t)
    /\ ~EvidenceTaken(t)
    /\ txn' = [txn EXCEPT ![t] = Writes("row", NewRow(t))]
    /\ writeLock' = t
    /\ pc' = [pc EXCEPT ![t] = "commit"]
    /\ UNCHANGED <<rows, roots, chainLock, local, todo, stored, acked>>

\* The INSERT raises: busy, duplicate evidence id or I/O error.
InsertFails(t) ==
    /\ pc[t] = "insert"
    /\ \/ Busy(t)
       \/ WriteLockFree(t) /\ StatementFails(t)
    /\ Raise(t)
    /\ UNCHANGED <<rows, roots, todo, stored, acked>>

CommitWithoutRecord(t) ==     \* mutant: no AuditRecord is built for the caller
    /\ pc[t] = "commit"
    /\ rows' = Append(rows, txn[t].row)
    /\ stored' = Append(stored, txn[t].row)
    /\ txn' = [txn EXCEPT ![t] = Closed]
    /\ writeLock' = Nobody
    /\ chainLock' = Nobody
    /\ pc' = [pc EXCEPT ![t] = "return"]
    /\ UNCHANGED <<roots, local, todo, acked>>

Commit(t) ==
    /\ pc[t] = "commit"
    /\ rows' = Append(rows, txn[t].row)
    /\ stored' = Append(stored, txn[t].row)
    /\ txn' = [txn EXCEPT ![t] = Closed]
    /\ writeLock' = Nobody
    /\ chainLock' = Nobody
    /\ pc' = [pc EXCEPT ![t] = "return"]
    /\ local' = [local EXCEPT ![t] = [kind |-> "stored", row |-> txn[t].row]]
    /\ UNCHANGED <<roots, todo, acked>>

CommitFailsOpen(t) ==         \* mutant: a failed commit leaves the row pending
    /\ pc[t] \in {"commit", "mkCommit"}
    /\ UNCHANGED <<txn, writeLock>>
    /\ Raise(t)
    /\ UNCHANGED <<rows, roots, todo, stored, acked>>

\* COMMIT raises (I/O error, disk full): in WAL mode SQLite rolls it back.
CommitFails(t) ==
    /\ pc[t] \in {"commit", "mkCommit"}
    /\ txn' = [txn EXCEPT ![t] = Closed]
    /\ writeLock' = Nobody
    /\ Raise(t)
    /\ UNCHANGED <<rows, roots, todo, stored, acked>>

\* The AuditRecord reaches the caller.
StoreReturn(t) ==
    /\ pc[t] = "return"
    /\ acked' = acked \union {local[t].row}
    /\ pc' = [pc EXCEPT ![t] = "idle"]
    /\ local' = [local EXCEPT ![t] = NoCall]
    /\ UNCHANGED <<rows, roots, chainLock, writeLock, txn, todo, stored>>

-------------------------------------------------------------------------------
\* get_by_evidence_id, get_by_claim_id, get_by_request_id, list_recent and
\* get_replay_inputs: the whole chain is verified, then the rows are selected.
ReadBegin(t) ==
    /\ pc[t] = "idle"
    /\ InitDb(t)
    /\ pc' = [pc EXCEPT ![t] = "check"]
    /\ UNCHANGED <<rows, roots, chainLock, local, todo, stored, acked>>

\* _assert_chain_intact lets the read go on.
CheckPasses(t) ==
    /\ pc[t] = "check"
    /\ Status(rows) # "compromised"
    /\ pc' = [pc EXCEPT ![t] = "query"]
    /\ UNCHANGED <<rows, roots, chainLock, writeLock, txn, local, todo, stored, acked>>

\* AuditIntegrityError
CheckRaises(t) ==
    /\ pc[t] = "check"
    /\ Status(rows) = "compromised"
    /\ pc' = [pc EXCEPT ![t] = "idle"]
    /\ UNCHANGED <<rows, roots, chainLock, writeLock, txn, local, todo, stored, acked>>

Query(t) ==
    /\ pc[t] = "query"
    /\ pc' = [pc EXCEPT ![t] = "idle"]
    /\ UNCHANGED <<rows, roots, chainLock, writeLock, txn, local, todo, stored, acked>>

\* The rows get_by_evidence_id and get_by_request_id answer with: the index on
\* request_id yields the oldest of several.
ByEvidence(evidence) == {i \in DOMAIN rows : rows[i].content.evidence = evidence}
ByRequest(request) ==
    {i \in DOMAIN rows :
        /\ rows[i].request = request
        /\ \A j \in 1 .. i - 1 : rows[j].request # request}

-------------------------------------------------------------------------------
RangeRoot(ids, from, to) ==   \* mutant: every row between the least and greatest id
    [leaves |-> {rows[i].hash : i \in from .. to},
     from   |-> from,
     to     |-> to,
     count  |-> Cardinality(ids)]

\* The merkle_roots row over the records with these ids, the least of them being
\* from and the greatest to.
RootOf(ids, from, to) ==
    [leaves |-> {rows[i].hash : i \in ids},
     from   |-> from,
     to     |-> to,
     count  |-> Cardinality(ids)]

\* compute_merkle_root(record_ids): the leaves are read, then the root row is
\* inserted, all without the chain lock.  No record_ids means every row.
MerkleBegin(t, ids, from, to) ==
    /\ pc[t] = "idle"
    /\ Cardinality(roots) < MaxRoots
    /\ InitDb(t)
    /\ pc' = [pc EXCEPT ![t] = "mkInsert"]
    /\ local' = [local EXCEPT ![t] = [kind |-> "root", row |-> RootOf(ids, from, to)]]
    /\ UNCHANGED <<rows, roots, chainLock, todo, stored, acked>>

MerkleInsertCountsAgain(t) == \* mutant: record_to and the count are read again
    /\ pc[t] = "mkInsert"
    /\ WriteLockFree(t)
    /\ txn' = [txn EXCEPT ![t] =
           Writes("root", [local[t].row EXCEPT !.to = Len(rows),
                                               !.count = Len(rows) - local[t].row.from + 1])]
    /\ writeLock' = t
    /\ pc' = [pc EXCEPT ![t] = "mkCommit"]
    /\ UNCHANGED <<rows, roots, chainLock, local, todo, stored, acked>>

MerkleInsert(t) ==
    /\ pc[t] = "mkInsert"
    /\ WriteLockFree(t)
    /\ txn' = [txn EXCEPT ![t] = Writes("root", local[t].row)]
    /\ writeLock' = t
    /\ pc' = [pc EXCEPT ![t] = "mkCommit"]
    /\ UNCHANGED <<rows, roots, chainLock, local, todo, stored, acked>>

MerkleInsertFails(t) ==
    /\ pc[t] = "mkInsert"
    /\ \/ Busy(t)
       \/ WriteLockFree(t) /\ StatementFails(t)
    /\ Raise(t)
    /\ UNCHANGED <<rows, roots, todo, stored, acked>>

MerkleCommit(t) ==
    /\ pc[t] = "mkCommit"
    /\ roots' = roots \union {txn[t].row}
    /\ txn' = [txn EXCEPT ![t] = Closed]
    /\ writeLock' = Nobody
    /\ pc' = [pc EXCEPT ![t] = "idle"]
    /\ local' = [local EXCEPT ![t] = NoCall]
    /\ UNCHANGED <<rows, chainLock, todo, stored, acked>>

-------------------------------------------------------------------------------
\* The process dies and starts again: what was not committed is gone, what was
\* (synchronous = FULL) is not, and the locks are new.
Restart ==
    /\ chainLock' = Nobody
    /\ writeLock' = Nobody
    /\ txn' = [t \in Threads |-> Closed]
    /\ pc' = [t \in Threads |-> "idle"]
    /\ local' = [t \in Threads |-> NoCall]
    /\ UNCHANGED <<rows, roots, todo, stored, acked>>

\* A hashed column of a committed row is altered outside audit.py, as the
\* ledger's own tests do with an UPDATE statement.
EditRow(i, verdict) ==
    /\ writeLock = Nobody
    /\ rows' = [rows EXCEPT ![i].content.verdict = verdict]
    /\ UNCHANGED <<roots, chainLock, writeLock, txn, pc, local, todo, stored, acked>>

\* The steps a thread takes once it is in a call.
Step(t) ==
    \/ AcquireChainLock(t) \/ ReadHead(t) \/ Insert(t) \/ InsertFails(t)
    \/ Commit(t) \/ CommitFails(t) \/ StoreReturn(t)
    \/ CheckPasses(t) \/ CheckRaises(t) \/ Query(t)
    \/ MerkleInsert(t) \/ MerkleInsertFails(t) \/ MerkleCommit(t)

Begin(t) ==
    \/ \E c \in todo, evidence \in EvidenceIds, verdict \in Verdicts :
          StoreBegin(t, c, evidence, verdict)
    \/ ReadBegin(t)
    \/ \E from, to \in DOMAIN rows : \E ids \in SUBSET (from .. to) :
          {from, to} \subseteq ids /\ MerkleBegin(t, ids, from, to)

Next ==
    \/ \E t \in Threads : Step(t) \/ Begin(t)
    \/ \E i \in DOMAIN rows, verdict \in Verdicts : EditRow(i, verdict)
    \/ Restart

Spec == Init /\ [][Next]_vars

FairSpec == Spec /\ \A t \in Threads : WF_vars(Step(t))
-------------------------------------------------------------------------------
(***************************************************************************)
(* Properties                                                              *)
(***************************************************************************)
StoreLocals == [kind : {"store"}, content : Contents, head : Hashes]
RowLocals   == [kind : {"stored"}, row : Rows]
RootLocals  == [kind : {"root"}, row : Roots]
RowTxns     == [kind : {"row"}, row : Rows]
RootTxns    == [kind : {"root"}, row : Roots]

\* Every variable has its type, and the locals of a thread are those of the
\* call its control state belongs to.
TypeOK ==
    /\ rows \in Seq(Rows)
    /\ stored \in Seq(Rows)
    /\ roots \in SUBSET Roots
    /\ chainLock \in Threads \union {Nobody}
    /\ writeLock \in Threads \union {Nobody}
    /\ txn \in [Threads -> {Closed, Open} \union RowTxns \union RootTxns]
    /\ pc \in [Threads -> {"idle"} \union StorePcs \union ReadPcs \union MerklePcs]
    /\ local \in [Threads -> {NoCall} \union StoreLocals \union RowLocals \union RootLocals]
    /\ todo \subseteq Calls
    /\ acked \subseteq Rows
    /\ \A t \in Threads :
          /\ pc[t] \in {"lock", "head", "insert", "commit"} => local[t] \in StoreLocals
          /\ pc[t] = "return" => local[t] \in RowLocals
          /\ pc[t] \in MerklePcs => local[t] \in RootLocals
          /\ pc[t] = "commit" => txn[t] \in RowTxns
          /\ pc[t] = "mkCommit" => txn[t] \in RootTxns

\* The integrity report names exactly the rows whose hashed columns were
\* altered after they were committed: concurrent stores, failures and restarts
\* break no link, and records stored after an alteration add no break.
BreaksAreEdits ==
    Breaks(rows) = {i \in DOMAIN rows : rows[i].content # stored[i].content}

\* A record that store_verification has returned is read as it was returned, or
\* not at all: while the integrity report lets reads go on, its evidence id finds
\* that very record and no other, and its request id finds it or an older one of
\* the same request.  Nothing is promised of a compromised ledger, whose every
\* authoritative read raises.
AckedReadable ==
    Status(rows) # "compromised" =>
        \A r \in acked :
            \E i \in DOMAIN rows :
                /\ rows[i] = r
                /\ ByEvidence(r.content.evidence) = {i}
                /\ \E j \in 1 .. i : ByRequest(r.request) = {j}

\* A transaction holds a row only inside the call that wrote it, so the commit
\* with which _init_db begins the next call can never add a record whose store
\* was reported as failed.
NoLateCommit ==
    \A t \in Threads :
        /\ txn[t].kind = "row" => pc[t] = "commit" /\ writeLock = t
        /\ txn[t].kind = "root" => pc[t] = "mkCommit" /\ writeLock = t

\* A Merkle root commits to as many committed records as it counts, and one
\* that counts every id of its range commits to exactly the records of that
\* range, though stores go on while it is computed.  (Content edits do not
\* reach the record_hash column the leaves are read from.)
RootsCover ==
    \A m \in roots :
        LET range == {stored[i].hash : i \in m.from .. m.to} IN
        /\ m.leaves \subseteq range
        /\ m.count = Cardinality(m.leaves)
        /\ m.count = m.to - m.from + 1 => m.leaves = range

\* An authoritative read goes past _assert_chain_intact only when every record
\* has the hashed columns it was committed with.
ReadsAreGated ==
    [][\A t \in Threads :
         pc[t] = "check" /\ pc'[t] = "query" =>
            \A i \in DOMAIN rows : rows[i].content = stored[i].content]_vars

\* The ledger implements the append-only chain: concurrent stores never fork
\* it, whatever fails or restarts, and only committed records are acknowledged.
Chain == INSTANCE AuditChain WITH chain <- stored

ImplementsChain == Chain!Spec

\* Every call comes back to its caller: no failure leaves a lock behind that
\* blocks another thread for good.
CallReturns == \A t \in Threads : pc[t] # "idle" ~> pc[t] = "idle"

-------------------------------------------------------------------------------
(***************************************************************************)
(* The inductive invariant behind BreaksAreEdits and ImplementsChain.      *)
(***************************************************************************)
\* Edits leave the id order, both hash columns, the request and the evidence ids alone.
EditsKeepHashes ==
    /\ Len(rows) = Len(stored)
    /\ \A i \in DOMAIN stored :
          /\ rows[i].hash = stored[i].hash
          /\ rows[i].request = stored[i].request
          /\ rows[i].previous = stored[i].previous
          /\ rows[i].content.evidence = stored[i].content.evidence

\* As committed, every record is hashed over the one before it.
StoredIsLinked ==
    \A i \in DOMAIN stored :
        stored[i].hash = RecordHash(stored[i].content, PreviousHash(stored, i))

\* Only the holder of the chain lock is between the with-statement and its end.
CriticalIsExclusive == \A t \in Threads : pc[t] \in Critical => chainLock = t

\* The head a thread computed its hash over is still the head: no other record
\* can have been committed since it was read.
HeadIsFresh ==
    \A t \in Threads :
        pc[t] \in {"insert", "commit"} => local[t].head = HeadHash(rows)

\* The pending transaction is the one the thread's locals describe.
PendingIsOwn ==
    \A t \in Threads :
        /\ pc[t] = "commit" =>
              /\ writeLock = t
              /\ txn[t] = Writes("row", NewRow(t))
              /\ ~EvidenceTaken(t)
        /\ pc[t] = "mkCommit" => writeLock = t

\* What a thread is about to return has been committed.
ReturnsCommitted ==
    \A t \in Threads :
        pc[t] = "return" => \E i \in DOMAIN stored : local[t].row = stored[i]

IInv ==
    /\ TypeOK
    /\ NoLateCommit
    /\ EditsKeepHashes
    /\ StoredIsLinked
    /\ CriticalIsExclusive
    /\ HeadIsFresh
    /\ PendingIsOwn
    /\ ReturnsCommitted

(***************************************************************************)
(* What AckedReadable and RootsCover need besides.                         *)
(***************************************************************************)
\* No two records have one evidence id.
EvidenceIsUnique ==
    \A i, j \in DOMAIN stored :
        stored[i].content.evidence = stored[j].content.evidence => i = j

\* The hash of a record commits to as many records as there were, so no two
\* records have one hash.
HashesCountRecords == \A i \in DOMAIN stored : Len(stored[i].hash) = i

AckedAreStored == \A r \in acked : \E i \in DOMAIN stored : stored[i] = r

\* A root over committed records, the ones it was computed from.
IsRootOf(m, ids) ==
    /\ {m.from, m.to} \subseteq ids
    /\ m.leaves = {stored[i].hash : i \in ids}
    /\ m.count = Cardinality(ids)

Covers(m) ==
    /\ {m.from, m.to} \subseteq DOMAIN stored
    /\ \E ids \in SUBSET (m.from .. m.to) : IsRootOf(m, ids)

\* Every root, in the table or on its way there, is one over committed records.
RootsAreOfRecords ==
    /\ \A m \in roots : Covers(m)
    /\ \A t \in Threads :
          /\ pc[t] \in MerklePcs => Covers(local[t].row)
          /\ pc[t] = "mkCommit" => txn[t] = Writes("root", local[t].row)

Kept == EvidenceIsUnique /\ HashesCountRecords /\ AckedAreStored /\ RootsAreOfRecords
==============================================================================
