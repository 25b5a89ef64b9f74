-------------------------- MODULE AuditLedgerProofs --------------------------
(***************************************************************************)
(* Theorems about AuditLedger, for any threads, calls, evidence ids and    *)
(* verdicts.                                                               *)
(***************************************************************************)
EXTENDS AuditLedger, MerkleTree, SequenceTheorems, FiniteSetTheorems, WellFoundedInduction, TLAPS

\* Appending a row keeps a row sequence a row sequence and adds it at the end.
LEMMA AppendRow ==
    ASSUME NEW s \in Seq(Rows), NEW r \in Rows
    PROVE  /\ Append(s, r) \in Seq(Rows)
           /\ Len(Append(s, r)) = Len(s) + 1
           /\ Append(s, r)[Len(s) + 1] = r
           /\ \A i \in 1 .. Len(s) : Append(s, r)[i] = s[i]
  BY AppendProperties

\* The idealised hash is injective in the content, for a given predecessor.
LEMMA HashInjective ==
    ASSUME NEW p \in Hashes, NEW a \in Contents, NEW b \in Contents
    PROVE  /\ RecordHash(a, p) \in Hashes
           /\ RecordHash(a, p) = RecordHash(b, p) <=> a = b
<1>1. Append(p, a) \in Hashes /\ Append(p, a)[Len(p) + 1] = a
  BY AppendProperties DEF Hashes
<1>2. Append(p, b)[Len(p) + 1] = b
  BY AppendProperties DEF Hashes
<1>3. QED
  BY <1>1, <1>2 DEF RecordHash

\* The head of a chain of rows is a hash.
LEMMA HeadIsHash ==
    ASSUME NEW s \in Seq(Rows)
    PROVE  HeadHash(s) \in Hashes
<1>1. CASE s = <<>>
  BY <1>1 DEF HeadHash, Genesis, Hashes
<1>2. CASE s # <<>>
  <2>1. Len(s) \in 1 .. Len(s)
    BY <1>2, EmptySeq
  <2>2. s[Len(s)] \in Rows
    BY <2>1, ElementOfSeq
  <2>3. QED
    BY <1>2, <2>2 DEF HeadHash, Rows
<1>3. QED
  BY <1>1, <1>2

-------------------------------------------------------------------------------
\* The row a thread is about to insert is a row.
LEMMA NewRowType ==
    ASSUME TypeOK, NEW t \in Threads, pc[t] = "insert"
    PROVE  NewRow(t) \in Rows
<1>1. local[t] \in StoreLocals
  BY DEF TypeOK
<1>2. /\ local[t].content \in Contents
      /\ local[t].head \in Hashes
      /\ local[t].content.call \in Calls
  BY <1>1 DEF StoreLocals, Contents
<1>3. RecordHash(local[t].content, local[t].head) \in Hashes
  BY <1>2, HashInjective
<1>4. RequestOf[local[t].content.call] \in RequestIds
  BY <1>2, RequestOfAssumption
<1>5. QED
  BY <1>2, <1>3, <1>4 DEF NewRow, Rows

\* So is a Merkle root over committed rows.
LEMMA RootOfType ==
    ASSUME TypeOK, NEW from \in DOMAIN rows, NEW to \in DOMAIN rows,
           NEW ids \in SUBSET (from .. to)
    PROVE  RootOf(ids, from, to) \in Roots
<1>1. rows \in Seq(Rows) /\ Len(rows) \in Nat /\ DOMAIN rows = 1 .. Len(rows)
  BY LenProperties DEF TypeOK
<1>2. from \in Nat /\ to \in Nat
  BY <1>1
<1>3. \A i \in ids : rows[i] \in Rows
  <2>1. SUFFICES ASSUME NEW i \in ids PROVE rows[i] \in Rows
    OBVIOUS
  <2>2. i \in 1 .. Len(rows)
    BY <1>1
  <2>3. QED
    BY <1>1, <2>2, ElementOfSeq
<1>4. {rows[i].hash : i \in ids} \in SUBSET Hashes
  BY <1>3 DEF Rows
<1>5. Cardinality(ids) \in Nat
  <2>1. IsFiniteSet(from .. to)
    BY <1>2, FS_Interval
  <2>2. IsFiniteSet(ids)
    BY <2>1, FS_Subset
  <2>3. QED
    BY <2>2, FS_CardinalityType
<1>6. QED
  BY <1>2, <1>4, <1>5 DEF RootOf, Roots

-------------------------------------------------------------------------------
\* A call that raises leaves a well-typed thread behind.
LEMMA RaiseType ==
    ASSUME TypeOK, NEW t \in Threads, Raise(t)
    PROVE  /\ pc' \in [Threads -> {"idle"} \union StorePcs \union ReadPcs \union MerklePcs]
           /\ local' \in [Threads -> {NoCall} \union StoreLocals \union RowLocals \union RootLocals]
           /\ chainLock' \in Threads \union {Nobody}
           /\ pc'[t] = "idle"
           /\ \A u \in Threads \ {t} : pc'[u] = pc[u] /\ local'[u] = local[u]
  BY DEF Raise, TypeOK

\* TypeOK is inductive: one step per action.
LEMMA TypeStep == TypeOK /\ [Next]_vars => TypeOK'
<1> SUFFICES ASSUME TypeOK, [Next]_vars
             PROVE  TypeOK'
  OBVIOUS
<1> USE DEF StorePcs, ReadPcs, MerklePcs
<1>1. ASSUME NEW t \in Threads, NEW c \in todo, NEW evidence \in EvidenceIds,
             NEW verdict \in Verdicts, StoreBegin(t, c, evidence, verdict)
      PROVE  TypeOK'
  <2>1. c \in Calls
    BY DEF TypeOK
  <2>2. Genesis \in Hashes
    BY EmptySeq DEF Genesis, Hashes
  <2>3. [kind |-> "store",
         content |-> [evidence |-> evidence, call |-> c, verdict |-> verdict],
         head |-> Genesis] \in StoreLocals
    BY <2>1, <2>2 DEF StoreLocals, Contents
  <2>4. QED
    BY <1>1, <2>3 DEF StoreBegin, InitDb, Released, TypeOK
<1>2. ASSUME NEW t \in Threads, AcquireChainLock(t)
      PROVE  TypeOK'
  BY <1>2 DEF AcquireChainLock, TypeOK
<1>3. ASSUME NEW t \in Threads, ReadHead(t)
      PROVE  TypeOK'
  <2>1. HeadHash(rows) \in Hashes
    BY HeadIsHash DEF TypeOK
  <2>2. local[t] \in StoreLocals
    BY <1>3 DEF ReadHead, TypeOK
  <2>3. [local[t] EXCEPT !.head = HeadHash(rows)] \in StoreLocals
    BY <2>1, <2>2 DEF StoreLocals
  <2>4. local' = [local EXCEPT ![t] = [local[t] EXCEPT !.head = HeadHash(rows)]]
    BY <1>3 DEF ReadHead
  <2>5. QED
    BY <1>3, <2>3, <2>4 DEF ReadHead, TypeOK
<1>4. ASSUME NEW t \in Threads, Insert(t)
      PROVE  TypeOK'
  <2>1. Writes("row", NewRow(t)) \in RowTxns
    BY <1>4, NewRowType DEF Insert, Writes, RowTxns
  <2>2. QED
    BY <1>4, <2>1 DEF Insert, TypeOK
<1>5. ASSUME NEW t \in Threads, InsertFails(t)
      PROVE  TypeOK'
  BY <1>5, RaiseType DEF InsertFails, Busy, StatementFails, TypeOK
<1>6. ASSUME NEW t \in Threads, Commit(t)
      PROVE  TypeOK'
  <2>1. txn[t] \in RowTxns
    BY <1>6 DEF Commit, TypeOK
  <2>2. txn[t].row \in Rows
    BY <2>1 DEF RowTxns
  <2>3. rows' \in Seq(Rows) /\ stored' \in Seq(Rows)
    BY <1>6, <2>2, AppendRow DEF Commit, TypeOK
  <2>4. [kind |-> "stored", row |-> txn[t].row] \in RowLocals
    BY <2>2 DEF RowLocals
  <2>5. QED
    BY <1>6, <2>3, <2>4 DEF Commit, TypeOK
<1>7. ASSUME NEW t \in Threads, CommitFails(t)
      PROVE  TypeOK'
  BY <1>7, RaiseType DEF CommitFails, TypeOK
<1>8. ASSUME NEW t \in Threads, StoreReturn(t)
      PROVE  TypeOK'
  <2>1. local[t].row \in Rows
    BY <1>8 DEF StoreReturn, TypeOK, RowLocals
  <2>2. QED
    BY <1>8, <2>1 DEF StoreReturn, TypeOK
<1>9. ASSUME NEW t \in Threads, ReadBegin(t)
      PROVE  TypeOK'
  BY <1>9 DEF ReadBegin, InitDb, Released, TypeOK
<1>10. ASSUME NEW t \in Threads, CheckPasses(t) \/ CheckRaises(t) \/ Query(t)
       PROVE  TypeOK'
  BY <1>10 DEF CheckPasses, CheckRaises, Query, TypeOK
<1>11. ASSUME NEW t \in Threads, NEW from \in DOMAIN rows, NEW to \in DOMAIN rows,
              NEW ids \in SUBSET (from .. to), MerkleBegin(t, ids, from, to)
       PROVE  TypeOK'
  <2>1. [kind |-> "root", row |-> RootOf(ids, from, to)] \in RootLocals
    BY RootOfType DEF RootLocals
  <2>2. QED
    BY <1>11, <2>1 DEF MerkleBegin, InitDb, Released, TypeOK
<1>12. ASSUME NEW t \in Threads, MerkleInsert(t)
       PROVE  TypeOK'
  <2>1. local[t] \in RootLocals
    BY <1>12 DEF MerkleInsert, TypeOK
  <2>2. Writes("root", local[t].row) \in RootTxns
    BY <2>1 DEF RootLocals, RootTxns, Writes
  <2>3. QED
    BY <1>12, <2>2 DEF MerkleInsert, TypeOK
<1>13. ASSUME NEW t \in Threads, MerkleInsertFails(t)
       PROVE  TypeOK'
  BY <1>13, RaiseType DEF MerkleInsertFails, Busy, StatementFails, TypeOK
<1>14. ASSUME NEW t \in Threads, MerkleCommit(t)
       PROVE  TypeOK'
  <2>1. txn[t].row \in Roots
    BY <1>14 DEF MerkleCommit, TypeOK, RootTxns
  <2>2. QED
    BY <1>14, <2>1 DEF MerkleCommit, TypeOK
<1>15. ASSUME NEW i \in DOMAIN rows, NEW verdict \in Verdicts, EditRow(i, verdict)
       PROVE  TypeOK'
  <2>1. rows[i] \in Rows
    BY ElementOfSeq, LenProperties DEF TypeOK
  <2>2. [rows[i] EXCEPT !.content.verdict = verdict] \in Rows
    BY <2>1 DEF Rows, Contents
  <2>3. rows' = [rows EXCEPT ![i] = [rows[i] EXCEPT !.content.verdict = verdict]]
    BY <1>15 DEF EditRow
  <2>4. rows' \in Seq(Rows)
    BY <2>2, <2>3, ExceptSeq, LenProperties DEF TypeOK
  <2>5. QED
    BY <1>15, <2>4 DEF EditRow, TypeOK
<1>16. CASE Restart
  BY <1>16 DEF Restart, TypeOK
<1>17. CASE UNCHANGED vars
  BY <1>17 DEF vars, TypeOK
<1>18. QED
  BY <1>1, <1>2, <1>3, <1>4, <1>5, <1>6, <1>7, <1>8, <1>9, <1>10, <1>11, <1>12,
     <1>13, <1>14, <1>15, <1>16, <1>17 DEF Next, Step, Begin

\* The ledger's state is always well typed: for any number of threads, calls
\* and evidence ids, whatever fails, is edited or restarts.
THEOREM TypeCorrect == Spec => []TypeOK
<1>1. Init => TypeOK
  BY EmptySeq DEF Init, TypeOK, StorePcs, ReadPcs, MerklePcs
<1>2. QED
  BY <1>1, TypeStep, PTL DEF Spec

-------------------------------------------------------------------------------
\* An edit of a verdict leaves every hash and id, so the head, alone.
LEMMA EditFrame ==
    ASSUME TypeOK, NEW i \in DOMAIN rows, NEW verdict \in Verdicts, EditRow(i, verdict)
    PROVE  /\ DOMAIN rows' = DOMAIN rows /\ Len(rows') = Len(rows)
           /\ \A j \in DOMAIN rows : /\ rows'[j].hash = rows[j].hash
                                    /\ rows'[j].request = rows[j].request
                                    /\ rows'[j].content.evidence = rows[j].content.evidence
           /\ HeadHash(rows') = HeadHash(rows)
<1>1. rows \in Seq(Rows) /\ DOMAIN rows = 1 .. Len(rows) /\ Len(rows) \in Nat
  BY LenProperties DEF TypeOK
<1>2. rows' = [rows EXCEPT ![i] = [rows[i] EXCEPT !.content.verdict = verdict]]
  BY DEF EditRow
<1>3. rows[i] \in Rows
  BY <1>1, ElementOfSeq
<1>4. [rows[i] EXCEPT !.content.verdict = verdict] \in Rows
  BY <1>3 DEF Rows, Contents
<1>5. rows' \in Seq(Rows) /\ Len(rows') = Len(rows) /\ DOMAIN rows' = DOMAIN rows
  BY <1>1, <1>2, <1>4, ExceptSeq, LenProperties
<1>6. \A j \in DOMAIN rows : /\ rows'[j].hash = rows[j].hash
                           /\ rows'[j].request = rows[j].request
                           /\ rows'[j].content.evidence = rows[j].content.evidence
  <2>1. SUFFICES ASSUME NEW j \in DOMAIN rows
                 PROVE  /\ rows'[j].hash = rows[j].hash
                        /\ rows'[j].request = rows[j].request
                        /\ rows'[j].content.evidence = rows[j].content.evidence
    OBVIOUS
  <2>2. CASE j = i
    BY <1>2, <1>3, <2>2 DEF Rows, Contents
  <2>3. CASE j # i
    BY <1>2, <2>3
  <2>4. QED
    BY <2>2, <2>3
<1>7. rows # <<>> /\ rows' # <<>> /\ Len(rows) \in DOMAIN rows
  BY <1>1, <1>5, EmptySeq
<1>8. QED
  BY <1>5, <1>6, <1>7 DEF HeadHash

\* The control part of the invariant: locks, pending transactions, fresh heads.
Control == NoLateCommit /\ CriticalIsExclusive /\ HeadIsFresh /\ PendingIsOwn

\* The control part is inductive: one step per action.
LEMMA ControlStep == TypeOK /\ Control /\ [Next]_vars => Control'
<1> SUFFICES ASSUME TypeOK, Control, [Next]_vars
             PROVE  Control'
  OBVIOUS
<1> USE DEF Control, NoLateCommit, CriticalIsExclusive, HeadIsFresh, PendingIsOwn, Critical
<1>a. /\ txn \in [Threads -> {Closed, Open} \union RowTxns \union RootTxns]
      /\ DOMAIN pc = Threads /\ DOMAIN local = Threads /\ DOMAIN txn = Threads
  BY DEF TypeOK
<1>1. ASSUME NEW t \in Threads, NEW c \in todo, NEW evidence \in EvidenceIds,
             NEW verdict \in Verdicts, StoreBegin(t, c, evidence, verdict)
      PROVE  Control'
  BY <1>a, <1>1 DEF StoreBegin, InitDb, Released, Closed, NewRow, EvidenceTaken
<1>2. ASSUME NEW t \in Threads, AcquireChainLock(t)
      PROVE  Control'
  BY <1>a, <1>2, NobodyAssumption DEF AcquireChainLock, NewRow, EvidenceTaken
<1>3. ASSUME NEW t \in Threads, ReadHead(t)
      PROVE  Control'
  <2>1. local'[t].head = HeadHash(rows)
    <3>1. local[t] \in StoreLocals
      BY <1>3 DEF ReadHead, TypeOK
    <3>2. QED
      BY <1>a, <1>3, <3>1 DEF ReadHead, StoreLocals
  <2>2. \A u \in Threads \ {t} : local'[u] = local[u]
    BY <1>a, <1>3 DEF ReadHead
  <2>3. QED
    BY <1>a, <1>3, <2>1, <2>2 DEF ReadHead, NewRow, EvidenceTaken
<1>4. ASSUME NEW t \in Threads, Insert(t)
      PROVE  Control'
  BY <1>a, <1>4, NobodyAssumption DEF Insert, WriteLockFree, Writes, NewRow, EvidenceTaken
<1>5. ASSUME NEW t \in Threads, InsertFails(t) \/ MerkleInsertFails(t)
      PROVE  Control'
  BY <1>a, <1>5, NobodyAssumption
  DEF InsertFails, MerkleInsertFails, Busy, StatementFails, WriteLockFree, Raise,
      Open, Closed, NewRow, EvidenceTaken
<1>6. ASSUME NEW t \in Threads, Commit(t)
      PROVE  Control'
  BY <1>a, <1>6 DEF Commit, Closed, NewRow, EvidenceTaken
<1>7. ASSUME NEW t \in Threads, CommitFails(t)
      PROVE  Control'
  BY <1>a, <1>7 DEF CommitFails, Raise, Closed, NewRow, EvidenceTaken
<1>8. ASSUME NEW t \in Threads, StoreReturn(t)
      PROVE  Control'
  BY <1>a, <1>8 DEF StoreReturn, NewRow, EvidenceTaken
<1>9. ASSUME NEW t \in Threads, ReadBegin(t)
      PROVE  Control'
  BY <1>a, <1>9 DEF ReadBegin, InitDb, Released, Closed, NewRow, EvidenceTaken
<1>10. ASSUME NEW t \in Threads, CheckPasses(t) \/ CheckRaises(t) \/ Query(t)
       PROVE  Control'
  BY <1>a, <1>10 DEF CheckPasses, CheckRaises, Query, NewRow, EvidenceTaken
<1>11. ASSUME NEW t \in Threads, NEW from \in DOMAIN rows, NEW to \in DOMAIN rows,
              NEW ids \in SUBSET (from .. to), MerkleBegin(t, ids, from, to)
       PROVE  Control'
  BY <1>a, <1>11 DEF MerkleBegin, InitDb, Released, Closed, NewRow, EvidenceTaken
<1>12. ASSUME NEW t \in Threads, MerkleInsert(t)
       PROVE  Control'
  BY <1>a, <1>12, NobodyAssumption DEF MerkleInsert, WriteLockFree, Writes, NewRow, EvidenceTaken
<1>13. ASSUME NEW t \in Threads, MerkleCommit(t)
       PROVE  Control'
  BY <1>a, <1>13 DEF MerkleCommit, Closed, NewRow, EvidenceTaken
<1>14. ASSUME NEW i \in DOMAIN rows, NEW verdict \in Verdicts, EditRow(i, verdict)
       PROVE  Control'
  <2>1. HeadHash(rows') = HeadHash(rows)
    BY <1>14, EditFrame
  <2>2. UNCHANGED <<chainLock, writeLock, txn, pc, local>>
    BY <1>14 DEF EditRow
  <2>3. \A t \in Threads : pc[t] # "commit"
    BY <1>14, NobodyAssumption DEF EditRow
  <2>4. HeadIsFresh'
    BY <2>1, <2>2 DEF HeadHash
  <2>5. QED
    BY <2>2, <2>3, <2>4
<1>15. CASE Restart
  BY <1>a, <1>15 DEF Restart, Closed, NewRow, EvidenceTaken
<1>16. CASE UNCHANGED vars
  BY <1>16 DEF vars, NewRow, EvidenceTaken
<1>17. QED
  BY <1>1, <1>2, <1>3, <1>4, <1>5, <1>6, <1>7, <1>8, <1>9, <1>10, <1>11, <1>12,
     <1>13, <1>14, <1>15, <1>16 DEF Next, Step, Begin

-------------------------------------------------------------------------------
\* The chain part of the invariant: what is stored, and what is returned of it.
Data == EditsKeepHashes /\ StoredIsLinked /\ ReturnsCommitted

\* Edited or not, the head is the hash of the record committed last.
LEMMA SameHead ==
    ASSUME TypeOK, EditsKeepHashes
    PROVE  HeadHash(rows) = HeadHash(stored) /\ Len(rows) = Len(stored)
<1>1. /\ DOMAIN rows = 1 .. Len(rows) /\ Len(rows) \in Nat
      /\ DOMAIN stored = 1 .. Len(stored) /\ Len(stored) \in Nat
  BY LenProperties DEF TypeOK
<1>2. Len(rows) = Len(stored)
  BY DEF EditsKeepHashes
<1>3. CASE stored = <<>>
  <2>1. rows = <<>>
    BY <1>2, <1>3, EmptySeq DEF TypeOK
  <2>2. QED
    BY <1>2, <1>3, <2>1 DEF HeadHash
<1>4. CASE stored # <<>>
  <2>1. rows # <<>> /\ Len(stored) \in DOMAIN stored
    BY <1>1, <1>2, <1>4, EmptySeq DEF TypeOK
  <2>2. QED
    BY <1>2, <1>4, <2>1 DEF HeadHash, EditsKeepHashes
<1>5. QED
  BY <1>3, <1>4

\* What a commit adds: one row, linked to the head, with a fresh evidence id.
LEMMA CommitFrame ==
    ASSUME TypeOK, Control, EditsKeepHashes, NEW t \in Threads, Commit(t)
    PROVE  LET r == NewRow(t) IN
           /\ r \in Rows
           /\ rows' = Append(rows, r) /\ stored' = Append(stored, r)
           /\ r.previous = HeadHash(stored)
           /\ r.hash = RecordHash(r.content, HeadHash(stored))
           /\ \A i \in DOMAIN stored : stored[i].content.evidence # r.content.evidence
<1>1. /\ pc[t] = "commit"
      /\ txn[t].row = NewRow(t)
      /\ local[t].head = HeadHash(stored)
      /\ ~EvidenceTaken(t)
  <2>1. pc[t] = "commit"
    BY DEF Commit
  <2>2. txn[t] = Writes("row", NewRow(t)) /\ ~EvidenceTaken(t)
    BY <2>1 DEF Control, PendingIsOwn
  <2>3. local[t].head = HeadHash(rows)
    BY <2>1 DEF Control, HeadIsFresh
  <2>4. QED
    BY <2>1, <2>2, <2>3, SameHead DEF Writes
<1>2. txn[t] \in RowTxns
  BY <1>1 DEF TypeOK
<1>3. NewRow(t) \in Rows
  BY <1>1, <1>2 DEF RowTxns
<1>4. \A i \in DOMAIN stored : stored[i].content.evidence # NewRow(t).content.evidence
  BY <1>1 DEF EvidenceTaken, NewRow, EditsKeepHashes
<1>5. QED
  BY <1>1, <1>3, <1>4 DEF Commit, NewRow

\* The chain part is inductive: only a commit and an edit touch the rows.
LEMMA DataStep == TypeOK /\ Control /\ Data /\ [Next]_vars => Data'
<1> SUFFICES ASSUME TypeOK, Control, Data, [Next]_vars
             PROVE  Data'
  OBVIOUS
<1>a. DOMAIN pc = Threads /\ DOMAIN local = Threads
  BY DEF TypeOK
<1>1. ASSUME NEW t \in Threads, Commit(t)
      PROVE  Data'
  <2> DEFINE r == NewRow(t)
  <2>1. /\ r \in Rows
        /\ rows' = Append(rows, r) /\ stored' = Append(stored, r)
        /\ r.hash = RecordHash(r.content, HeadHash(stored))
    BY <1>1, CommitFrame DEF Data
  <2>2. /\ rows \in Seq(Rows) /\ stored \in Seq(Rows) /\ Len(rows) = Len(stored)
        /\ Len(stored) \in Nat /\ DOMAIN stored = 1 .. Len(stored)
        /\ DOMAIN rows = 1 .. Len(stored)
    BY SameHead, LenProperties DEF TypeOK, Data
  <2> HIDE DEF r
  <2>3. /\ rows'[Len(stored) + 1] = r /\ stored'[Len(stored) + 1] = r
        /\ \A i \in 1 .. Len(stored) : rows'[i] = rows[i] /\ stored'[i] = stored[i]
        /\ DOMAIN rows' = 1 .. Len(stored) + 1 /\ DOMAIN stored' = 1 .. Len(stored) + 1
    BY <2>1, <2>2, AppendRow, LenProperties
  <2>4. EditsKeepHashes'
    BY <2>2, <2>3 DEF EditsKeepHashes, Data
  <2>5. StoredIsLinked'
    <3>1. SUFFICES ASSUME NEW i \in 1 .. Len(stored) + 1
                   PROVE  stored'[i].hash = RecordHash(stored'[i].content, PreviousHash(stored', i))
      BY <2>3 DEF StoredIsLinked
    <3>2. CASE i <= Len(stored)
      <4>1. i \in DOMAIN stored /\ stored'[i] = stored[i]
        BY <2>2, <2>3, <3>2
      <4>2. PreviousHash(stored', i) = PreviousHash(stored, i)
        BY <2>2, <2>3, <3>2 DEF PreviousHash
      <4>3. QED
        BY <4>1, <4>2 DEF Data, StoredIsLinked
    <3>3. CASE i = Len(stored) + 1
      <4>1. PreviousHash(stored', i) = HeadHash(stored)
        <5>1. CASE stored = <<>>
          BY <3>3, <5>1, EmptySeq DEF PreviousHash, HeadHash
        <5>2. CASE stored # <<>>
          <6>1. Len(stored) # 0
            BY <2>2, <5>2, EmptySeq
          <6>2. QED
            BY <2>2, <2>3, <3>3, <5>2, <6>1 DEF PreviousHash, HeadHash
        <5>3. QED
          BY <5>1, <5>2
      <4>2. QED
        BY <2>1, <2>3, <3>3, <4>1
    <3>4. QED
      BY <2>2, <3>2, <3>3
  <2>6. ReturnsCommitted'
    <3>1. local'[t].row = r
      <4>1. txn[t] = Writes("row", r)
        BY <1>1 DEF Commit, r, Control, PendingIsOwn
      <4>2. local'[t] = [kind |-> "stored", row |-> txn[t].row]
        BY <1>1, <1>a DEF Commit
      <4>3. QED
        BY <4>1, <4>2 DEF Writes
    <3>2. \A u \in Threads \ {t} : pc'[u] = pc[u] /\ local'[u] = local[u]
      BY <1>1, <1>a DEF Commit
    <3>3. QED
      BY <2>2, <2>3, <3>1, <3>2 DEF ReturnsCommitted, Data
  <2>7. QED
    BY <2>4, <2>5, <2>6 DEF Data
<1>2. ASSUME NEW i \in DOMAIN rows, NEW verdict \in Verdicts, EditRow(i, verdict)
      PROVE  Data'
  BY <1>2, EditFrame
  DEF EditRow, Data, EditsKeepHashes, StoredIsLinked, PreviousHash, ReturnsCommitted
<1>3. ASSUME UNCHANGED <<rows, stored>>,
             \A u \in Threads : pc'[u] = "return" => pc[u] = "return" /\ local'[u] = local[u]
      PROVE  Data'
  BY <1>3 DEF Data, EditsKeepHashes, StoredIsLinked, PreviousHash, ReturnsCommitted
<1>4. ASSUME NEW t \in Threads, Step(t), ~Commit(t)
      PROVE  Data'
  BY <1>a, <1>3, <1>4
  DEF Step, AcquireChainLock, ReadHead, Insert, InsertFails, CommitFails, StoreReturn,
      CheckPasses, CheckRaises, Query, MerkleInsert, MerkleInsertFails, MerkleCommit, Raise
<1>5. ASSUME NEW t \in Threads, Begin(t)
      PROVE  Data'
  BY <1>a, <1>3, <1>5 DEF Begin, StoreBegin, ReadBegin, MerkleBegin
<1>6. CASE Restart
  BY <1>3, <1>6 DEF Restart
<1>7. CASE UNCHANGED vars
  BY <1>3, <1>7 DEF vars
<1>8. QED
  BY <1>1, <1>2, <1>4, <1>5, <1>6, <1>7 DEF Next

\* The inductive invariant holds throughout.
THEOREM Invariance == Spec => []IInv
<1>1. Init => Control /\ Data
  BY EmptySeq
  DEF Init, Control, Data, NoLateCommit, CriticalIsExclusive, HeadIsFresh, PendingIsOwn,
      Critical, Closed, EditsKeepHashes, StoredIsLinked, ReturnsCommitted
<1>2. TypeOK /\ Control /\ Data /\ [Next]_vars => (Control /\ Data)'
  BY ControlStep, DataStep
<1>3. TypeOK /\ Control /\ Data => IInv
  BY DEF IInv, Control, Data
<1>4. QED
  BY <1>1, <1>2, <1>3, TypeCorrect, PTL DEF Spec

-------------------------------------------------------------------------------
\* The integrity report names exactly the altered records, however many were
\* stored after the alteration.
THEOREM BreaksExact == Spec => []BreaksAreEdits
<1>1. ASSUME IInv
      PROVE  BreaksAreEdits
  <2>1. /\ rows \in Seq(Rows) /\ stored \in Seq(Rows)
        /\ DOMAIN rows = 1 .. Len(rows) /\ DOMAIN stored = 1 .. Len(rows)
        /\ Len(rows) \in Nat
    BY <1>1, LenProperties DEF IInv, TypeOK, EditsKeepHashes
  <2>2. SUFFICES ASSUME NEW i \in DOMAIN rows
                 PROVE  RecordHash(rows[i].content, PreviousHash(rows, i)) # rows[i].hash
                        <=> rows[i].content # stored[i].content
    BY DEF BreaksAreEdits, Breaks
  <2>3. rows[i] \in Rows /\ stored[i] \in Rows
    BY <2>1, ElementOfSeq
  <2>4. PreviousHash(rows, i) = PreviousHash(stored, i) /\ PreviousHash(stored, i) \in Hashes
    <3>1. CASE i = 1
      BY <3>1, EmptySeq DEF PreviousHash, Genesis, Hashes
    <3>2. CASE i # 1
      <4>1. i - 1 \in DOMAIN stored /\ stored[i - 1] \in Rows
        BY <2>1, <3>2, ElementOfSeq
      <4>2. QED
        BY <1>1, <3>2, <4>1 DEF PreviousHash, IInv, EditsKeepHashes, Rows
    <3>3. QED
      BY <3>1, <3>2
  <2>5. rows[i].hash = RecordHash(stored[i].content, PreviousHash(stored, i))
    BY <1>1, <2>1 DEF IInv, EditsKeepHashes, StoredIsLinked
  <2>6. rows[i].content \in Contents /\ stored[i].content \in Contents
    BY <2>3 DEF Rows
  <2>7. QED
    BY <2>4, <2>5, <2>6, HashInjective
<1>2. QED
  BY <1>1, Invariance, PTL

\* No transaction outlives the call that wrote it, so no failed store is committed
\* by the next call's executescript.
THEOREM NothingCommittedLate == Spec => []NoLateCommit
<1>1. IInv => NoLateCommit
  BY DEF IInv
<1>2. QED
  BY <1>1, Invariance, PTL

\* An authoritative read goes on only over a ledger none of whose hashed columns
\* has been altered.
THEOREM ReadsStayGated == Spec => ReadsAreGated
<1>1. TypeOK /\ BreaksAreEdits /\ [Next]_vars => [\A t \in Threads :
         pc[t] = "check" /\ pc'[t] = "query" =>
            \A i \in DOMAIN rows : rows[i].content = stored[i].content]_vars
  <2>1. SUFFICES ASSUME TypeOK, BreaksAreEdits, Next, NEW t \in Threads,
                        pc[t] = "check", pc'[t] = "query"
                 PROVE  \A i \in DOMAIN rows : rows[i].content = stored[i].content
    OBVIOUS
  <2>2. Status(rows) # "compromised"
    <3>1. ASSUME NEW s \in Threads, Step(s) PROVE Status(rows) # "compromised"
      BY <2>1, <3>1
      DEF TypeOK, Step, AcquireChainLock, ReadHead, Insert, InsertFails, Commit, CommitFails,
          StoreReturn, CheckPasses, CheckRaises, Query, MerkleInsert, MerkleInsertFails,
          MerkleCommit, Raise
    <3>2. ASSUME NEW s \in Threads, Begin(s) PROVE FALSE
      BY <2>1, <3>2 DEF TypeOK, Begin, StoreBegin, ReadBegin, MerkleBegin
    <3>3. ~Restart
      BY <2>1 DEF Restart
    <3>4. ASSUME NEW i \in DOMAIN rows, NEW verdict \in Verdicts, EditRow(i, verdict) PROVE FALSE
      BY <2>1, <3>4 DEF EditRow
    <3>5. QED
      BY <2>1, <3>1, <3>2, <3>3, <3>4 DEF Next
  <2>3. rows = <<>> \/ Breaks(rows) = {}
    BY <2>2 DEF Status
  <2>4. rows = <<>> => DOMAIN rows = {}
    OBVIOUS
  <2>5. QED
    BY <2>1, <2>3, <2>4 DEF BreaksAreEdits
<1>2. QED
  BY <1>1, TypeCorrect, BreaksExact, PTL DEF Spec, ReadsAreGated

\* The ledger refines the append-only chain: commits are its extensions, returns
\* its acknowledgements, and every other step leaves it alone.
THEOREM Refinement == Spec => ImplementsChain
<1> USE DEF Chain!Contents, Contents, Chain!Rows, Rows, Chain!Hashes, Hashes
<1>1. Init => Chain!Init
  BY DEF Init, Chain!Init
<1>2. ASSUME IInv, [Next]_vars
      PROVE  [Chain!Next]_(Chain!vars)
  <2>1. TypeOK /\ Control /\ Data
    BY <1>2 DEF IInv, Control, Data
  <2>2. ASSUME NEW t \in Threads, Commit(t)
        PROVE  Chain!Next
    <3>1. /\ NewRow(t) \in Rows
          /\ stored' = Append(stored, NewRow(t))
          /\ NewRow(t).previous = HeadHash(stored)
          /\ NewRow(t).hash = RecordHash(NewRow(t).content, HeadHash(stored))
          /\ \A i \in DOMAIN stored :
                stored[i].content.evidence # NewRow(t).content.evidence
      BY <2>1, <2>2, CommitFrame DEF Data
    <3>2. NewRow(t) = [content  |-> NewRow(t).content,
                       request  |-> NewRow(t).request,
                       previous |-> HeadHash(stored),
                       hash     |-> RecordHash(NewRow(t).content, HeadHash(stored))]
      BY <3>1
    <3>3. acked' = acked
      BY <2>2 DEF Commit
    <3>4. Chain!Extend(NewRow(t))
      BY <3>1, <3>3
      DEF Chain!Extend, Chain!HeadHash, HeadHash, Chain!RecordHash, RecordHash,
          Chain!Genesis, Genesis
    <3>5. NewRow(t).content \in Contents /\ NewRow(t).request \in RequestIds
      BY <3>1
    <3>6. QED
      BY <3>2, <3>4, <3>5
      DEF Chain!Next, Chain!HeadHash, HeadHash, Chain!RecordHash, RecordHash,
          Chain!Genesis, Genesis
  <2>3. ASSUME NEW t \in Threads, StoreReturn(t)
        PROVE  Chain!Next
    <3>1. PICK i \in DOMAIN stored : local[t].row = stored[i]
      BY <2>1, <2>3 DEF StoreReturn, Data, ReturnsCommitted
    <3>2. QED
      BY <2>3, <3>1 DEF StoreReturn, Chain!Next, Chain!Acknowledge
  <2>4. ASSUME NEW t \in Threads, Step(t), ~Commit(t), ~StoreReturn(t)
        PROVE  UNCHANGED Chain!vars
    BY <2>4
    DEF Step, AcquireChainLock, ReadHead, Insert, InsertFails, CommitFails, CheckPasses,
        CheckRaises, Query, MerkleInsert, MerkleInsertFails, MerkleCommit, Chain!vars
  <2>5. ASSUME NEW t \in Threads, Begin(t)
        PROVE  UNCHANGED Chain!vars
    BY <2>5 DEF Begin, StoreBegin, ReadBegin, MerkleBegin, Chain!vars
  <2>6. ASSUME \/ Restart
               \/ UNCHANGED vars
               \/ \E i \in DOMAIN rows, verdict \in Verdicts : EditRow(i, verdict)
        PROVE  UNCHANGED Chain!vars
    BY <2>6 DEF Restart, vars, EditRow, Chain!vars
  <2>7. QED
    BY <1>2, <2>2, <2>3, <2>4, <2>5, <2>6 DEF Next
<1>3. QED
  BY <1>1, <1>2, Invariance, PTL DEF Spec, ImplementsChain, Chain!Spec
-------------------------------------------------------------------------------
\* A root over records already committed stays one when another is added.
LEMMA CoversStays ==
    ASSUME NEW m, Covers(m), DOMAIN stored \subseteq DOMAIN stored',
           \A i \in DOMAIN stored : stored'[i] = stored[i],
           stored \in Seq(Rows)
    PROVE  Covers(m)'
<1>1. PICK ids \in SUBSET (m.from .. m.to) : IsRootOf(m, ids)
  BY DEF Covers
<1>2. DOMAIN stored = 1 .. Len(stored) /\ Len(stored) \in Nat
  BY LenProperties
<1>3. m.from \in DOMAIN stored /\ m.to \in DOMAIN stored
  BY DEF Covers
<1>4. \A i \in ids : i \in DOMAIN stored
  BY <1>2, <1>3
<1>5. {stored'[i].hash : i \in ids} = {stored[i].hash : i \in ids}
  BY <1>4
<1>6. IsRootOf(m, ids)'
  BY <1>1, <1>5 DEF IsRootOf
<1>7. QED
  BY <1>3, <1>6 DEF Covers

\* The root a call has just computed is one over the records there are.
LEMMA NewRootCovers ==
    ASSUME TypeOK, EditsKeepHashes, NEW from \in DOMAIN rows, NEW to \in DOMAIN rows,
           NEW ids \in SUBSET (from .. to), {from, to} \subseteq ids
    PROVE  Covers(RootOf(ids, from, to))
<1> DEFINE m == RootOf(ids, from, to)
<1>1. /\ DOMAIN rows = 1 .. Len(rows) /\ Len(rows) \in Nat
      /\ DOMAIN stored = 1 .. Len(stored) /\ Len(stored) = Len(rows)
  BY LenProperties DEF TypeOK, EditsKeepHashes
<1>2. /\ m.from = from /\ m.to = to /\ m.count = Cardinality(ids)
      /\ m.leaves = {rows[i].hash : i \in ids}
  BY DEF RootOf
<1>3. \A i \in ids : i \in DOMAIN stored
  BY <1>1
<1>4. m.leaves = {stored[i].hash : i \in ids}
  BY <1>2, <1>3 DEF EditsKeepHashes
<1> HIDE DEF m
<1>5. IsRootOf(m, ids)
  BY <1>2, <1>4 DEF IsRootOf
<1>6. Covers(m)
  BY <1>1, <1>2, <1>5 DEF Covers
<1>7. QED
  BY <1>6 DEF m

\* The head's hash counts the records.
LEMMA HeadCounts ==
    ASSUME TypeOK, HashesCountRecords
    PROVE  Len(HeadHash(stored)) = Len(stored)
<1>1. CASE stored = <<>>
  BY <1>1, EmptySeq DEF HeadHash, Genesis
<1>2. CASE stored # <<>>
  <2>1. Len(stored) \in DOMAIN stored
    BY <1>2, EmptySeq, LenProperties DEF TypeOK
  <2>2. QED
    BY <1>2, <2>1 DEF HeadHash, HashesCountRecords
<1>3. QED
  BY <1>1, <1>2

\* A step that commits no record keeps what holds of the records, and what holds
\* of the roots if it adds none that is not one over records.
LEMMA RecordsKept ==
    ASSUME Kept, UNCHANGED stored,
           \A r \in acked' : r \in acked \/ \E i \in DOMAIN stored : stored[i] = r
    PROVE  EvidenceIsUnique' /\ HashesCountRecords' /\ AckedAreStored'
  BY DEF Kept, EvidenceIsUnique, HashesCountRecords, AckedAreStored

LEMMA RootsKept ==
    ASSUME RootsAreOfRecords, UNCHANGED <<stored, roots>>,
           \A u \in Threads :
              pc'[u] \in MerklePcs =>
                 pc'[u] = pc[u] /\ local'[u] = local[u] /\ txn'[u] = txn[u]
    PROVE  RootsAreOfRecords'
<1>1. ASSUME NEW m, Covers(m) PROVE Covers(m)'
  BY <1>1 DEF Covers, IsRootOf
<1>2. \A m \in roots' : Covers(m)'
  BY <1>1 DEF RootsAreOfRecords
<1>3. ASSUME NEW u \in Threads, pc'[u] \in MerklePcs
      PROVE  Covers(local[u].row)' /\ (pc'[u] = "mkCommit" => txn'[u] = Writes("root", local'[u].row))
  <2>1. pc'[u] = pc[u] /\ local'[u] = local[u] /\ txn'[u] = txn[u]
    BY <1>3
  <2>2. Covers(local[u].row)
    BY <1>3, <2>1 DEF RootsAreOfRecords
  <2>3. Covers(local[u].row)'
    BY <1>1, <2>1, <2>2
  <2>4. pc'[u] = "mkCommit" => txn'[u] = Writes("root", local'[u].row)
    BY <2>1 DEF RootsAreOfRecords
  <2>5. QED
    BY <2>3, <2>4
<1>4. QED
  BY <1>2, <1>3 DEF RootsAreOfRecords, MerklePcs

\* What AckedReadable and RootsCover need is inductive beside IInv: a commit adds
\* a record, a return acknowledges one, and three steps move a root.
LEMMA KeptStep == IInv /\ Kept /\ [Next]_vars => Kept'
<1> SUFFICES ASSUME IInv, Kept, [Next]_vars
             PROVE  Kept'
  OBVIOUS
<1>a. TypeOK /\ Control /\ EditsKeepHashes /\ ReturnsCommitted
  BY DEF IInv, Control
<1>b. /\ EvidenceIsUnique /\ HashesCountRecords /\ AckedAreStored /\ RootsAreOfRecords
  BY DEF Kept
<1>c. DOMAIN pc = Threads /\ DOMAIN local = Threads /\ DOMAIN txn = Threads
  BY <1>a DEF TypeOK
<1>1. ASSUME NEW t \in Threads, Commit(t)
      PROVE  Kept'
  <2> DEFINE r == NewRow(t)
             n == Len(stored)
  <2>1. /\ r \in Rows
        /\ stored' = Append(stored, r)
        /\ r.hash = Append(HeadHash(stored), r.content)
        /\ \A i \in DOMAIN stored : stored[i].content.evidence # r.content.evidence
    BY <1>1, <1>a, CommitFrame DEF RecordHash
  <2>2. stored \in Seq(Rows) /\ n \in Nat /\ DOMAIN stored = 1 .. n
    BY <1>a, LenProperties DEF TypeOK
  <2>3. HeadHash(stored) \in Hashes /\ Len(HeadHash(stored)) = n
    BY <1>a, <1>b, <2>2, HeadIsHash, HeadCounts
  <2>4. r.content \in Contents
    BY <2>1 DEF Rows
  <2> HIDE DEF r
  <2>5. Len(r.hash) = n + 1
    BY <2>1, <2>3, <2>4, AppendProperties DEF Hashes
  <2>6. /\ stored'[n + 1] = r
        /\ \A i \in 1 .. n : stored'[i] = stored[i]
        /\ DOMAIN stored' = 1 .. n + 1
    BY <2>1, <2>2, AppendRow, LenProperties
  <2> HIDE DEF n
  <2>7. HashesCountRecords'
    BY <1>b, <2>2, <2>5, <2>6 DEF HashesCountRecords
  <2>8. EvidenceIsUnique'
    <3>1. SUFFICES ASSUME NEW i \in 1 .. n + 1, NEW j \in 1 .. n + 1,
                          stored'[i].content.evidence = stored'[j].content.evidence
                   PROVE  i = j
      BY <2>6 DEF EvidenceIsUnique
    <3>2. i = n + 1 \/ i \in 1 .. n
      BY <2>2
    <3>3. j = n + 1 \/ j \in 1 .. n
      BY <2>2
    <3>4. QED
      BY <1>b, <2>1, <2>2, <2>6, <3>1, <3>2, <3>3 DEF EvidenceIsUnique
  <2>9. AckedAreStored'
    <3>1. acked' = acked
      BY <1>1 DEF Commit
    <3>2. ASSUME NEW q \in acked PROVE \E i \in DOMAIN stored' : stored'[i] = q
      <4>1. PICK i \in DOMAIN stored : stored[i] = q
        BY <1>b, <3>2 DEF AckedAreStored
      <4>2. QED
        BY <2>2, <2>6, <4>1
    <3>3. QED
      BY <3>1, <3>2 DEF AckedAreStored
  <2>10. ASSUME NEW m, Covers(m) PROVE Covers(m)'
    <3>1. DOMAIN stored \subseteq DOMAIN stored' /\ \A i \in DOMAIN stored : stored'[i] = stored[i]
      BY <2>2, <2>6
    <3>2. QED
      BY <2>2, <2>10, <3>1, CoversStays
  <2>11. RootsAreOfRecords'
    <3>1. roots' = roots
      BY <1>1 DEF Commit
    <3>2. \A u \in Threads : pc'[u] \in MerklePcs =>
             pc'[u] = pc[u] /\ local'[u] = local[u] /\ txn'[u] = txn[u]
      BY <1>1, <1>c DEF Commit, MerklePcs
    <3>3. ASSUME NEW u \in Threads, pc'[u] \in MerklePcs PROVE Covers(local[u].row)'
      <4>1. Covers(local[u].row)
        BY <1>b, <3>2, <3>3 DEF RootsAreOfRecords
      <4>2. QED
        BY <2>10, <3>2, <3>3, <4>1
    <3>4. QED
      BY <1>b, <2>10, <3>1, <3>2, <3>3 DEF RootsAreOfRecords, MerklePcs
  <2>12. QED
    BY <2>7, <2>8, <2>9, <2>11 DEF Kept
<1>2. ASSUME NEW t \in Threads, StoreReturn(t)
      PROVE  Kept'
  <2>1. PICK i \in DOMAIN stored : local[t].row = stored[i]
    BY <1>2, <1>a DEF StoreReturn, ReturnsCommitted
  <2>2. EvidenceIsUnique' /\ HashesCountRecords' /\ AckedAreStored'
    BY <1>2, <2>1, RecordsKept DEF StoreReturn
  <2>3. RootsAreOfRecords'
    BY <1>2, <1>b, <1>c, RootsKept DEF StoreReturn, MerklePcs
  <2>4. QED
    BY <2>2, <2>3 DEF Kept
<1>d. ASSUME NEW m, UNCHANGED stored, Covers(m) PROVE Covers(m)'
  BY <1>d DEF Covers, IsRootOf
<1>3. ASSUME NEW t \in Threads, NEW from \in DOMAIN rows, NEW to \in DOMAIN rows,
             NEW ids \in SUBSET (from .. to), {from, to} \subseteq ids,
             MerkleBegin(t, ids, from, to)
      PROVE  Kept'
  <2>1. /\ UNCHANGED <<stored, roots, acked>>
        /\ local'[t].row = RootOf(ids, from, to) /\ pc'[t] = "mkInsert"
        /\ \A u \in Threads \ {t} : pc'[u] = pc[u] /\ local'[u] = local[u] /\ txn'[u] = txn[u]
    BY <1>3, <1>c DEF MerkleBegin, InitDb
  <2>2. Covers(RootOf(ids, from, to))
    BY <1>3, <1>a, NewRootCovers
  <2>3. Covers(local[t].row)'
    BY <1>d, <2>1, <2>2
  <2>4. ASSUME NEW u \in Threads \ {t}, pc'[u] \in MerklePcs PROVE Covers(local[u].row)'
    BY <1>b, <1>d, <2>1, <2>4 DEF RootsAreOfRecords
  <2>5. \A u \in Threads : pc'[u] = "mkCommit" => txn'[u] = Writes("root", local'[u].row)
    BY <1>b, <2>1 DEF RootsAreOfRecords
  <2>6. \A m \in roots' : Covers(m)'
    BY <1>b, <1>d, <2>1 DEF RootsAreOfRecords
  <2>7. RootsAreOfRecords'
    BY <2>3, <2>4, <2>5, <2>6 DEF RootsAreOfRecords
  <2>8. QED
    BY <2>1, <2>7, RecordsKept DEF Kept
<1>4. ASSUME NEW t \in Threads, MerkleInsert(t)
      PROVE  Kept'
  <2>1. /\ UNCHANGED <<stored, roots, acked, local>>
        /\ pc[t] = "mkInsert" /\ txn'[t] = Writes("root", local[t].row)
        /\ \A u \in Threads \ {t} : pc'[u] = pc[u] /\ txn'[u] = txn[u]
    BY <1>4, <1>c DEF MerkleInsert
  <2>2. ASSUME NEW u \in Threads, pc'[u] \in MerklePcs PROVE Covers(local[u].row)'
    <3>1. Covers(local[u].row)
      BY <1>b, <2>1, <2>2 DEF RootsAreOfRecords, MerklePcs
    <3>2. QED
      BY <1>d, <2>1, <3>1
  <2>3. \A u \in Threads : pc'[u] = "mkCommit" => txn'[u] = Writes("root", local'[u].row)
    BY <1>b, <2>1 DEF RootsAreOfRecords
  <2>4. \A m \in roots' : Covers(m)'
    BY <1>b, <1>d, <2>1 DEF RootsAreOfRecords
  <2>5. RootsAreOfRecords'
    BY <2>2, <2>3, <2>4 DEF RootsAreOfRecords
  <2>6. QED
    BY <2>1, <2>5, RecordsKept DEF Kept
<1>5. ASSUME NEW t \in Threads, MerkleCommit(t)
      PROVE  Kept'
  <2>1. /\ UNCHANGED <<stored, acked>>
        /\ pc[t] = "mkCommit" /\ roots' = roots \union {txn[t].row} /\ pc'[t] = "idle"
        /\ \A u \in Threads \ {t} : pc'[u] = pc[u] /\ local'[u] = local[u] /\ txn'[u] = txn[u]
    BY <1>5, <1>c DEF MerkleCommit
  <2>2. Covers(txn[t].row)
    <3>1. Covers(local[t].row) /\ txn[t] = Writes("root", local[t].row)
      BY <1>b, <2>1 DEF RootsAreOfRecords, MerklePcs
    <3>2. txn[t].row = local[t].row
      BY <3>1 DEF Writes
    <3>3. QED
      BY <3>1, <3>2
  <2>3. \A m \in roots' : Covers(m)'
    BY <1>b, <1>d, <2>1, <2>2 DEF RootsAreOfRecords
  <2>4. ASSUME NEW u \in Threads, pc'[u] \in MerklePcs PROVE Covers(local[u].row)'
    BY <1>b, <1>d, <2>1, <2>4 DEF RootsAreOfRecords, MerklePcs
  <2>5. \A u \in Threads : pc'[u] = "mkCommit" => txn'[u] = Writes("root", local'[u].row)
    BY <1>b, <2>1 DEF RootsAreOfRecords
  <2>6. RootsAreOfRecords'
    BY <2>3, <2>4, <2>5 DEF RootsAreOfRecords
  <2>7. QED
    BY <2>1, <2>6, RecordsKept DEF Kept
<1>6. ASSUME UNCHANGED <<stored, roots, acked>>,
             \A u \in Threads : pc'[u] \in MerklePcs =>
                pc'[u] = pc[u] /\ local'[u] = local[u] /\ txn'[u] = txn[u]
      PROVE  Kept'
  <2>1. RootsAreOfRecords'
    BY <1>6, <1>b, RootsKept
  <2>2. QED
    BY <1>6, <2>1, RecordsKept DEF Kept
<1>7. ASSUME NEW t \in Threads, Step(t), ~Commit(t), ~StoreReturn(t),
             ~MerkleInsert(t), ~MerkleCommit(t)
      PROVE  Kept'
  <2>1. /\ UNCHANGED <<stored, roots, acked>> /\ pc'[t] \notin MerklePcs
        /\ \A u \in Threads \ {t} : pc'[u] = pc[u] /\ local'[u] = local[u] /\ txn'[u] = txn[u]
    BY <1>7, <1>c
    DEF Step, AcquireChainLock, ReadHead, Insert, InsertFails, CommitFails, CheckPasses,
        CheckRaises, Query, MerkleInsertFails, Raise, Busy, StatementFails, MerklePcs
  <2>2. QED
    BY <1>6, <2>1
<1>8. ASSUME NEW t \in Threads, Begin(t)
      PROVE  Kept'
  <2>1. ASSUME NEW c \in todo, NEW evidence \in EvidenceIds, NEW verdict \in Verdicts,
               StoreBegin(t, c, evidence, verdict)
        PROVE  Kept'
    BY <1>6, <1>c, <2>1 DEF StoreBegin, InitDb, MerklePcs
  <2>2. ASSUME ReadBegin(t) PROVE Kept'
    BY <1>6, <1>c, <2>2 DEF ReadBegin, InitDb, MerklePcs
  <2>3. QED
    BY <1>3, <1>8, <2>1, <2>2 DEF Begin
<1>9. ASSUME NEW i \in DOMAIN rows, NEW verdict \in Verdicts, EditRow(i, verdict)
      PROVE  Kept'
  BY <1>6, <1>9 DEF EditRow
<1>10. CASE Restart
  BY <1>6, <1>10 DEF Restart, MerklePcs
<1>11. CASE UNCHANGED vars
  BY <1>6, <1>11 DEF vars
<1>12. QED
  BY <1>1, <1>2, <1>4, <1>5, <1>7, <1>8, <1>9, <1>10, <1>11 DEF Next

\* No two records share an evidence id or a hash, what a caller was given is a
\* record, and every root is one over records.
THEOREM KeptThroughout == Spec => []Kept
<1>1. Init => Kept
  BY EmptySeq
  DEF Init, Kept, EvidenceIsUnique, HashesCountRecords, AckedAreStored, RootsAreOfRecords,
      MerklePcs
<1>2. QED
  BY <1>1, KeptStep, Invariance, PTL DEF Spec

\* A set of numbers has a least member.
LEMMA Least ==
    ASSUME NEW S \in SUBSET Nat, S # {}
    PROVE  \E j \in S : \A k \in S : j <= k
<1>1. \A x, y \in Nat : y < x => <<y, x>> \in OpToRel(<, Nat)
  BY Zenon DEF OpToRel
<1>2. PICK j \in S : \A k \in S : ~ (<<k, j>> \in OpToRel(<, Nat))
  BY NatLessThanWellFounded, WFMin
<1>3. \A k \in S : ~ (k < j)
  BY <1>1, <1>2
<1>4. j \in S
  BY <1>2
<1>5. ASSUME NEW k \in S PROVE j <= k
  <2>1. k \in Nat /\ j \in Nat /\ ~ (k < j)
    BY <1>3, <1>4
  <2>2. QED
    BY <2>1
<1>6. QED
  BY <1>4, <1>5

\* What store_verification returned is read as it was returned, or not at all: while
\* the report lets reads go on, every record acknowledged is the one its evidence id
\* finds, unaltered, and its request id finds it or an older one of the same request;
\* for any threads, calls, failures, restarts and alterations.
THEOREM AckedStaysReadable == Spec => []AckedReadable
<1>1. ASSUME IInv, Kept, BreaksAreEdits
      PROVE  AckedReadable
  <2>1. /\ DOMAIN rows = 1 .. Len(stored) /\ DOMAIN stored = 1 .. Len(stored)
        /\ Len(stored) \in Nat
    BY <1>1, LenProperties DEF IInv, TypeOK, EditsKeepHashes
  <2>a. SUFFICES ASSUME Status(rows) # "compromised", NEW r \in acked
                 PROVE  \E i \in DOMAIN rows :
                           /\ rows[i] = r
                           /\ ByEvidence(r.content.evidence) = {i}
                           /\ \E j \in 1 .. i : ByRequest(r.request) = {j}
    BY DEF AckedReadable
  <2>2. PICK i \in DOMAIN stored : stored[i] = r
    BY <1>1 DEF Kept, AckedAreStored
  <2>b. rows[i] = r
    <3>1. rows # <<>>
      BY <2>1, <2>2
    <3>2. rows[i].content = stored[i].content
      BY <1>1, <2>a, <2>1, <2>2, <3>1 DEF Status, BreaksAreEdits
    <3>3. rows[i] \in Rows /\ stored[i] \in Rows
      BY <1>1, <2>1, <2>2, ElementOfSeq DEF IInv, TypeOK
    <3>4. QED
      BY <1>1, <2>2, <3>2, <3>3 DEF IInv, EditsKeepHashes, Rows
  <2>3. ByEvidence(r.content.evidence) = {i}
    <3>1. \A j \in DOMAIN rows : rows[j].content.evidence = r.content.evidence <=> j = i
      BY <1>1, <2>1, <2>2 DEF IInv, EditsKeepHashes, Kept, EvidenceIsUnique
    <3>2. QED
      BY <2>1, <2>2, <3>1 DEF ByEvidence
  <2>4. PICK j \in {k \in 1 .. i : rows[k].request = r.request} :
           \A k \in {l \in 1 .. i : rows[l].request = r.request} : j <= k
    <3>1. i \in {k \in 1 .. i : rows[k].request = r.request}
      BY <1>1, <2>1, <2>2 DEF IInv, EditsKeepHashes
    <3>2. {k \in 1 .. i : rows[k].request = r.request} \in SUBSET Nat
      BY <2>1
    <3>3. QED
      BY <3>1, <3>2, Least
  <2>5. ByRequest(r.request) = {j}
    <3>1. j \in ByRequest(r.request)
      <4>1. ASSUME NEW k \in 1 .. j - 1 PROVE rows[k].request # r.request
        BY <2>1, <2>4
      <4>2. j \in DOMAIN rows /\ rows[j].request = r.request
        BY <2>1, <2>4
      <4>3. QED
        BY <4>1, <4>2 DEF ByRequest
    <3>2. ASSUME NEW k \in ByRequest(r.request) PROVE k = j
      <4>1. /\ k \in 1 .. Len(stored) /\ rows[k].request = r.request
            /\ \A l \in 1 .. k - 1 : rows[l].request # r.request
        BY <2>1 DEF ByRequest
      <4>2. ~(j < k)
        BY <2>1, <2>4, <4>1
      <4>3. ~(k < j)
        BY <2>1, <2>4, <4>1
      <4>4. QED
        BY <2>1, <2>4, <4>1, <4>2, <4>3
    <3>3. QED
      BY <3>1, <3>2
  <2>6. QED
    BY <2>1, <2>b, <2>3, <2>4, <2>5
<1>2. QED
  BY <1>1, Invariance, KeptThroughout, BreaksExact, PTL

\* A root has as many leaves as records it was computed from.
LEMMA LeavesAreRecords ==
    ASSUME HashesCountRecords, NEW ids \in SUBSET DOMAIN stored, IsFiniteSet(ids)
    PROVE  Cardinality({stored[i].hash : i \in ids}) = Cardinality(ids)
<1> DEFINE leaves == {stored[i].hash : i \in ids}
           f == [i \in ids |-> stored[i].hash]
<1>1. \A i, j \in ids : stored[i].hash = stored[j].hash => i = j
  BY DEF HashesCountRecords
<1>2. f \in Bijection(ids, leaves)
  <2>1. f \in [ids -> leaves] /\ \A i \in ids : f[i] = stored[i].hash
    OBVIOUS
  <2>2. \A h \in leaves : \E i \in ids : f[i] = h
    BY <2>1
  <2>3. \A i, j \in ids : f[i] = f[j] => i = j
    BY <1>1, <2>1
  <2>4. QED
    BY <2>1, <2>2, <2>3 DEF Bijection, Injection, Surjection, IsInjective
<1>3. ExistsBijection(ids, leaves)
  BY <1>2 DEF ExistsBijection
<1> HIDE DEF leaves, f
<1>4. Cardinality(leaves) = Cardinality(ids)
  BY <1>3, FS_Bijection
<1>5. QED
  BY <1>4 DEF leaves

\* A Merkle root covers as many committed records as it counts, and all of its
\* range if it counts that many, though stores and edits go on around it.
THEOREM RootsAlwaysCover == Spec => []RootsCover
<1>1. ASSUME TypeOK, Kept
      PROVE  RootsCover
  <2>1. DOMAIN stored = 1 .. Len(stored) /\ Len(stored) \in Nat
    BY <1>1, LenProperties DEF TypeOK
  <2>2. SUFFICES ASSUME NEW m \in roots
                 PROVE  LET range == {stored[i].hash : i \in m.from .. m.to} IN
                        /\ m.leaves \subseteq range
                        /\ m.count = Cardinality(m.leaves)
                        /\ m.count = m.to - m.from + 1 => m.leaves = range
    BY DEF RootsCover
  <2>3. Covers(m)
    BY <1>1 DEF Kept, RootsAreOfRecords
  <2>4. PICK ids \in SUBSET (m.from .. m.to) : IsRootOf(m, ids)
    BY <2>3 DEF Covers
  <2>5. m.leaves = {stored[i].hash : i \in ids} /\ m.count = Cardinality(ids)
    BY <2>4 DEF IsRootOf
  <2>6. m.from \in Nat /\ m.to \in Nat /\ m.from <= m.to
    BY <2>1, <2>3, <2>4 DEF IsRootOf, Covers
  <2>7. /\ IsFiniteSet(m.from .. m.to) /\ IsFiniteSet(ids)
        /\ Cardinality(m.from .. m.to) = m.to - m.from + 1
    <3>1. m.from \in Int /\ m.to \in Int /\ ~(m.from > m.to)
      BY <2>6
    <3>2. /\ IsFiniteSet(m.from .. m.to)
          /\ Cardinality(m.from .. m.to) = m.to - m.from + 1
      BY <3>1, FS_Interval
    <3>3. IsFiniteSet(ids)
      BY <3>2, FS_Subset
    <3>4. QED
      BY <3>2, <3>3
  <2>8. ids \subseteq DOMAIN stored
    BY <2>1, <2>3, <2>4, <2>6 DEF Covers
  <2>9. m.count = Cardinality(m.leaves)
    BY <1>1, <2>5, <2>7, <2>8, LeavesAreRecords DEF Kept
  <2>10. ASSUME m.count = m.to - m.from + 1 PROVE ids = m.from .. m.to
    BY <2>5, <2>7, <2>10, FS_Subset
  <2>11. QED
    BY <2>4, <2>5, <2>9, <2>10
<1>2. QED
  BY <1>1, TypeCorrect, KeptThroughout, PTL

-------------------------------------------------------------------------------
(***************************************************************************)
(* The tree under a Merkle root.                                           *)
(***************************************************************************)
\* Induction up to n, over a set of numbers.
LEMMA Induction ==
    ASSUME NEW n \in Nat, NEW G, 0 \in G, \A k \in 1 .. n : k - 1 \in G => k \in G
    PROVE  \A k \in 0 .. n : k \in G
<1> DEFINE T == (0 .. n) \ G
<1>1. SUFFICES ASSUME T # {} PROVE FALSE
  OBVIOUS
<1>2. T \in SUBSET Nat
  OBVIOUS
<1>3. PICK k \in T : \A j \in T : k <= j
  <2> HIDE DEF T
  <2>1. QED
    BY <1>1, <1>2, Least
<1>4. k \in 1 .. n /\ k - 1 \in 0 .. n /\ ~(k <= k - 1)
  BY <1>2
<1>5. k - 1 \in G
  BY <1>3, <1>4
<1>6. QED
  BY <1>4, <1>5

\* A level of the tree, with nothing said of what it holds.
Level(h) == h # <<>> /\ \E S : h \in Seq(S)

Distinct(h) == \A i, j \in 1 .. Len(h) : h[i] = h[j] => i = j

LEMMA LevelLength ==
    ASSUME NEW h, Level(h)
    PROVE  Len(h) \in Nat /\ Len(h) > 0 /\ h = [i \in 1 .. Len(h) |-> h[i]]
<1>1. PICK S : h \in Seq(S)
  BY DEF Level
<1>2. Len(h) \in Nat /\ DOMAIN h = 1 .. Len(h)
  BY <1>1, LenProperties
<1>3. Len(h) # 0
  BY <1>1, EmptySeq DEF Level
<1>4. h = [i \in 1 .. Len(h) |-> h[i]]
  BY <1>1, <1>2
<1>5. QED
  BY <1>2, <1>3, <1>4

\* Half of n, rounded up.
LEMMA HalfUp ==
    ASSUME NEW n \in Nat, n > 0
    PROVE  LET m == (n + 1) \div 2 IN
           /\ m \in Nat /\ m > 0
           /\ n = 2 * m \/ n = 2 * m - 1
           /\ n # 1 => m < n
  OBVIOUS

\* The next level, half as long.
LEMMA NextIsLevel ==
    ASSUME NEW h, Level(h)
    PROVE  LET m == (Len(h) + 1) \div 2 IN
           /\ Level(NextLevel(h))
           /\ Len(NextLevel(h)) = m
           /\ \A i \in 1 .. m :
                 NextLevel(h)[i] =
                    Pair(h[2 * i - 1], h[IF 2 * i <= Len(h) THEN 2 * i ELSE 2 * i - 1])
<1> DEFINE m == (Len(h) + 1) \div 2
           e(i) == Pair(h[2 * i - 1], h[IF 2 * i <= Len(h) THEN 2 * i ELSE 2 * i - 1])
           S == {e(i) : i \in 1 .. m}
           g == [i \in 1 .. m |-> e(i)]
<1>1. m \in Nat /\ m > 0
  BY LevelLength, HalfUp
<1>2. NextLevel(h) = g
  BY DEF NextLevel
<1>3. \A i \in 1 .. m : g[i] = e(i)
  OBVIOUS
<1> HIDE DEF m, e
<1>4. g \in [1 .. m -> S]
  OBVIOUS
<1> HIDE DEF g, S
<1>5. g \in Seq(S) /\ Len(g) = m
  BY <1>1, <1>4
<1>6. g # <<>>
  BY <1>1, <1>5, EmptySeq
<1>7. Level(g)
  BY <1>5, <1>6 DEF Level
<1>8. QED
  BY <1>2, <1>3, <1>5, <1>7 DEF m, e

\* Levels of distinct digests stay distinct, pairs being told by their left ones.
LEMMA NextIsDistinct ==
    ASSUME NEW h, Level(h), Distinct(h)
    PROVE  Distinct(NextLevel(h))
<1> DEFINE m == (Len(h) + 1) \div 2
<1>1. /\ m \in Nat /\ Len(h) \in Nat
      /\ Len(h) = 2 * m \/ Len(h) = 2 * m - 1
  BY LevelLength, HalfUp
<1>2. /\ Len(NextLevel(h)) = m
      /\ \A i \in 1 .. m :
            NextLevel(h)[i] =
               Pair(h[2 * i - 1], h[IF 2 * i <= Len(h) THEN 2 * i ELSE 2 * i - 1])
  BY NextIsLevel
<1> HIDE DEF m
<1>3. ASSUME NEW i \in 1 .. m, NEW j \in 1 .. m, NextLevel(h)[i] = NextLevel(h)[j]
      PROVE  i = j
  <2>1. h[2 * i - 1] = h[2 * j - 1]
    BY <1>2, <1>3 DEF Pair
  <2>2. 2 * i - 1 \in 1 .. Len(h) /\ 2 * j - 1 \in 1 .. Len(h)
    BY <1>1
  <2>3. 2 * i - 1 = 2 * j - 1
    BY <2>1, <2>2 DEF Distinct
  <2>4. QED
    BY <1>1, <2>3
<1>4. QED
  BY <1>2, <1>3 DEF Distinct

\* A level tells the one below: of a given length, or of distinct digests.
LEMMA NextIsInjective ==
    ASSUME NEW h, NEW g, Level(h), Level(g), NextLevel(h) = NextLevel(g),
           Len(h) = Len(g) \/ (Distinct(h) /\ Distinct(g))
    PROVE  h = g
<1> DEFINE m == (Len(h) + 1) \div 2
           k == (Len(g) + 1) \div 2
<1>1. /\ m \in Nat /\ m > 0 /\ Len(h) \in Nat
      /\ Len(h) = 2 * m \/ Len(h) = 2 * m - 1
  BY LevelLength, HalfUp
<1>2. /\ k \in Nat /\ k > 0 /\ Len(g) \in Nat
      /\ Len(g) = 2 * k \/ Len(g) = 2 * k - 1
  BY LevelLength, HalfUp
<1>3. /\ Len(NextLevel(h)) = m
      /\ \A i \in 1 .. m :
            NextLevel(h)[i] =
               Pair(h[2 * i - 1], h[IF 2 * i <= Len(h) THEN 2 * i ELSE 2 * i - 1])
  BY NextIsLevel
<1>4. /\ Len(NextLevel(g)) = k
      /\ \A i \in 1 .. k :
            NextLevel(g)[i] =
               Pair(g[2 * i - 1], g[IF 2 * i <= Len(g) THEN 2 * i ELSE 2 * i - 1])
  BY NextIsLevel
<1>5. m = k
  BY <1>3, <1>4
<1> HIDE DEF m, k
<1>6. \A i \in 1 .. m :
         /\ h[2 * i - 1] = g[2 * i - 1]
         /\ h[IF 2 * i <= Len(h) THEN 2 * i ELSE 2 * i - 1]
              = g[IF 2 * i <= Len(g) THEN 2 * i ELSE 2 * i - 1]
  BY <1>3, <1>4, <1>5 DEF Pair
<1>7. Len(h) = Len(g)
  <2>1. ASSUME Distinct(h), Len(h) = 2 * m, Len(g) = 2 * m - 1 PROVE FALSE
    <3>1. h[2 * m] = g[2 * m - 1] /\ h[2 * m - 1] = g[2 * m - 1]
      BY <1>1, <1>6, <2>1
    <3>2. 2 * m \in 1 .. Len(h) /\ 2 * m - 1 \in 1 .. Len(h) /\ 2 * m # 2 * m - 1
      BY <1>1, <2>1
    <3>3. QED
      BY <2>1, <3>1, <3>2 DEF Distinct
  <2>2. ASSUME Distinct(g), Len(g) = 2 * m, Len(h) = 2 * m - 1 PROVE FALSE
    <3>1. g[2 * m] = h[2 * m - 1] /\ h[2 * m - 1] = g[2 * m - 1]
      BY <1>1, <1>6, <2>2
    <3>2. 2 * m \in 1 .. Len(g) /\ 2 * m - 1 \in 1 .. Len(g) /\ 2 * m # 2 * m - 1
      BY <1>1, <2>2
    <3>3. QED
      BY <2>2, <3>1, <3>2 DEF Distinct
  <2>3. QED
    BY <1>1, <1>2, <1>5, <2>1, <2>2
<1>8. ASSUME NEW j \in 1 .. Len(h) PROVE h[j] = g[j]
  <2>1. PICK i \in 1 .. m : j = 2 * i \/ j = 2 * i - 1
    <3>1. (j + 1) \div 2 \in 1 .. m
      BY <1>1
    <3>2. j = 2 * ((j + 1) \div 2) \/ j = 2 * ((j + 1) \div 2) - 1
      BY <1>1
    <3>3. QED
      BY <3>1, <3>2
  <2>2. CASE j = 2 * i
    BY <1>1, <1>6, <1>7, <2>2
  <2>3. CASE j = 2 * i - 1
    BY <1>6, <2>3
  <2>4. QED
    BY <2>1, <2>2, <2>3
<1>9. QED
  BY <1>7, <1>8, LevelLength

\* Levels is a function from its recursion: the leaves first, and over a level
\* that is not a root alone its next one.
Above(h) == IF Len(h) = 1 THEN h ELSE NextLevel(h)

Climbs(s, n, lv) ==
    /\ lv = [k \in 0 .. n |-> lv[k]]
    /\ lv[0] = s
    /\ \A k \in 1 .. n : lv[k] = Above(lv[k - 1])

LEMMA ClimbExists ==
    ASSUME NEW s, NEW n \in Nat
    PROVE  \E lv : Climbs(s, n, lv)
<1> DEFINE G == {m \in 0 .. n : \E lv : Climbs(s, m, lv)}
<1>1. 0 \in G
  <2>1. Climbs(s, 0, [k \in 0 .. 0 |-> s])
    BY DEF Climbs
  <2>2. QED
    BY <2>1
<1>2. ASSUME NEW m \in 1 .. n, m - 1 \in G PROVE m \in G
  <2>1. PICK lv : Climbs(s, m - 1, lv)
    BY <1>2
  <2> DEFINE top == Above(lv[m - 1])
             up == [k \in 0 .. m |-> IF k = m THEN top ELSE lv[k]]
  <2> HIDE DEF top
  <2>2. up = [k \in 0 .. m |-> up[k]] /\ up[0] = s
    BY <2>1 DEF Climbs
  <2>3. ASSUME NEW k \in 1 .. m PROVE up[k] = Above(up[k - 1])
    <3>1. k - 1 \in 0 .. m /\ k - 1 # m /\ up[k - 1] = lv[k - 1]
      OBVIOUS
    <3>2. CASE k = m
      BY <3>1, <3>2 DEF top
    <3>3. CASE k # m
      <4>1. k \in 1 .. m - 1 /\ up[k] = lv[k]
        BY <3>3
      <4>2. QED
        BY <2>1, <3>1, <4>1 DEF Climbs
    <3>4. QED
      BY <3>2, <3>3
  <2> HIDE DEF up
  <2>4. Climbs(s, m, up)
    BY <2>2, <2>3 DEF Climbs
  <2>5. QED
    BY <2>4
<1>3. \A m \in 0 .. n : m \in G
  <2> HIDE DEF G
  <2>1. QED
    BY <1>1, <1>2, Induction, Zenon
<1>4. QED
  BY <1>3

LEMMA LevelsClimb ==
    ASSUME NEW s, Level(s)
    PROVE  Climbs(s, Len(s), Levels(s))
<1> DEFINE Solves(p) ==
               p = [n \in 0 .. Len(s) |->
                      IF n = 0 THEN s
                      ELSE IF Len(p[n - 1]) = 1 THEN p[n - 1]
                      ELSE NextLevel(p[n - 1])]
           r == CHOOSE p : Solves(p)
<1>1. Len(s) \in Nat
  BY LevelLength
<1>2. PICK lv : Climbs(s, Len(s), lv)
  BY <1>1, ClimbExists
<1>3. Solves(lv)
  <2>1. ASSUME NEW k \in 0 .. Len(s)
        PROVE  lv[k] = IF k = 0 THEN s
                       ELSE IF Len(lv[k - 1]) = 1 THEN lv[k - 1] ELSE NextLevel(lv[k - 1])
    <3>1. CASE k = 0
      BY <1>2, <3>1 DEF Climbs
    <3>2. CASE k # 0
      <4>1. k \in 1 .. Len(s)
        BY <1>1, <3>2
      <4>2. lv[k] = Above(lv[k - 1])
        BY <1>2, <4>1 DEF Climbs
      <4>3. QED
        BY <3>2, <4>2 DEF Above
    <3>3. QED
      BY <3>1, <3>2
  <2>2. lv = [k \in 0 .. Len(s) |-> lv[k]]
    BY <1>2 DEF Climbs
  <2>3. QED
    BY <2>1, <2>2
<1>4. Solves(r)
  BY <1>3
<1>5. Levels(s) = r
  BY DEF Levels
<1> HIDE DEF r
<1>6. Climbs(s, Len(s), r)
  BY <1>1, <1>4 DEF Climbs, Above
<1>7. QED
  BY <1>5, <1>6

\* Climbing from a level, every level is one, the last is one digest, and levels
\* of distinct digests are distinct.
LEMMA ClimbLevels ==
    ASSUME NEW s, Level(s), NEW lv, Climbs(s, Len(s), lv)
    PROVE  /\ \A k \in 0 .. Len(s) : Level(lv[k]) /\ (Distinct(s) => Distinct(lv[k]))
           /\ Len(lv[Len(s)]) = 1
<1> DEFINE n == Len(s)
           G == {k \in 0 .. n : /\ Level(lv[k]) /\ (Distinct(s) => Distinct(lv[k]))
                                /\ Len(lv[k]) = 1 \/ Len(lv[k]) <= n - k}
<1>1. n \in Nat /\ n > 0
  BY LevelLength
<1>2. 0 \in G
  BY <1>1 DEF Climbs
<1>3. ASSUME NEW k \in 1 .. n, k - 1 \in G PROVE k \in G
  <2> DEFINE h == lv[k - 1]
  <2>1. lv[k] = Above(h)
    BY DEF Climbs
  <2>2. /\ Level(h) /\ (Distinct(s) => Distinct(h))
        /\ Len(h) = 1 \/ Len(h) <= n - (k - 1)
    BY <1>3
  <2>3. Len(h) \in Nat /\ Len(h) > 0
    BY <2>2, LevelLength
  <2> HIDE DEF h, n
  <2>4. CASE Len(h) = 1
    BY <2>1, <2>2, <2>4 DEF Above
  <2>5. CASE Len(h) # 1
    <3>1. lv[k] = NextLevel(h)
      BY <2>1, <2>5 DEF Above
    <3>2. Level(lv[k]) /\ Len(lv[k]) = (Len(h) + 1) \div 2
      BY <2>2, <3>1, NextIsLevel
    <3>3. (Len(h) + 1) \div 2 < Len(h) /\ (Len(h) + 1) \div 2 \in Nat
      BY <2>3, <2>5, HalfUp
    <3>4. Len(lv[k]) <= n - k
      BY <1>1, <2>2, <2>3, <2>5, <3>2, <3>3
    <3>5. Distinct(s) => Distinct(lv[k])
      BY <2>2, <3>1, NextIsDistinct
    <3>6. QED
      BY <3>2, <3>4, <3>5
  <2>6. QED
    BY <2>4, <2>5
<1>4. \A k \in 0 .. n : k \in G
  <2> HIDE DEF G, n
  <2>1. QED
    BY <1>1, <1>2, <1>3, Induction, Zenon
<1>5. Level(lv[n]) /\ (Len(lv[n]) = 1 \/ Len(lv[n]) <= n - n)
  BY <1>1, <1>4
<1>6. Len(lv[n]) = 1
  <2>1. Len(lv[n]) \in Nat /\ Len(lv[n]) > 0
    BY <1>5, LevelLength
  <2>2. QED
    BY <1>1, <1>5, <2>1
<1>7. QED
  BY <1>4, <1>6

\* A root and the number of records under it, which merkle_roots keeps beside it,
\* tell the digests and their order, repeated or not.
THEOREM RootAndCountTell ==
    ASSUME NEW Digests, NEW s \in Seq(Digests), NEW t \in Seq(Digests),
           s # <<>>, Len(s) = Len(t)
    PROVE  Root(s) = Root(t) <=> s = t
<1> DEFINE n == Len(s)
           u == Levels(s)
           v == Levels(t)
<1>1. Level(s) /\ Level(t) /\ n \in Nat
  <2>1. t # <<>>
    BY EmptySeq
  <2>2. QED
    BY <2>1 DEF Level
<1>2. Climbs(s, n, u) /\ Climbs(t, n, v)
  <2>1. Climbs(s, Len(s), u) /\ Climbs(t, Len(t), v)
    BY <1>1, LevelsClimb
  <2>2. QED
    BY <2>1
<1>3. /\ \A k \in 0 .. n : Level(u[k]) /\ Level(v[k])
      /\ Len(u[n]) = 1 /\ Len(v[n]) = 1
  <2>1. /\ \A k \in 0 .. n : Level(u[k])
        /\ Len(u[n]) = 1
    BY <1>1, <1>2, ClimbLevels
  <2>2. Climbs(t, Len(t), v)
    BY <1>2
  <2> HIDE DEF u, v
  <2>3. /\ \A k \in 0 .. Len(t) : Level(v[k])
        /\ Len(v[Len(t)]) = 1
    BY <1>1, <2>2, ClimbLevels
  <2>4. QED
    BY <2>1, <2>3
<1>4. Root(s) = u[n][1] /\ Root(t) = v[n][1]
  BY DEF Root
<1> HIDE DEF u, v, n
<1>5. \A k \in 0 .. n : Len(u[k]) = Len(v[k])
  <2> DEFINE G == {k \in 0 .. n : Len(u[k]) = Len(v[k])}
  <2>1. 0 \in G
    BY <1>1, <1>2 DEF Climbs, n
  <2>2. ASSUME NEW k \in 1 .. n, k - 1 \in G PROVE k \in G
    <3>1. u[k] = Above(u[k - 1]) /\ v[k] = Above(v[k - 1])
      BY <1>2 DEF Climbs
    <3>2. Len(u[k - 1]) = Len(v[k - 1]) /\ Level(u[k - 1]) /\ Level(v[k - 1])
      BY <1>1, <1>3, <2>2
    <3>3. CASE Len(u[k - 1]) = 1
      <4>1. u[k] = u[k - 1] /\ v[k] = v[k - 1]
        BY <3>1, <3>2, <3>3 DEF Above
      <4>2. Len(u[k]) = Len(v[k])
        BY <3>2, <4>1
      <4>3. QED
        BY <4>2
    <3>4. CASE Len(u[k - 1]) # 1
      <4>1. u[k] = NextLevel(u[k - 1]) /\ v[k] = NextLevel(v[k - 1])
        BY <3>1, <3>2, <3>4 DEF Above
      <4>2. Len(u[k]) = Len(v[k])
        BY <3>2, <4>1, NextIsLevel
      <4>3. QED
        BY <4>2
    <3>5. QED
      BY <3>3, <3>4
  <2> HIDE DEF G
  <2>3. \A k \in 0 .. n : k \in G
    BY <1>1, <2>1, <2>2, Induction, Zenon
  <2>4. QED
    BY <2>3 DEF G
<1>6. ASSUME u[n][1] = v[n][1] PROVE s = t
  <2> DEFINE G == {d \in 0 .. n : u[n - d] = v[n - d]}
  <2>1. 0 \in G
    <3>1. /\ u[n] = [i \in 1 .. Len(u[n]) |-> u[n][i]]
          /\ v[n] = [i \in 1 .. Len(v[n]) |-> v[n][i]]
      BY <1>1, <1>3, LevelLength
    <3>2. \A i \in 1 .. 1 : u[n][i] = v[n][i]
      BY <1>6
    <3>3. u[n] = v[n]
      BY <1>3, <3>1, <3>2
    <3>4. QED
      BY <1>1, <3>3
  <2>2. ASSUME NEW d \in 1 .. n, d - 1 \in G PROVE d \in G
    <3> DEFINE k == n - d
    <3>1. k \in 0 .. n /\ k + 1 \in 1 .. n /\ n - (d - 1) = k + 1 /\ (k + 1) - 1 = k
      BY <1>1
    <3>2. u[k + 1] = v[k + 1]
      BY <2>2, <3>1
    <3> HIDE DEF k
    <3>3. u[k + 1] = Above(u[k]) /\ v[k + 1] = Above(v[k])
      BY <1>2, <3>1 DEF Climbs
    <3>4. Len(u[k]) = Len(v[k]) /\ Level(u[k]) /\ Level(v[k])
      BY <1>3, <1>5, <3>1
    <3>5. u[k] = v[k]
      <4>1. CASE Len(u[k]) = 1
        BY <3>2, <3>3, <3>4, <4>1 DEF Above
      <4>2. CASE Len(u[k]) # 1
        <5>1. NextLevel(u[k]) = NextLevel(v[k])
          BY <3>2, <3>3, <3>4, <4>2 DEF Above
        <5>2. QED
          BY <3>4, <5>1, NextIsInjective
      <4>3. QED
        BY <4>1, <4>2
    <3>6. QED
      BY <3>5 DEF k
  <2> HIDE DEF G
  <2>3. \A d \in 0 .. n : d \in G
    BY <1>1, <2>1, <2>2, Induction, Zenon
  <2>4. u[0] = v[0]
    <3>1. n \in G
      BY <1>1, <2>3
    <3>2. n - n = 0
      BY <1>1
    <3>3. QED
      BY <3>1, <3>2 DEF G
  <2>5. QED
    BY <1>2, <2>4 DEF Climbs
<1>7. QED
  BY <1>4, <1>6

\* The levels of s up to the first that is one digest.
Tower(s, a, lv) ==
    /\ lv[0] = s
    /\ \A k \in 1 .. a : lv[k] = NextLevel(lv[k - 1])
    /\ \A k \in 0 .. a : Level(lv[k]) /\ Distinct(lv[k])
    /\ Len(lv[a]) = 1
    /\ lv[a][1] = Root(s)

LEMMA HasTower ==
    ASSUME NEW s, Level(s), Distinct(s)
    PROVE  \E a \in Nat : Tower(s, a, Levels(s))
<1> DEFINE n == Len(s)
           lv == Levels(s)
           H == {k \in 0 .. n : Len(lv[k]) = 1}
<1>1. n \in Nat
  BY LevelLength
<1>2. /\ \A k \in 0 .. n : Level(lv[k]) /\ Distinct(lv[k])
      /\ Len(lv[n]) = 1
  BY LevelsClimb, ClimbLevels
<1>3. lv[0] = s /\ \A k \in 1 .. n : lv[k] = Above(lv[k - 1])
  BY LevelsClimb DEF Climbs
<1>4. Root(s) = lv[n][1]
  BY DEF Root
<1> HIDE DEF lv, n
<1>5. PICK a \in H : \A k \in H : a <= k
  <2>1. n \in H /\ H \in SUBSET Nat
    BY <1>1, <1>2
  <2> HIDE DEF H
  <2>2. QED
    BY <2>1, Least
<1>6. a \in 0 .. n /\ Len(lv[a]) = 1
  BY <1>5
<1>7. ASSUME NEW k \in 1 .. a PROVE lv[k] = NextLevel(lv[k - 1])
  <2>1. k - 1 \in 0 .. n /\ k \in 1 .. n /\ ~(a <= k - 1)
    BY <1>1, <1>6
  <2>2. Len(lv[k - 1]) # 1
    BY <1>5, <2>1
  <2>3. QED
    BY <1>3, <2>1, <2>2 DEF Above
<1>8. lv[n] = lv[a]
  <2> DEFINE G == {d \in 0 .. n - a : lv[a + d] = lv[a]}
  <2>1. 0 \in G /\ n - a \in Nat
    BY <1>1, <1>6
  <2>2. ASSUME NEW d \in 1 .. n - a, d - 1 \in G PROVE d \in G
    <3>1. a + d \in 1 .. n /\ (a + d) - 1 = a + (d - 1)
      BY <1>1, <1>6
    <3>2. lv[a + d] = Above(lv[a])
      <4>1. lv[a + d] = Above(lv[(a + d) - 1])
        BY <1>3, <3>1
      <4>2. lv[a + (d - 1)] = lv[a]
        BY <2>2
      <4>3. QED
        BY <3>1, <4>1, <4>2
    <3>3. lv[a + d] = lv[a]
      BY <1>6, <3>2 DEF Above
    <3>4. QED
      BY <3>3
  <2> HIDE DEF G
  <2>3. \A d \in 0 .. n - a : d \in G
    BY <2>1, <2>2, Induction, Zenon
  <2>4. n - a \in G
    BY <2>1, <2>3
  <2>5. a + (n - a) = n
    BY <1>1, <1>6
  <2>6. QED
    BY <2>4, <2>5 DEF G
<1>9. Tower(s, a, lv)
  BY <1>1, <1>2, <1>3, <1>4, <1>6, <1>7, <1>8 DEF Tower
<1>10. a \in Nat
  BY <1>1, <1>6
<1>11. QED
  BY <1>9, <1>10 DEF lv

\* From one root, the lower of two towers leads down to a level of the higher;
\* it would hold pairs if it were not the leaves.
LEMMA TowersAgree ==
    ASSUME NEW Digests, \A x \in Digests : \A l, r : x # Pair(l, r),
           NEW s \in Seq(Digests), s # <<>>, NEW a \in Nat, NEW u, Tower(s, a, u),
           NEW t, NEW b \in Nat, NEW v, Tower(t, b, v),
           a <= b, Root(s) = Root(t)
    PROVE  s = t
<1> DEFINE G == {d \in 0 .. a : u[a - d] = v[b - d]}
<1>1. 0 \in G
  <2>1. /\ u[a] = [i \in 1 .. Len(u[a]) |-> u[a][i]]
        /\ v[b] = [i \in 1 .. Len(v[b]) |-> v[b][i]]
    BY LevelLength DEF Tower
  <2>2. Len(u[a]) = 1 /\ Len(v[b]) = 1 /\ u[a][1] = v[b][1]
    BY DEF Tower
  <2>3. \A i \in 1 .. 1 : u[a][i] = v[b][i]
    BY <2>2
  <2>4. u[a] = v[b]
    BY <2>1, <2>2, <2>3
  <2>5. QED
    BY <2>4
<1>2. ASSUME NEW d \in 1 .. a, d - 1 \in G PROVE d \in G
  <2> DEFINE k == a - d
             l == b - d
  <2>1. /\ k \in 0 .. a /\ k + 1 \in 1 .. a /\ a - (d - 1) = k + 1 /\ (k + 1) - 1 = k
        /\ l \in 0 .. b /\ l + 1 \in 1 .. b /\ b - (d - 1) = l + 1 /\ (l + 1) - 1 = l
    OBVIOUS
  <2>2. u[k + 1] = v[l + 1]
    BY <1>2, <2>1
  <2> HIDE DEF k, l
  <2>3. u[k + 1] = NextLevel(u[k]) /\ v[l + 1] = NextLevel(v[l])
    BY <2>1 DEF Tower
  <2>4. Level(u[k]) /\ Distinct(u[k]) /\ Level(v[l]) /\ Distinct(v[l])
    BY <2>1 DEF Tower
  <2>5. u[k] = v[l]
    BY <2>2, <2>3, <2>4, NextIsInjective
  <2>6. QED
    BY <2>5 DEF k, l
<1>3. s = v[b - a]
  <2> HIDE DEF G
  <2>1. \A d \in 0 .. a : d \in G
    BY <1>1, <1>2, Induction, Zenon
  <2>2. a \in G /\ a - a = 0
    BY <2>1
  <2>3. u[0] = v[b - a]
    BY <2>2 DEF G
  <2>4. QED
    BY <2>3 DEF Tower
<1>4. b = a
  <2>1. SUFFICES ASSUME b # a PROVE FALSE
    OBVIOUS
  <2> DEFINE k == b - a
  <2>2. k \in 1 .. b /\ k - 1 \in 0 .. b
    BY <2>1
  <2> HIDE DEF k
  <2>3. s = NextLevel(v[k - 1]) /\ Level(v[k - 1])
    BY <1>3, <2>2 DEF Tower, k
  <2>4. 1 \in 1 .. (Len(v[k - 1]) + 1) \div 2
    <3> DEFINE m == (Len(v[k - 1]) + 1) \div 2
    <3>1. Len(v[k - 1]) \in Nat /\ Len(v[k - 1]) > 0
      BY <2>3, LevelLength
    <3>2. m \in Nat /\ m > 0
      BY <3>1, HalfUp
    <3> HIDE DEF m
    <3>3. 1 \in 1 .. m
      BY <3>2
    <3>4. QED
      BY <3>3 DEF m
  <2>5. \E l, r : s[1] = Pair(l, r)
    BY <2>3, <2>4, NextIsLevel
  <2>6. 1 \in 1 .. Len(s)
    BY EmptySeq, LenProperties
  <2>7. s[1] \in Digests
    BY <2>6, ElementOfSeq
  <2>8. QED
    BY <2>5, <2>7
<1>5. b - a = 0
  BY <1>4
<1>6. QED
  BY <1>3, <1>5 DEF Tower

\* Even without the count, a root tells distinct digests and their order, however
\* many there are: the odd last one, paired with itself, is like no other pair.
THEOREM RootTells ==
    ASSUME NEW Digests, \A x \in Digests : \A l, r : x # Pair(l, r),
           NEW s \in Seq(Digests), NEW t \in Seq(Digests),
           s # <<>>, t # <<>>, Distinct(s), Distinct(t)
    PROVE  Root(s) = Root(t) <=> s = t
<1>1. SUFFICES ASSUME Root(s) = Root(t) PROVE s = t
  OBVIOUS
<1>2. PICK a \in Nat : Tower(s, a, Levels(s))
  BY HasTower DEF Level
<1>3. PICK b \in Nat : Tower(t, b, Levels(t))
  BY HasTower DEF Level
<1>4. CASE a <= b
  BY <1>1, <1>2, <1>3, <1>4, TowersAgree
<1>5. CASE b <= a
  BY <1>1, <1>2, <1>3, <1>5, TowersAgree
<1>6. QED
  BY <1>4, <1>5
==============================================================================
