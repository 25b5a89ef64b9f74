------------------------------ MODULE HashChain ------------------------------
(***************************************************************************)
(* The hash chain of audit.py as operators on sequences of rows.           *)
(*                                                                         *)
(* SHA-256 is idealised as injective: the hash of a record is the whole    *)
(* chain of contents it commits to, so two hashes are equal exactly when   *)
(* every covered column up to that row is.                                 *)
(***************************************************************************)
EXTENDS Naturals, Sequences

CONSTANTS
    EvidenceIds,    \* what _generate_evidence_id can draw
    Calls,          \* one per store_verification call: claim, time, components...
    RequestIds,     \* X-Request-ID values, chosen by the client
    Verdicts        \* the verdict column, the hashed column that edits alter

\* The columns _compute_hash covers, request_id not being one of them.
Contents == [evidence : EvidenceIds, call : Calls, verdict : Verdicts]

Hashes == Seq(Contents)

Genesis == <<>>

HashWithoutVerdict(content, previous) ==      \* mutant: verdict not hashed
    Append(previous, [content EXCEPT !.verdict = CHOOSE v \in Verdicts : TRUE])

\* _compute_hash, over the previous record's hash.
RecordHash(content, previous) == Append(previous, content)

Rows == [content : Contents, request : RequestIds, previous : Hashes, hash : Hashes]

\* SELECT record_hash FROM audit_records ORDER BY id DESC LIMIT 1
HeadHash(rows) == IF rows = <<>> THEN Genesis ELSE rows[Len(rows)].hash

PreviousHash(rows, i) == IF i = 1 THEN Genesis ELSE rows[i - 1].hash

\* The breaks get_chain_integrity lists: rows whose recomputed hash, over the
\* stored hash of the row before, is not the stored one.
Breaks(rows) ==
    {i \in DOMAIN rows :
        RecordHash(rows[i].content, PreviousHash(rows, i)) # rows[i].hash}

StatusOfHead(rows) ==         \* mutant: only the newest record is recomputed
    IF rows = <<>> THEN "empty"
    ELSE IF Len(rows) \notin Breaks(rows) THEN "intact" ELSE "compromised"

\* The status get_chain_integrity reports.
Status(rows) ==
    IF rows = <<>> THEN "empty"
    ELSE IF Breaks(rows) = {} THEN "intact" ELSE "compromised"
==============================================================================
