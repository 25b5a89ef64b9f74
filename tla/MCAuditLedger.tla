---------------------------- MODULE MCAuditLedger ----------------------------
(* Instances of AuditLedger for TLC. *)
EXTENDS AuditLedger, TLC

CONSTANTS t1, t2, c1, c2, c3, e1, e2, e3, q1, q2

MCThreads   == {t1, t2}
MCOne       == {t1}
MCCalls     == {c1, c2}
MCCalls3    == {c1, c2, c3}
MCEvidence  == {e1, e2}
MCEvidence3 == {e1, e2, e3}
MCRequests  == {q1, q2}
MCVerdicts  == {"VERIFIED", "REJECTED"}

\* c1 and c3 were sent with the same X-Request-ID.
MCRequestOf == [c \in Calls |-> IF c = c2 THEN q2 ELSE q1]

\* Evidence ids are interchangeable, and so are the two calls of one request;
\* nothing chooses among them.
CallSymmetry == Permutations(MCEvidence3) \union Permutations({c1, c3})

Merkle == INSTANCE MerkleTree

\* Up to five leaves, each a digest of its own.
MCLeaves == {<<i>> : i \in 1 .. 5}

MCDistinct ==
    UNION {{s \in [1 .. n -> MCLeaves] : \A i, j \in 1 .. n : s[i] = s[j] => i = j} : n \in 1 .. 5}

\* A root tells which records it covers, and in which order, as RootOf takes it to;
\* but only because no record is covered twice: an odd last one, repeated, is not seen.
ASSUME RootTellsLeaves ==
    /\ Cardinality({Merkle!Root(s) : s \in MCDistinct}) = Cardinality(MCDistinct)
    /\ Merkle!Root(<<<<1>>, <<2>>, <<3>>>>) = Merkle!Root(<<<<1>>, <<2>>, <<3>>, <<3>>>>)
==============================================================================
