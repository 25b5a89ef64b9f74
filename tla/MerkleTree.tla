----------------------------- MODULE MerkleTree -----------------------------
(***************************************************************************)
(* The root audit.py computes over the hashes of the records it covers:    *)
(* pairs are hashed, level by level, and an odd last one with itself.      *)
(***************************************************************************)
EXTENDS Integers, Sequences

\* SHA-256 of two digests of equal length, one after the other; injective.
Pair(left, right) == <<left, right>>

\* next_level
NextLevel(hashes) ==
    [i \in 1 .. (Len(hashes) + 1) \div 2 |->
        Pair(hashes[2 * i - 1], hashes[IF 2 * i <= Len(hashes) THEN 2 * i ELSE 2 * i - 1])]

\* The levels above the leaves, the last of which is the root alone.
Levels(leaves) ==
    LET level[n \in 0 .. Len(leaves)] ==
            IF n = 0 THEN leaves
            ELSE IF Len(level[n - 1]) = 1 THEN level[n - 1]
            ELSE NextLevel(level[n - 1])
    IN  level

Root(leaves) == Levels(leaves)[Len(leaves)][1]
==============================================================================
