----------------------------- MODULE AuditChain ------------------------------
(***************************************************************************)
(* What the audit ledger promises its callers: one append-only chain, each *)
(* record hashed over the one before it, no evidence id used twice, and a  *)
(* record acknowledged only when it is in the chain.                       *)
(***************************************************************************)
EXTENDS HashChain

VARIABLES
    chain,      \* the records ever committed, in order
    acked       \* the records a caller was handed

vars == <<chain, acked>>

Init == chain = <<>> /\ acked = {}

Extend(row) ==
    /\ row.hash = RecordHash(row.content, HeadHash(chain))
    /\ row.previous = HeadHash(chain)
    /\ \A i \in DOMAIN chain : chain[i].content.evidence # row.content.evidence
    /\ chain' = Append(chain, row)
    /\ UNCHANGED acked

Acknowledge(i) ==
    /\ acked' = acked \union {chain[i]}
    /\ UNCHANGED chain

Next ==
    \/ \E content \in Contents, request \in RequestIds :
          Extend([content  |-> content,
                  request  |-> request,
                  previous |-> HeadHash(chain),
                  hash     |-> RecordHash(content, HeadHash(chain))])
    \/ \E i \in DOMAIN chain : Acknowledge(i)

Spec == Init /\ [][Next]_vars
==============================================================================
