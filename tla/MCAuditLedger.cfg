\* Two threads, two store calls, evidence ids that can collide, edits, restarts;
\* threads are fairly scheduled.
CONSTANTS
    t1 = t1  t2 = t2  c1 = c1  c2 = c2  c3 = c3
    e1 = e1  e2 = e2  e3 = e3  q1 = q1  q2 = q2
    Nobody = Nobody
    Threads <- MCThreads
    Calls <- MCCalls
    EvidenceIds <- MCEvidence
    RequestIds <- MCRequests
    Verdicts <- MCVerdicts
    RequestOf <- MCRequestOf
    MaxRoots = 1
SPECIFICATION FairSpec
INVARIANTS TypeOK BreaksAreEdits NoLateCommit RootsCover
PROPERTIES ImplementsChain CallReturns
