\* One thread, as the API's event loop runs the ledger: three store calls.
CONSTANTS
    t1 = t1  t2 = t2  c1 = c1  c2 = c2  c3 = c3
    e1 = e1  e2 = e2  e3 = e3  q1 = q1  q2 = q2
    Nobody = Nobody
    Threads <- MCOne
    Calls <- MCCalls3
    EvidenceIds <- MCEvidence3
    RequestIds <- MCRequests
    Verdicts <- MCVerdicts
    RequestOf <- MCRequestOf
    MaxRoots = 1
SPECIFICATION Spec
SYMMETRY CallSymmetry
INVARIANTS AckedReadable RootsCover
PROPERTIES ReadsAreGated
