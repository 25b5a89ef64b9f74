------------------------ MODULE FapCoreClientProofs ------------------------
(***************************************************************************)
(* Theorems about FapCoreClient: whatever the lifetimes and the latency,   *)
(* and however many tasks share the client.                                *)
(***************************************************************************)
EXTENDS FapCoreClient, SequenceTheorems, TLAPS

\* The parts of the inductive invariant.  The variables have their types;
Types ==
    /\ now \in Times
    /\ core \in Commits \union {Down}
    /\ healthCache \in Entries \union {Nothing}
    /\ identityCache \in Entries \union {Nothing}
    /\ queue \in Seq(Tasks)
    /\ pc \in [Tasks -> {"idle"} \union InHealth \union InIdentity]
    /\ asked \in [Tasks -> Times]
    /\ reply \in [Tasks -> Observations \union {Nothing}]
    /\ result \in [Tasks -> Observations \union {Nothing}]
    /\ validUntil \in Nat

\* the lock's queue holds the tasks at it, each once, and only the first is past it;
QueueFits ==
    /\ \A p \in Tasks :
          /\ pc[p] \in Locking <=> \E i \in DOMAIN queue : queue[i] = p
          /\ pc[p] \in {"asking", "answered"} => queue[1] = p
    /\ \A i, j \in DOMAIN queue : queue[i] = queue[j] => i = j

\* an answer is there while it is on its way;
RepliesFit == \A p \in Tasks : pc[p] \in {"answered", "idAnswered"} <=> reply[p] # Nothing

\* no request is older than the latency, and its answer no older than the request;
RequestsAreShort ==
    \A p \in Tasks :
        /\ pc[p] \in Pending => asked[p] <= now /\ now <= asked[p] + Latency
        /\ reply[p] # Nothing => asked[p] <= reply[p].at /\ reply[p].at <= now

\* what is kept expires a lifetime after it arrived, and an identity is a success;
KeptIsShort ==
    /\ healthCache # Nothing =>
          healthCache.expires <= healthCache.at + Latency + Lifetime(healthCache.value)
    /\ identityCache # Nothing =>
          /\ identityCache.value # Down
          /\ identityCache.expires <= identityCache.at + Latency + SuccessLifetime

\* and health is forgotten only once what was observed last has expired.
LastIsKept ==
    /\ healthCache # Nothing => healthCache.expires = validUntil
    /\ healthCache = Nothing => validUntil <= now

CInv == Types /\ QueueFits /\ RepliesFit /\ RequestsAreShort /\ KeptIsShort /\ LastIsKept

LEMMA TypeParts == TypeOK <=> Types /\ QueueFits /\ RepliesFit
  BY DEF TypeOK, Types, QueueFits, RepliesFit

LEMMA Constants ==
    /\ SuccessLifetime \in Nat /\ FailureLifetime \in Nat /\ Latency \in Nat /\ MaxTime \in Nat
    /\ Nothing \notin Observations /\ Nothing \notin Entries
  BY TimeAssumption, NothingAssumption

-------------------------------------------------------------------------------
\* A task joins the queue at its end.
LEMMA Join ==
    ASSUME NEW S, NEW q \in Seq(S), NEW e \in S,
           \A i \in DOMAIN q : q[i] # e,
           \A i, j \in DOMAIN q : q[i] = q[j] => i = j
    PROVE  LET r == Append(q, e) IN
           /\ r \in Seq(S)
           /\ \A s \in S : (\E i \in DOMAIN r : r[i] = s)
                              <=> s = e \/ \E i \in DOMAIN q : q[i] = s
           /\ \A i, j \in DOMAIN r : r[i] = r[j] => i = j
           /\ DOMAIN q # {} => r[1] = q[1]
  <1> DEFINE r == Append(q, e)
  <1>1. /\ r \in Seq(S) /\ Len(r) = Len(q) + 1 /\ r[Len(q) + 1] = e
        /\ \A i \in 1 .. Len(q) : r[i] = q[i]
    BY AppendProperties
  <1>2. DOMAIN q = 1 .. Len(q) /\ DOMAIN r = 1 .. Len(q) + 1 /\ Len(q) \in Nat
    BY <1>1, LenProperties
  <1> HIDE DEF r
  <1>3. \A i, j \in DOMAIN r : r[i] = r[j] => i = j
    <2> SUFFICES ASSUME NEW i \in DOMAIN r, NEW j \in DOMAIN r, r[i] = r[j] PROVE i = j
      OBVIOUS
    <2>1. CASE i \in DOMAIN q /\ j \in DOMAIN q
      BY <1>1, <1>2, <2>1
    <2>2. CASE i \notin DOMAIN q \/ j \notin DOMAIN q
      BY <1>1, <1>2, <2>2
    <2> QED
      BY <2>1, <2>2
  <1>4. \A s \in S : (\E i \in DOMAIN r : r[i] = s) <=> s = e \/ \E i \in DOMAIN q : q[i] = s
    BY <1>1, <1>2
  <1>5. DOMAIN q # {} => r[1] = q[1]
    BY <1>1, <1>2
  <1> QED
    BY <1>1, <1>3, <1>4, <1>5 DEF r

\* One leaves it, wherever it stands.
LEMMA Leave ==
    ASSUME NEW S, NEW q \in Seq(S), NEW k \in DOMAIN q,
           \A i, j \in DOMAIN q : q[i] = q[j] => i = j
    PROVE  LET r == RemoveAt(q, k) IN
           /\ r \in Seq(S)
           /\ \A s \in S : (\E i \in DOMAIN r : r[i] = s)
                              <=> s # q[k] /\ \E i \in DOMAIN q : q[i] = s
           /\ \A i, j \in DOMAIN r : r[i] = r[j] => i = j
           /\ k # 1 => r[1] = q[1]
  <1> DEFINE a == SubSeq(q, 1, k - 1)
             b == SubSeq(q, k + 1, Len(q))
             r == RemoveAt(q, k)
  <1>1. DOMAIN q = 1 .. Len(q) /\ Len(q) \in Nat /\ k \in 1 .. Len(q)
    BY LenProperties
  <1>2. /\ a \in Seq(S) /\ Len(a) = k - 1
        /\ \A i \in 1 .. k - 1 : a[i] = q[i]
    BY <1>1, SubSeqProperties
  <1>3. /\ b \in Seq(S) /\ Len(b) = Len(q) - k
        /\ \A i \in 1 .. Len(q) - k : b[i] = q[k + i]
    BY <1>1, SubSeqProperties
  <1>4. r = a \o b
    BY DEF RemoveAt
  <1> HIDE DEF a, b, r
  <1>5. /\ r \in Seq(S) /\ Len(r) = Len(q) - 1
        /\ \A i \in 1 .. Len(q) - 1 : r[i] = IF i < k THEN q[i] ELSE q[i + 1]
    <2>1. /\ r \in Seq(S) /\ Len(r) = Len(a) + Len(b)
          /\ \A i \in 1 .. Len(a) + Len(b) : r[i] = IF i <= Len(a) THEN a[i] ELSE b[i - Len(a)]
      <3>1. /\ a \o b \in Seq(S) /\ Len(a \o b) = Len(a) + Len(b)
            /\ \A i \in 1 .. Len(a) + Len(b) :
                  (a \o b)[i] = IF i <= Len(a) THEN a[i] ELSE b[i - Len(a)]
        <4>1. a \in Seq(S) /\ b \in Seq(S)
          BY <1>2, <1>3
        <4> QED
          BY <4>1, ConcatProperties, Zenon
      <3> QED
        BY <3>1, <1>4, Zenon
    <2>2. ASSUME NEW i \in 1 .. Len(q) - 1 PROVE r[i] = IF i < k THEN q[i] ELSE q[i + 1]
      <3>1. CASE i < k
        BY <1>1, <1>2, <1>3, <2>1, <3>1
      <3>2. CASE ~(i < k)
        <4>1. i - (k - 1) \in 1 .. Len(q) - k /\ k + (i - (k - 1)) = i + 1
          BY <1>1, <3>2
        <4>2. i \in 1 .. Len(a) + Len(b) /\ ~(i <= Len(a)) /\ Len(a) = k - 1
          BY <1>1, <1>2, <1>3, <3>2
        <4>3. r[i] = b[i - (k - 1)]
          BY <2>1, <4>2
        <4>4. b[i - (k - 1)] = q[k + (i - (k - 1))]
          BY <1>3, <4>1
        <4> QED
          BY <3>2, <4>1, <4>3, <4>4
      <3> QED
        BY <3>1, <3>2
    <2> QED
      BY <1>1, <1>2, <1>3, <2>1, <2>2
  <1>6. DOMAIN r = 1 .. Len(q) - 1
    BY <1>5, LenProperties
  <1>7. \A i, j \in DOMAIN r : r[i] = r[j] => i = j
    <2> DEFINE place(i) == IF i < k THEN i ELSE i + 1
    <2> SUFFICES ASSUME NEW i \in DOMAIN r, NEW j \in DOMAIN r, r[i] = r[j] PROVE i = j
      OBVIOUS
    <2>1. r[i] = q[place(i)] /\ r[j] = q[place(j)] /\ i \in Nat /\ j \in Nat
      BY <1>1, <1>5, <1>6
    <2>2. place(i) \in DOMAIN q /\ place(j) \in DOMAIN q
      BY <1>1, <1>6
    <2>3. place(i) = place(j)
      BY <2>1, <2>2
    <2> QED
      BY <1>1, <2>1, <2>3
  <1>8. ASSUME NEW s \in S, NEW i \in DOMAIN r, r[i] = s
        PROVE  s # q[k] /\ \E j \in DOMAIN q : q[j] = s
    BY <1>1, <1>5, <1>6, <1>8
  <1>9. ASSUME NEW s \in S, s # q[k], NEW j \in DOMAIN q, q[j] = s
        PROVE  \E i \in DOMAIN r : r[i] = s
    <2>1. CASE j < k
      <3>1. j \in DOMAIN r /\ r[j] = s
        BY <1>1, <1>5, <1>6, <1>9, <2>1
      <3> QED
        BY <3>1
    <2>2. CASE ~(j < k)
      <3>1. j - 1 \in DOMAIN r /\ r[j - 1] = s
        BY <1>1, <1>5, <1>6, <1>9, <2>2
      <3> QED
        BY <3>1
    <2> QED
      BY <2>1, <2>2
  <1>10. k # 1 => r[1] = q[1]
    BY <1>1, <1>5
  <1> QED
    BY <1>5, <1>7, <1>8, <1>9, <1>10 DEF r

\* The first of it leaves.
LEMMA LeaveFirst ==
    ASSUME NEW S, NEW q \in Seq(S), q # <<>>
    PROVE  Head(q) = q[1] /\ 1 \in DOMAIN q /\ Tail(q) = RemoveAt(q, 1)
  <1>1. Len(q) \in Nat \ {0} /\ DOMAIN q = 1 .. Len(q)
    BY LenProperties, EmptySeq
  <1>2. Tail(q) = SubSeq(q, 2, Len(q))
    BY TailIsSubSeq
  <1>3. SubSeq(q, 1, 0) = <<>> /\ SubSeq(q, 2, Len(q)) \in Seq(S)
    BY <1>1, SubSeqProperties, SubSeqEmpty
  <1>4. RemoveAt(q, 1) = <<>> \o SubSeq(q, 2, Len(q))
    BY <1>3 DEF RemoveAt
  <1>5. <<>> \o SubSeq(q, 2, Len(q)) = SubSeq(q, 2, Len(q))
    BY <1>3, ConcatEmptySeq
  <1> QED
    BY <1>1, <1>2, <1>4, <1>5

-------------------------------------------------------------------------------
\* The three ways a step treats the lock: the queue stays as it is,
LEMMA Stays ==
    ASSUME Types, QueueFits, NEW p \in Tasks, NEW label, Goto(p, label),
           queue' = queue, pc[p] \in Locking <=> label \in Locking,
           label \in {"asking", "answered"} => queue[1] = p
    PROVE  QueueFits'
  BY DEF Types, QueueFits, Goto

\* the task joins it,
LEMMA Joins ==
    ASSUME Types, QueueFits, NEW p \in Tasks, pc[p] \notin Locking,
           queue' = Append(queue, p), Goto(p, "queued")
    PROVE  QueueFits' /\ queue' \in Seq(Tasks)
  <1>1. \A i \in DOMAIN queue : queue[i] # p
    BY DEF QueueFits
  <1>2. /\ queue' \in Seq(Tasks)
        /\ \A s \in Tasks : (\E i \in DOMAIN queue' : queue'[i] = s)
                              <=> s = p \/ \E i \in DOMAIN queue : queue[i] = s
        /\ \A i, j \in DOMAIN queue' : queue'[i] = queue'[j] => i = j
        /\ DOMAIN queue # {} => queue'[1] = queue[1]
    BY <1>1, Join DEF Types, QueueFits
  <1>3. ASSUME NEW s \in Tasks
        PROVE  /\ pc'[s] \in Locking <=> \E i \in DOMAIN queue' : queue'[i] = s
               /\ pc'[s] \in {"asking", "answered"} => queue'[1] = s
    <2>1. CASE s = p
      BY <1>2, <2>1 DEF Types, Goto, Locking
    <2>2. CASE s # p
      <3>1. pc'[s] = pc[s]
        BY <2>2 DEF Types, Goto
      <3>2. pc[s] \in {"asking", "answered"} => queue[1] = s /\ DOMAIN queue # {}
        BY DEF QueueFits, Locking
      <3> QED
        BY <1>2, <2>2, <3>1, <3>2 DEF QueueFits
    <2> QED
      BY <2>1, <2>2
  <1> QED
    BY <1>2, <1>3 DEF QueueFits

\* or it leaves it.
LEMMA Leaves ==
    ASSUME Types, QueueFits, NEW p \in Tasks, NEW k \in DOMAIN queue, queue[k] = p,
           queue' = RemoveAt(queue, k), Goto(p, "idle")
    PROVE  QueueFits' /\ queue' \in Seq(Tasks)
  <1>1. /\ queue' \in Seq(Tasks)
        /\ \A s \in Tasks : (\E i \in DOMAIN queue' : queue'[i] = s)
                              <=> s # queue[k] /\ \E i \in DOMAIN queue : queue[i] = s
        /\ \A i, j \in DOMAIN queue' : queue'[i] = queue'[j] => i = j
        /\ k # 1 => queue'[1] = queue[1]
    BY Leave DEF Types, QueueFits
  <1>2. ASSUME NEW s \in Tasks
        PROVE  /\ pc'[s] \in Locking <=> \E i \in DOMAIN queue' : queue'[i] = s
               /\ pc'[s] \in {"asking", "answered"} => queue'[1] = s
    <2>1. CASE s = p
      BY <1>1, <2>1 DEF Types, Goto, Locking
    <2>2. CASE s # p
      BY <1>1, <2>2 DEF Types, Goto, QueueFits
    <2> QED
      BY <2>1, <2>2
  <1> QED
    BY <1>1, <1>2 DEF QueueFits

\* The holder of the lock is the first of the queue, and leaves it by Tail.
LEMMA HolderLeaves ==
    ASSUME Types, QueueFits, NEW p \in Tasks, pc[p] \in Locking, Head(queue) = p,
           queue' = Tail(queue), Goto(p, "idle")
    PROVE  QueueFits' /\ queue' \in Seq(Tasks)
  <1>1. queue # <<>>
    BY DEF QueueFits
  <1>2. Head(queue) = queue[1] /\ 1 \in DOMAIN queue /\ Tail(queue) = RemoveAt(queue, 1)
    BY <1>1, LeaveFirst DEF Types
  <1> QED
    BY <1>2, Leaves

\* A cancelled task is out of the queue, wherever it was.
LEMMA CancelLeaves ==
    ASSUME Types, QueueFits, NEW p \in Tasks, queue' = LockWithout(p), Goto(p, "idle")
    PROVE  QueueFits' /\ queue' \in Seq(Tasks)
  <1>1. CASE \E i \in DOMAIN queue : queue[i] = p
    <2> DEFINE k == CHOOSE i \in DOMAIN queue : queue[i] = p
    <2>1. k \in DOMAIN queue /\ queue[k] = p
      BY <1>1
    <2>2. queue' = RemoveAt(queue, k)
      BY <1>1 DEF LockWithout
    <2> QED
      BY <2>1, <2>2, Leaves
  <1>2. CASE ~\E i \in DOMAIN queue : queue[i] = p
    <2>1. queue' = queue /\ pc[p] \notin Locking
      BY <1>2 DEF LockWithout, QueueFits
    <2> QED
      BY <2>1, Stays DEF Types, Locking
  <1> QED
    BY <1>1, <1>2

-------------------------------------------------------------------------------
THEOREM InitFits == Init => CInv
  <1> SUFFICES ASSUME Init PROVE CInv
    OBVIOUS
  <1> USE Constants
  <1>1. Types
    BY DEF Init, Types, Times
  <1>2. QueueFits /\ RepliesFit /\ RequestsAreShort /\ KeptIsShort /\ LastIsKept
    BY DEF Init, QueueFits, RepliesFit, RequestsAreShort, KeptIsShort, LastIsKept, Locking, Pending
  <1> QED
    BY <1>1, <1>2 DEF CInv

LEMMA CallFits ==
    ASSUME CInv, NEW p \in Tasks, NEW operation \in {"health", "identity"}, Call(p, operation)
    PROVE  CInv'
  <1> USE Constants
  <1>1. QueueFits'
    BY Stays DEF CInv, Types, Call, Goto, Locking
  <1>2. Types'
    BY DEF CInv, Types, Call, Goto, InHealth, InIdentity
  <1>3. RepliesFit' /\ RequestsAreShort'
    BY DEF CInv, Types, Call, Goto, RepliesFit, RequestsAreShort, Pending
  <1>4. KeptIsShort' /\ LastIsKept'
    BY DEF CInv, Call, KeptIsShort, LastIsKept
  <1> QED
    BY <1>1, <1>2, <1>3, <1>4 DEF CInv

\* What is kept, seen as an observation.
LEMMA ObservedFits ==
    ASSUME NEW entry \in Entries
    PROVE  Observed(entry) \in Observations
  BY DEF Observed, Entries, Observations

LEMMA LookUpHealthFits ==
    ASSUME CInv, NEW p \in Tasks, LookUpHealth(p)
    PROVE  CInv'
  <1> USE Constants
  <1>1. CASE Hit(healthCache) /\ Return(p, Observed(healthCache)) /\ UNCHANGED <<healthCache, queue>>
    <2>1. healthCache \in Entries /\ Observed(healthCache) \in Observations
      BY <1>1, ObservedFits DEF CInv, Types, Hit
    <2>2. QueueFits'
      BY <1>1, Stays DEF CInv, Types, LookUpHealth, Return, Goto, Locking
    <2>3. Types'
      BY <1>1, <2>1 DEF CInv, Types, LookUpHealth, Return, Goto
    <2>4. RepliesFit' /\ RequestsAreShort' /\ KeptIsShort' /\ LastIsKept'
      BY <1>1 DEF CInv, Types, LookUpHealth, Return, Goto, RepliesFit, RequestsAreShort, Pending,
                  KeptIsShort, LastIsKept
    <2> QED
      BY <2>2, <2>3, <2>4 DEF CInv
  <1>2. CASE /\ ~Hit(healthCache) /\ healthCache' = Nothing /\ queue' = Append(queue, p)
             /\ Goto(p, "queued") /\ UNCHANGED result
    <2>1. QueueFits' /\ queue' \in Seq(Tasks)
      BY <1>2, Joins DEF CInv, LookUpHealth, Locking
    <2>2. Types'
      BY <1>2, <2>1 DEF CInv, Types, LookUpHealth, Goto, InHealth
    <2>3. RepliesFit' /\ RequestsAreShort' /\ KeptIsShort'
      BY <1>2 DEF CInv, Types, LookUpHealth, Goto, RepliesFit, RequestsAreShort, Pending, KeptIsShort
    <2>4. LastIsKept'
      BY <1>2 DEF CInv, Types, Times, Entries, LookUpHealth, Hit, LastIsKept
    <2> QED
      BY <2>1, <2>2, <2>3, <2>4 DEF CInv
  <1> QED
    BY <1>1, <1>2 DEF LookUpHealth

LEMMA HoldLockFits ==
    ASSUME CInv, NEW p \in Tasks, HoldLock(p)
    PROVE  CInv'
  <1> USE Constants
  <1>1. CASE /\ KeptMeanwhile /\ Return(p, Observed(healthCache)) /\ queue' = Tail(queue)
             /\ UNCHANGED <<healthCache, asked>>
    <2>1. healthCache \in Entries /\ Observed(healthCache) \in Observations
      BY <1>1, ObservedFits DEF CInv, Types, KeptMeanwhile, Hit
    <2>2. QueueFits' /\ queue' \in Seq(Tasks)
      BY <1>1, HolderLeaves DEF CInv, HoldLock, Return, Locking
    <2>3. Types'
      BY <1>1, <2>1, <2>2 DEF CInv, Types, HoldLock, Return, Goto
    <2>4. RepliesFit' /\ RequestsAreShort' /\ KeptIsShort' /\ LastIsKept'
      BY <1>1 DEF CInv, Types, HoldLock, Return, Goto, RepliesFit, RequestsAreShort, Pending,
                  KeptIsShort, LastIsKept
    <2> QED
      BY <2>2, <2>3, <2>4 DEF CInv
  <1>2. CASE /\ ~KeptMeanwhile /\ healthCache' = Nothing /\ Ask(p, "asking")
             /\ UNCHANGED <<queue, result>>
    <2>1. queue # <<>>
      BY DEF CInv, QueueFits, HoldLock, Locking
    <2>2. queue[1] = p
      BY <2>1, LeaveFirst DEF CInv, Types, HoldLock
    <2>3. QueueFits'
      BY <1>2, <2>2, Stays DEF CInv, HoldLock, Ask, Locking
    <2>4. Types'
      BY <1>2 DEF CInv, Types, HoldLock, Ask, Goto, InHealth
    <2>5. RepliesFit' /\ KeptIsShort'
      BY <1>2 DEF CInv, Types, HoldLock, Ask, Goto, RepliesFit, KeptIsShort
    <2>6. RequestsAreShort'
      <3>1. reply[p] = Nothing
        BY DEF CInv, RepliesFit, HoldLock
      <3> QED
        BY <1>2, <3>1 DEF CInv, Types, Times, HoldLock, Ask, Goto, RequestsAreShort, Pending
    <2>7. LastIsKept'
      BY <1>2 DEF CInv, Types, Times, Entries, HoldLock, KeptMeanwhile, Hit, LastIsKept
    <2> QED
      BY <2>3, <2>4, <2>5, <2>6, <2>7 DEF CInv
  <1> QED
    BY <1>1, <1>2 DEF HoldLock

\* The answer that has come is an observation, and at most a latency old.
LEMMA Answered ==
    ASSUME CInv, NEW p \in Tasks, pc[p] \in {"answered", "idAnswered"}
    PROVE  /\ reply[p] \in Observations
           /\ reply[p].at <= now /\ now <= reply[p].at + Latency
  <1>1. reply[p] \in Observations
    BY DEF CInv, Types, RepliesFit
  <1>2. asked[p] <= reply[p].at /\ reply[p].at <= now /\ now <= asked[p] + Latency
    BY DEF CInv, RepliesFit, RequestsAreShort, Pending
  <1>3. asked[p] \in Nat /\ reply[p].at \in Nat /\ now \in Nat
    BY <1>1 DEF CInv, Types, Times, Observations
  <1> QED
    BY <1>1, <1>2, <1>3, Constants

\* So what is kept of it is an entry that expires in time.
LEMMA KeptFits ==
    ASSUME CInv, NEW p \in Tasks, pc[p] \in {"answered", "idAnswered"}, NEW lifetime \in Nat
    PROVE  LET entry == Kept(reply[p], lifetime) IN
           /\ entry \in Entries
           /\ entry.value = reply[p].value
           /\ entry.expires = now + lifetime
           /\ entry.expires <= entry.at + Latency + lifetime
  <1>1. /\ reply[p] \in Observations
        /\ reply[p].at <= now /\ now <= reply[p].at + Latency
    BY Answered
  <1>2. now \in Nat /\ reply[p].at \in Nat
    BY <1>1 DEF CInv, Types, Times, Observations
  <1>3. Kept(reply[p], lifetime) =
          [value |-> reply[p].value, at |-> reply[p].at, expires |-> now + lifetime]
    BY DEF Kept
  <1> QED
    BY <1>1, <1>2, <1>3, Constants DEF Observations, Entries

LEMMA KeepHealthFits ==
    ASSUME CInv, NEW p \in Tasks, KeepHealth(p)
    PROVE  CInv'
  <1> USE Constants
  <1>1. reply[p] \in Observations /\ Lifetime(reply[p].value) \in Nat
    BY Answered DEF KeepHealth, Lifetime
  <1>2. /\ healthCache' \in Entries
        /\ healthCache'.value = reply[p].value
        /\ healthCache'.expires = validUntil'
        /\ healthCache'.expires <= healthCache'.at + Latency + Lifetime(reply[p].value)
    BY <1>1, KeptFits DEF KeepHealth
  <1>3. Head(queue) = p
    <2>1. queue # <<>> /\ queue[1] = p
      BY DEF CInv, QueueFits, KeepHealth, Locking
    <2> QED
      BY <2>1, LeaveFirst DEF CInv, Types
  <1>4. QueueFits' /\ queue' \in Seq(Tasks)
    BY <1>3, HolderLeaves DEF CInv, KeepHealth, Return, Locking
  <1>5. Types'
    <2>1. now \in Nat /\ validUntil' \in Nat
      BY <1>1 DEF CInv, Types, Times, KeepHealth
    <2> QED
      BY <1>1, <1>2, <1>4, <2>1 DEF CInv, Types, Times, KeepHealth, Return, Over, Goto
  <1>6. RepliesFit' /\ RequestsAreShort'
    BY DEF CInv, Types, KeepHealth, Return, Over, Goto, RepliesFit, RequestsAreShort, Pending
  <1>7. KeptIsShort' /\ LastIsKept'
    BY <1>2 DEF CInv, KeepHealth, KeptIsShort, LastIsKept
  <1> QED
    BY <1>4, <1>5, <1>6, <1>7 DEF CInv

LEMMA LookUpIdentityFits ==
    ASSUME CInv, NEW p \in Tasks, LookUpIdentity(p)
    PROVE  CInv'
  <1> USE Constants
  <1>1. QueueFits' /\ KeptIsShort' /\ LastIsKept'
    BY Stays DEF CInv, Types, LookUpIdentity, Return, Ask, Goto, Locking, KeptIsShort, LastIsKept
  <1>2. CASE Hit(identityCache) /\ Return(p, Observed(identityCache)) /\ UNCHANGED asked
    <2>1. Observed(identityCache) \in Observations
      BY <1>2, ObservedFits DEF CInv, Types, Hit
    <2>2. Types'
      BY <1>2, <2>1 DEF CInv, Types, LookUpIdentity, Return, Goto
    <2>3. RepliesFit' /\ RequestsAreShort'
      BY <1>2 DEF CInv, Types, LookUpIdentity, Return, Goto, RepliesFit, RequestsAreShort, Pending
    <2> QED
      BY <1>1, <2>2, <2>3 DEF CInv
  <1>3. CASE ~Hit(identityCache) /\ Ask(p, "idAsking") /\ UNCHANGED result
    <2>1. Types'
      BY <1>3 DEF CInv, Types, LookUpIdentity, Ask, Goto, InIdentity
    <2>2. RepliesFit' /\ reply[p] = Nothing
      BY <1>3 DEF CInv, Types, LookUpIdentity, Ask, Goto, RepliesFit
    <2>3. RequestsAreShort'
      BY <1>3, <2>2 DEF CInv, Types, Times, LookUpIdentity, Ask, Goto, RequestsAreShort, Pending
    <2> QED
      BY <1>1, <2>1, <2>2, <2>3 DEF CInv
  <1> QED
    BY <1>2, <1>3 DEF LookUpIdentity

LEMMA KeepIdentityFits ==
    ASSUME CInv, NEW p \in Tasks, KeepIdentity(p)
    PROVE  CInv'
  <1> USE Constants
  <1>1. reply[p] \in Observations
    BY Answered DEF KeepIdentity
  <1>2. /\ identityCache' # identityCache =>
              identityCache' \in Entries /\ identityCache'.value # Down
        /\ identityCache' # identityCache =>
              identityCache'.expires <= identityCache'.at + Latency + SuccessLifetime
    BY KeptFits DEF KeepIdentity
  <1>3. QueueFits'
    BY Stays DEF CInv, Types, KeepIdentity, Return, Goto, Locking
  <1>4. Types'
    BY <1>1, <1>2 DEF CInv, Types, Times, KeepIdentity, Return, Over, Goto
  <1>5. RepliesFit' /\ RequestsAreShort'
    BY DEF CInv, Types, KeepIdentity, Return, Over, Goto, RepliesFit, RequestsAreShort, Pending
  <1>6. KeptIsShort' /\ LastIsKept'
    BY <1>2 DEF CInv, KeepIdentity, KeptIsShort, LastIsKept
  <1> QED
    BY <1>3, <1>4, <1>5, <1>6 DEF CInv

LEMMA CancelFits ==
    ASSUME CInv, NEW p \in Tasks, Cancel(p)
    PROVE  CInv'
  <1> USE Constants
  <1>1. QueueFits' /\ queue' \in Seq(Tasks)
    BY CancelLeaves DEF CInv, Cancel
  <1>2. Types'
    BY <1>1 DEF CInv, Types, Times, Cancel, Over, Goto
  <1>3. RepliesFit' /\ RequestsAreShort'
    BY DEF CInv, Types, Cancel, Over, Goto, RepliesFit, RequestsAreShort, Pending
  <1>4. KeptIsShort' /\ LastIsKept'
    BY DEF CInv, Cancel, KeptIsShort, LastIsKept
  <1> QED
    BY <1>1, <1>2, <1>3, <1>4 DEF CInv

LEMMA CoreAnswersFits ==
    ASSUME CInv, NEW p \in Tasks, CoreAnswers(p)
    PROVE  CInv'
  <1> USE Constants
  <1> DEFINE answer == [value |-> core, at |-> now]
             label == IF pc[p] = "asking" THEN "answered" ELSE "idAnswered"
  <1>1. answer \in Observations /\ answer # Nothing /\ answer.at = now
    BY DEF CInv, Types, Observations
  <1>2. reply' = [reply EXCEPT ![p] = answer] /\ Goto(p, label)
    BY DEF CoreAnswers
  <1> HIDE DEF answer
  <1>3. QueueFits'
    BY <1>2, Stays DEF CInv, QueueFits, CoreAnswers, Locking
  <1>4. Types'
    BY <1>1, <1>2 DEF CInv, Types, CoreAnswers, Goto, InHealth, InIdentity
  <1>5. RepliesFit'
    BY <1>1, <1>2 DEF CInv, Types, CoreAnswers, Goto, RepliesFit
  <1>6. RequestsAreShort'
    <2>1. asked[p] <= now /\ now <= now
      BY DEF CInv, Types, Times, CoreAnswers, RequestsAreShort, Pending
    <2> QED
      BY <1>1, <1>2, <2>1 DEF CInv, Types, CoreAnswers, Goto, RequestsAreShort, Pending
  <1>7. KeptIsShort' /\ LastIsKept'
    BY DEF CInv, CoreAnswers, KeptIsShort, LastIsKept
  <1> QED
    BY <1>3, <1>4, <1>5, <1>6, <1>7 DEF CInv

LEMMA CoreChangesFits == ASSUME CInv, CoreChanges PROVE CInv'
  BY DEF CInv, CoreChanges, Types, QueueFits, RepliesFit, RequestsAreShort, KeptIsShort, LastIsKept

LEMMA TickFits ==
    ASSUME CInv, Tick
    PROVE  CInv'
  <1> USE Constants
  <1>1. now \in Nat /\ now' = now + 1 /\ now' \in Times
    BY DEF CInv, Types, Times, Tick
  <1>2. Types' /\ QueueFits' /\ RepliesFit' /\ KeptIsShort'
    BY <1>1 DEF CInv, Types, QueueFits, RepliesFit, KeptIsShort, Tick
  <1>3. LastIsKept'
    BY <1>1 DEF CInv, Types, LastIsKept, Tick
  <1>4. RequestsAreShort'
    <2> SUFFICES ASSUME NEW p \in Tasks
                 PROVE  /\ pc[p] \in Pending => asked[p] <= now' /\ now' <= asked[p] + Latency
                        /\ reply[p] # Nothing => asked[p] <= reply[p].at /\ reply[p].at <= now'
      BY DEF RequestsAreShort, Tick
    <2>1. asked[p] \in Nat
      BY DEF CInv, Types, Times
    <2>2. reply[p] # Nothing => reply[p].at \in Nat
      BY DEF CInv, Types, Times, Observations
    <2> QED
      BY <1>1, <2>1, <2>2 DEF CInv, RequestsAreShort, Tick
  <1> QED
    BY <1>2, <1>3, <1>4 DEF CInv

\* Every step keeps the invariant.
THEOREM StepFits == CInv /\ [Next]_vars => CInv'
  <1> SUFFICES ASSUME CInv, [Next]_vars PROVE CInv'
    OBVIOUS
  <1>1. ASSUME NEW p \in Tasks, Proceed(p) PROVE CInv'
    BY <1>1, LookUpHealthFits, HoldLockFits, KeepHealthFits, LookUpIdentityFits, KeepIdentityFits,
       CoreAnswersFits DEF Proceed
  <1>2. ASSUME NEW p \in Tasks, Cancel(p) PROVE CInv'
    BY <1>2, CancelFits
  <1>3. ASSUME NEW p \in Tasks, NEW operation \in {"health", "identity"}, Call(p, operation)
        PROVE  CInv'
    BY <1>3, CallFits
  <1>4. CASE CoreChanges
    BY <1>4, CoreChangesFits
  <1>5. CASE Tick
    BY <1>5, TickFits
  <1>6. CASE UNCHANGED vars
    BY <1>6 DEF vars, CInv, Types, QueueFits, RepliesFit, RequestsAreShort, KeptIsShort, LastIsKept
  <1> QED
    BY <1>1, <1>2, <1>3, <1>4, <1>5, <1>6 DEF Next

THEOREM Invariance == Spec => []CInv
  BY InitFits, StepFits, PTL DEF Spec

\* The type invariant of the runs, of which the queue of _health_lock is the part
\* that could go wrong: no waiter is lost or doubled, whoever is cancelled.
THEOREM TypeCorrect == Spec => []TypeOK
  <1>1. CInv => TypeOK
    BY TypeParts DEF CInv
  <1> QED
    BY <1>1, Invariance, PTL

-------------------------------------------------------------------------------
\* An observation that may still be returned.
Recent(observation) ==
    now <= observation.at + Latency
             + IF observation.value = Down THEN FailureLifetime ELSE SuccessLifetime

LEMMA HitsAreRecent ==
    ASSUME CInv
    PROVE  /\ Hit(healthCache) => Recent(Observed(healthCache))
           /\ Hit(identityCache) => Recent(Observed(identityCache))
  <1>1. now \in Nat
    BY DEF CInv, Types, Times
  <1>2. ASSUME Hit(healthCache) PROVE Recent(Observed(healthCache))
    <2>1. healthCache.at \in Nat /\ healthCache.expires \in Nat /\ now < healthCache.expires
      BY <1>2 DEF CInv, Types, Entries, Times, Hit
    <2>2. healthCache.expires <= healthCache.at + Latency + Lifetime(healthCache.value)
      BY <1>2 DEF CInv, KeptIsShort, Hit
    <2> QED
      BY <1>1, <2>1, <2>2, Constants DEF Recent, Observed, Lifetime
  <1>3. ASSUME Hit(identityCache) PROVE Recent(Observed(identityCache))
    <2>1. identityCache.at \in Nat /\ identityCache.expires \in Nat /\ now < identityCache.expires
      BY <1>3 DEF CInv, Types, Entries, Times, Hit
    <2>2. /\ identityCache.value # Down
          /\ identityCache.expires <= identityCache.at + Latency + SuccessLifetime
      BY <1>3 DEF CInv, KeptIsShort, Hit
    <2> QED
      BY <1>1, <2>1, <2>2, Constants DEF Recent, Observed
  <1> QED
    BY <1>2, <1>3

LEMMA RepliesAreRecent ==
    ASSUME CInv, NEW p \in Tasks, pc[p] \in {"answered", "idAnswered"}
    PROVE  Recent(reply[p])
  <1>1. /\ reply[p] \in Observations /\ now <= reply[p].at + Latency
        /\ now \in Nat
    BY Answered DEF CInv, Types, Times
  <1> QED
    BY <1>1, Constants DEF Recent, Observations, Times

\* A step that changes one result leaves the others alone.
LEMMA OneResult ==
    ASSUME CInv, NEW p \in Tasks, NEW observation, Return(p, observation), Recent(observation)
    PROVE  \A t \in Tasks : result'[t] # result[t] => Recent(result'[t])
  BY DEF CInv, Types, Return

\* What a call returns was so a bounded time ago, whatever the lifetimes and the
\* latency: the cache entry it comes from, or the answer, was recent itself.
THEOREM AnswersStayRecent == Spec => AnswersAreRecent
  <1>1. CInv /\ [Next]_vars => [\A p \in Tasks :
          result'[p] # result[p] /\ result'[p] # Nothing =>
             now <= result'[p].at + Latency
                      + IF result'[p].value = Down THEN FailureLifetime
                        ELSE SuccessLifetime]_vars
    <2> SUFFICES ASSUME CInv, Next
                 PROVE  \A t \in Tasks :
                           result'[t] # result[t] /\ result'[t] # Nothing => Recent(result'[t])
      BY DEF Recent
    <2>1. ASSUME NEW p \in Tasks, Proceed(p)
          PROVE  \A t \in Tasks : result'[t] # result[t] => Recent(result'[t])
      <3>1. CASE LookUpHealth(p)
        BY <3>1, HitsAreRecent, OneResult DEF LookUpHealth
      <3>2. CASE HoldLock(p)
        BY <3>2, HitsAreRecent, OneResult DEF HoldLock, KeptMeanwhile
      <3>3. CASE KeepHealth(p)
        BY <3>3, RepliesAreRecent, OneResult DEF KeepHealth
      <3>4. CASE LookUpIdentity(p)
        BY <3>4, HitsAreRecent, OneResult DEF LookUpIdentity
      <3>5. CASE KeepIdentity(p)
        BY <3>5, RepliesAreRecent, OneResult DEF KeepIdentity
      <3>6. CASE CoreAnswers(p)
        BY <3>6 DEF CoreAnswers
      <3> QED
        BY <2>1, <3>1, <3>2, <3>3, <3>4, <3>5, <3>6 DEF Proceed
    <2>2. ASSUME NEW p \in Tasks, NEW operation \in {"health", "identity"}, Call(p, operation)
          PROVE  \A t \in Tasks : result'[t] # result[t] => result'[t] = Nothing
      BY <2>2 DEF CInv, Types, Call
    <2>3. ASSUME \/ \E p \in Tasks : Cancel(p)
                 \/ CoreChanges \/ Tick
          PROVE  result' = result
      BY <2>3 DEF Cancel, CoreChanges, Tick
    <2> QED
      BY <2>1, <2>2, <2>3 DEF Next
  <1> QED
    BY <1>1, Invariance, PTL DEF Spec, AnswersAreRecent

\* FAP-Core's health is asked for by one task at a time, and not while what was
\* observed last still lives: _health_lock is the queue's, and the cache is looked
\* at again under it.
THEOREM ProbesStaySpaced == Spec => ProbesAreSpaced
  <1>1. CInv /\ [Next]_vars => [\A p \in Tasks :
          pc[p] # "asking" /\ pc'[p] = "asking" =>
             /\ now >= validUntil
             /\ \A q \in Tasks : pc[q] \notin {"asking", "answered"}]_vars
    <2> SUFFICES ASSUME CInv, Next, NEW t \in Tasks, pc[t] # "asking", pc'[t] = "asking"
                 PROVE  /\ now >= validUntil
                        /\ \A q \in Tasks : pc[q] \notin {"asking", "answered"}
      OBVIOUS
    <2>1. HoldLock(t) /\ ~KeptMeanwhile
      <3>1. ASSUME NEW p \in Tasks, NEW label, Goto(p, label), label # "asking" PROVE FALSE
        BY <3>1 DEF CInv, Types, Goto
      <3>2. ASSUME NEW p \in Tasks, Proceed(p) PROVE HoldLock(t) /\ ~KeptMeanwhile
        <4>1. CASE HoldLock(p)
          BY <4>1, <3>1 DEF CInv, Types, HoldLock, Return, Ask, Goto
        <4>2. CASE LookUpHealth(p) \/ KeepHealth(p) \/ LookUpIdentity(p) \/ KeepIdentity(p)
          BY <4>2, <3>1 DEF LookUpHealth, KeepHealth, LookUpIdentity, KeepIdentity, Return, Ask
        <4>3. CASE CoreAnswers(p)
          BY <4>3, <3>1 DEF CoreAnswers
        <4> QED
          BY <3>2, <4>1, <4>2, <4>3 DEF Proceed
      <3>3. ASSUME NEW p \in Tasks, Cancel(p) PROVE FALSE
        BY <3>1, <3>3 DEF Cancel
      <3>4. ASSUME NEW p \in Tasks, NEW operation \in {"health", "identity"}, Call(p, operation)
            PROVE  FALSE
        BY <3>1, <3>4 DEF Call
      <3>5. ~CoreChanges /\ ~Tick
        BY DEF CoreChanges, Tick
      <3> QED
        BY <3>2, <3>3, <3>4, <3>5 DEF Next
    <2>2. now >= validUntil
      <3>1. now \in Nat /\ validUntil \in Nat
        BY DEF CInv, Types, Times
      <3>2. CASE healthCache = Nothing
        BY <3>1, <3>2 DEF CInv, LastIsKept
      <3>3. CASE healthCache # Nothing
        BY <2>1, <3>1, <3>3 DEF CInv, LastIsKept, KeptMeanwhile, Hit
      <3> QED
        BY <3>2, <3>3
    <2>3. queue[1] = t
      <3>1. queue # <<>>
        BY <2>1 DEF CInv, QueueFits, HoldLock, Locking
      <3> QED
        BY <2>1, <3>1, LeaveFirst DEF CInv, Types, HoldLock
    <2>4. ASSUME NEW q \in Tasks PROVE pc[q] \notin {"asking", "answered"}
      BY <2>1, <2>3 DEF CInv, QueueFits, HoldLock
    <2> QED
      BY <2>2, <2>4
  <1> QED
    BY <1>1, Invariance, PTL DEF Spec, ProbesAreSpaced
==============================================================================
