-------------------------- MODULE VerifyClaimProofs --------------------------
(***************************************************************************)
(* Proofs about VerifyClaim, for any claims, requests, bodies and commits. *)
(***************************************************************************)
EXTENDS VerifyClaim, TLAPS

\* What the assessment can come to: an authorization needs the trusted boundary
\* and the verified context, and without the boundary there is at most a deferral.
LEMMA AssessFacts ==
    ASSUME NEW in \in AllInputs, NEW trusted \in BOOLEAN
    PROVE  /\ Assess(in, trusted) \in Decisions
           /\ Assess(in, FALSE) \in {Assess(in, trusted), "DEFER"}
           /\ Assess(in, trusted) = "AUTHORIZED" =>
                 trusted /\ in.target = "receipt" /\ ~in.changed
  <1>1. in.target \in {"receipt", "past", "later"} /\ in.changed \in BOOLEAN
    BY DEF AllInputs
  <1>2. Refusal(in) \in {"DENY", "QUARANTINE"}
    BY DEF Refusal
  <1>3. CASE in.target = "past"
    <2>1. Assess(in, trusted) = Refusal(in) /\ Assess(in, FALSE) = Refusal(in)
      BY <1>3 DEF Assess
    <2> QED
      BY <1>2, <2>1 DEF Decisions
  <1>4. CASE in.target # "past" /\ ~trusted
    <2>1. Assess(in, trusted) = "DEFER" /\ Assess(in, FALSE) = "DEFER"
      BY <1>4 DEF Assess
    <2> QED
      BY <2>1 DEF Decisions
  <1>5. CASE in.target # "past" /\ trusted
    <2>1. Assess(in, FALSE) = "DEFER"
      BY <1>5 DEF Assess
    <2>2. Assess(in, trusted) = IF Material(in) THEN Refusal(in) ELSE "AUTHORIZED"
      BY <1>5 DEF Assess, ProofValidated
    <2> QED
      BY <1>1, <1>2, <1>5, <2>1, <2>2 DEF Material, Decisions
  <1> QED
    BY <1>3, <1>4, <1>5

\* The counters stay natural numbers.
LEMMA Bump ==
    ASSUME NEW m \in [Counters -> Nat], NEW f \in Counters, NEW k \in Nat
    PROVE  [m EXCEPT ![f] = @ + k] \in [Counters -> Nat]
  <1>1. m[f] + k \in Nat
    OBVIOUS
  <1> QED
    BY <1>1

LEMMA CountedType ==
    ASSUME NEW m \in [Counters -> Nat], NEW d, NEW connected \in BOOLEAN
    PROVE  Counted(m, d, connected) \in [Counters -> Nat]
  <1> DEFINE b == IF d = "AUTHORIZED" THEN 0 ELSE 1
             k == IF connected THEN 0 ELSE 1
             m1 == [m EXCEPT !["total"] = @ + 1]
             m2 == [m1 EXCEPT !["blocked"] = @ + b]
             m3 == [m2 EXCEPT !["core"] = @ + k]
  <1>1. b \in Nat /\ k \in Nat
    OBVIOUS
  <1>2. Counted(m, d, connected) = m3
    BY DEF Counted, Counters
  <1>3. "total" \in Counters /\ "blocked" \in Counters /\ "core" \in Counters
    BY DEF Counters
  <1> HIDE DEF b, k
  <1>4. m1 \in [Counters -> Nat]
    BY <1>3, Bump
  <1> HIDE DEF m1
  <1>5. m2 \in [Counters -> Nat]
    BY <1>1, <1>3, <1>4, Bump
  <1> HIDE DEF m2
  <1>6. m3 \in [Counters -> Nat]
    BY <1>1, <1>3, <1>5, Bump
  <1> QED
    BY <1>2, <1>6

\* In the middle of a claim no other claim of its request is being handled.
LEMMA OneInFlight ==
    ASSUME VInv, NEW c \in Claims, NEW d \in Claims, TaskOf[c] = TaskOf[d],
           phase[c] \in InFlight, phase[d] \in InFlight
    PROVE  c = d
  BY DEF VInv, ContextIsOwn

\* The status codes of a claim that was assessed.
EndCodes == {200, 400, 403, 409, 500}

\* What the end of a claim does, whichever way it ends.
Concluded(c, trusted) ==
    /\ phase' = [phase EXCEPT ![c] = "done"]
    /\ context' = [context EXCEPT ![TaskOf[c]] = Nothing]
    /\ metrics' \in [Counters -> Nat]
    /\ \E code \in EndCodes :
          /\ answer' = [answer EXCEPT ![c] = code]
          /\ code \in {200, 403, 409} => decision'[c] # Nothing /\ audit'[c] # Nothing
    /\ \E d \in Decisions \union {Nothing} :
          /\ decision' = [decision EXCEPT ![c] = d]
          /\ d = "AUTHORIZED" =>
                trusted /\ input[c].target = "receipt" /\ ~input[c].changed
    /\ \E r \in AllRecords \union {Nothing} :
          /\ audit' = [audit EXCEPT ![c] = r]
          /\ r # Nothing => r.context = c /\ r.decision \in {decision'[c], "DEFER"}

LEMMA ConcludeEffect ==
    ASSUME VInv, NEW c \in Claims, phase[c] \in InFlight,
           NEW trusted \in BOOLEAN, NEW connected \in BOOLEAN,
           NEW m \in [Counters -> Nat],
           Conclude(c, trusted, connected, m)
    PROVE  Concluded(c, trusted)
  <1> USE DEF Concluded
  <1> USE DEF VInv
  <1> DEFINE d == Assess(input[c], trusted)
             e == Assess(input[c], FALSE)
  <1>1. /\ input[c] \in AllInputs
        /\ decision[c] = Nothing /\ audit[c] = Nothing
        /\ decision \in [Claims -> Decisions \union {Nothing}]
        /\ audit \in [Claims -> AllRecords \union {Nothing}]
        /\ answer \in [Claims -> {200, 400, 403, 409, 422, 500, Nothing}]
    BY InputsAssumption DEF TypeOK, OnlyDoneIsDecided, InFlight
  <1>2. /\ d \in Decisions
        /\ e \in Decisions
        /\ e \in {d, "DEFER"}
        /\ d = "AUTHORIZED" => trusted /\ input[c].target = "receipt" /\ ~input[c].changed
    BY <1>1, AssessFacts
  <1>3. Nothing \notin Decisions /\ Nothing \notin AllRecords
    BY NothingAssumption
  <1>4. Recorded(TaskOf[c]) = [context |-> c, decision |-> e]
    <2>1. context[TaskOf[c]] = c /\ c # Nothing
      BY NothingAssumption DEF ContextIsOwn
    <2> QED
      BY <2>1 DEF Recorded
  <1>5. Recorded(TaskOf[c]) \in AllRecords
    <2> HIDE DEF e
    <2> QED
      BY <1>2, <1>4 DEF AllRecords
  <1>6. CASE /\ AssessRaises(input[c])
             /\ metrics' = m
             /\ Leave(c, 500)
             /\ UNCHANGED <<decision, audit>>
    <2>1. decision' = [decision EXCEPT ![c] = Nothing] /\ audit' = [audit EXCEPT ![c] = Nothing]
      BY <1>1, <1>6
    <2>2. /\ phase' = [phase EXCEPT ![c] = "done"]
          /\ context' = [context EXCEPT ![TaskOf[c]] = Nothing]
          /\ answer' = [answer EXCEPT ![c] = 500] /\ 500 \in EndCodes
          /\ 500 \notin {200, 403, 409} /\ metrics' \in [Counters -> Nat]
      BY <1>6 DEF Leave, SetContext, EndCodes
    <2>3. Nothing \in Decisions \union {Nothing} /\ Nothing # "AUTHORIZED"
      BY <1>3 DEF Decisions
    <2>4. \E k \in EndCodes :
                 /\ answer' = [answer EXCEPT ![c] = k]
                 /\ k \in {200, 403, 409} => decision'[c] # Nothing /\ audit'[c] # Nothing
      <3> 500 \in EndCodes
        BY <2>2
      <3> WITNESS 500 \in EndCodes
      <3> QED
        BY <2>2
    <2>5. \E x \in Decisions \union {Nothing} :
                 /\ decision' = [decision EXCEPT ![c] = x]
                 /\ x = "AUTHORIZED" =>
                       trusted /\ input[c].target = "receipt" /\ ~input[c].changed
      BY <2>1, <2>3, Zenon
    <2>6. \E r \in AllRecords \union {Nothing} :
                 /\ audit' = [audit EXCEPT ![c] = r]
                 /\ r # Nothing => r.context = c /\ r.decision \in {decision'[c], "DEFER"}
      <3> WITNESS Nothing \in AllRecords \union {Nothing}
      <3> QED
        BY <2>1
    <2> QED
      BY <2>2, <2>4, <2>5, <2>6
  <1>7. CASE /\ decision' = [decision EXCEPT ![c] = d]
             /\ metrics' = Counted(m, d, connected)
             /\ audit' = [audit EXCEPT ![c] = Recorded(TaskOf[c])]
             /\ \E code \in Codes(d, reply[c]) : Leave(c, code)
    <2>1. PICK code \in Codes(d, reply[c]) : Leave(c, code)
      BY <1>7
    <2>2. code \in EndCodes
      <3>1. CASE d = "DENY"
        BY <3>1, <2>1 DEF Codes, EndCodes
      <3>2. CASE d \in {"DEFER", "QUARANTINE"}
        BY <3>2, <2>1 DEF Codes, EndCodes
      <3>3. CASE d = "AUTHORIZED"
        BY <3>3, <2>1 DEF Codes, EndCodes
      <3> QED
        BY <1>2, <3>1, <3>2, <3>3 DEF Decisions
    <2>3. audit'[c] = Recorded(TaskOf[c]) /\ decision'[c] = d
      BY <1>1, <1>7
    <2>4. metrics' \in [Counters -> Nat]
      BY <1>7, CountedType
    <2>5. \E x \in Decisions \union {Nothing} :
                 /\ decision' = [decision EXCEPT ![c] = x]
                 /\ x = "AUTHORIZED" =>
                       trusted /\ input[c].target = "receipt" /\ ~input[c].changed
      BY <1>2, <1>7
    <2>6. \E r \in AllRecords \union {Nothing} :
                 /\ audit' = [audit EXCEPT ![c] = r]
                 /\ r # Nothing => r.context = c /\ r.decision \in {decision'[c], "DEFER"}
      <3>1. Recorded(TaskOf[c]).context = c /\ Recorded(TaskOf[c]).decision \in {d, "DEFER"}
        <4> HIDE DEF d, e
        <4> QED
          BY <1>2, <1>4
      <3> HIDE DEF d
      <3> QED
        BY <3>1, <1>5, <1>7, <2>3
    <2>7. \E k \in EndCodes :
                 /\ answer' = [answer EXCEPT ![c] = k]
                 /\ k \in {200, 403, 409} => decision'[c] # Nothing /\ audit'[c] # Nothing
      <3>1. decision'[c] # Nothing /\ audit'[c] # Nothing
        BY <2>3, <1>2, <1>3, <1>5
      <3>2. answer' = [answer EXCEPT ![c] = code]
        BY <2>1 DEF Leave
      <3> QED
        BY <2>2, <3>1, <3>2
    <2> QED
      BY <2>1, <2>4, <2>5, <2>6, <2>7 DEF Leave, SetContext
  <1>8. CASE /\ decision' = [decision EXCEPT ![c] = d]
             /\ metrics' = Counted(m, d, connected)
             /\ \E code \in LateCodes(c, connected) : Leave(c, code)
             /\ UNCHANGED audit
    <2>0. PICK code \in {400, 500} : Leave(c, code)
      BY <1>8 DEF LateCodes
    <2>1. audit' = [audit EXCEPT ![c] = Nothing]
      BY <1>1, <1>8
    <2>2. metrics' \in [Counters -> Nat]
      BY <1>8, CountedType
    <2>3. \E x \in Decisions \union {Nothing} :
                 /\ decision' = [decision EXCEPT ![c] = x]
                 /\ x = "AUTHORIZED" =>
                       trusted /\ input[c].target = "receipt" /\ ~input[c].changed
      BY <1>2, <1>8
    <2>4. /\ phase' = [phase EXCEPT ![c] = "done"]
          /\ context' = [context EXCEPT ![TaskOf[c]] = Nothing]
          /\ answer' = [answer EXCEPT ![c] = code]
          /\ code \in EndCodes /\ code \notin {200, 403, 409}
      BY <2>0 DEF Leave, SetContext, EndCodes
    <2>5. \E k \in EndCodes :
                 /\ answer' = [answer EXCEPT ![c] = k]
                 /\ k \in {200, 403, 409} => decision'[c] # Nothing /\ audit'[c] # Nothing
      <3> DEFINE Ends(k) ==
                 /\ answer' = [answer EXCEPT ![c] = k]
                 /\ k \in {200, 403, 409} => decision'[c] # Nothing /\ audit'[c] # Nothing
      <3>1. code \in EndCodes /\ Ends(code)
        BY <2>4
      <3> HIDE DEF Ends
      <3>2. \E k \in EndCodes : Ends(k)
        BY <3>1
      <3> QED
        BY <3>2 DEF Ends
    <2>6. \E r \in AllRecords \union {Nothing} :
                 /\ audit' = [audit EXCEPT ![c] = r]
                 /\ r # Nothing => r.context = c /\ r.decision \in {decision'[c], "DEFER"}
      <3> WITNESS Nothing \in AllRecords \union {Nothing}
      <3> QED
        BY <2>1
    <2> QED
      BY <2>2, <2>3, <2>4, <2>5, <2>6
  <1> QED
    BY <1>6, <1>7, <1>8 DEF Conclude

\* A validated boundary has a receipt, and its commit was reported in health.
LEMMA ValidatedFacts ==
    ASSUME NEW r \in AllReplies, NEW id \in Identities, id \in reported, Validated(r, id)
    PROVE  r.receipt /\ [commit |-> r.commit, healthy |-> TRUE] \in reported
  <1>1. r.receipt /\ id.healthy /\ id.commit = r.commit
    BY DEF Validated
  <1>2. id = [commit |-> r.commit, healthy |-> TRUE]
    BY <1>1 DEF Identities
  <1> QED
    BY <1>1, <1>2

\* A claim that ends keeps the invariant, if what trusted it was reported.
LEMMA ConcludeKeeps ==
    ASSUME VInv, NEW c \in Claims, phase[c] \in InFlight,
           NEW trusted \in BOOLEAN, NEW connected \in BOOLEAN,
           NEW m \in [Counters -> Nat],
           Conclude(c, trusted, connected, m),
           UNCHANGED <<core, input, identity, reported>>,
           reply' \in [Claims -> Replies \union {Nothing}],
           \A d \in Claims : d # c => reply'[d] = reply[d],
           trusted => /\ reply'[c] # Nothing /\ reply'[c].receipt
                      /\ [commit |-> reply'[c].commit, healthy |-> TRUE] \in reported,
           identityCache' \in Identities \union {Nothing},
           identityCache' # Nothing => identityCache' \in reported
    PROVE  VInv'
  <1>0. core' = core /\ input' = input /\ identity' = identity /\ reported' = reported
    OBVIOUS
  <1>1. /\ TypeOK /\ AuthorizedIsEarned /\ AnswersAreOnRecord /\ OnlyDoneIsDecided
        /\ InOrder /\ ContextIsOwn /\ MediaIsThere /\ IdentitiesAreReported /\ RecordsAreOwn
    BY DEF VInv
  <1>c. Concluded(c, trusted)
    BY ConcludeEffect
  <1>2. /\ phase' = [phase EXCEPT ![c] = "done"]
        /\ context' = [context EXCEPT ![TaskOf[c]] = Nothing]
        /\ metrics' \in [Counters -> Nat]
    BY <1>c DEF Concluded
  <1>3. PICK code \in EndCodes : /\ answer' = [answer EXCEPT ![c] = code]
                                 /\ code \in {200, 403, 409} =>
                                       decision'[c] # Nothing /\ audit'[c] # Nothing
    BY <1>c DEF Concluded
  <1>4. PICK x \in Decisions \union {Nothing} :
            /\ decision' = [decision EXCEPT ![c] = x]
            /\ x = "AUTHORIZED" => trusted /\ input[c].target = "receipt" /\ ~input[c].changed
    BY <1>c DEF Concluded
  <1>5. PICK r \in AllRecords \union {Nothing} :
            /\ audit' = [audit EXCEPT ![c] = r]
            /\ r # Nothing => r.context = c /\ r.decision \in {decision'[c], "DEFER"}
    BY <1>c DEF Concluded
  <1>6. /\ phase \in [Claims -> {"sent", "parsed", "done"} \union InFlight]
        /\ context \in [Tasks -> Claims \union {Nothing}]
        /\ decision \in [Claims -> Decisions \union {Nothing}]
        /\ audit \in [Claims -> AllRecords \union {Nothing}]
        /\ answer \in [Claims -> {200, 400, 403, 409, 422, 500, Nothing}]
    BY <1>1 DEF TypeOK
  <1>7. /\ phase'[c] = "done" /\ answer'[c] = code /\ decision'[c] = x /\ audit'[c] = r
        /\ \A d \in Claims \ {c} :
              /\ phase'[d] = phase[d] /\ answer'[d] = answer[d]
              /\ decision'[d] = decision[d] /\ audit'[d] = audit[d]
    BY <1>2, <1>3, <1>4, <1>5, <1>6
  <1>8. TypeOK'
    <2>1. phase' \in [Claims -> {"sent", "parsed", "done"} \union InFlight]
      BY <1>2, <1>6
    <2>2. context' \in [Tasks -> Claims \union {Nothing}]
      BY <1>2, <1>6
    <2>3. decision' \in [Claims -> Decisions \union {Nothing}]
      BY <1>4, <1>6
    <2>4. audit' \in [Claims -> AllRecords \union {Nothing}]
      BY <1>5, <1>6
    <2>5. answer' \in [Claims -> {200, 400, 403, 409, 422, 500, Nothing}]
      BY <1>3, <1>6 DEF EndCodes
    <2>6. \A d \in Claims :
             /\ phase'[d] \in {"verified", "identity", "identified"} => reply'[d] # Nothing
             /\ phase'[d] = "identified" => identity'[d] # Nothing
      BY <1>1, <1>7 DEF TypeOK
    <2> QED
      BY <1>0, <1>1, <1>2, <2>1, <2>2, <2>3, <2>4, <2>5, <2>6 DEF TypeOK
  <1>9. AuthorizedIsEarned'
    <2> SUFFICES ASSUME NEW d \in Claims, decision'[d] = "AUTHORIZED"
                 PROVE  /\ input[d].media
                        /\ input[d].target = "receipt" /\ ~input[d].changed
                        /\ reply'[d] # Nothing /\ reply'[d].receipt
                        /\ [commit |-> reply'[d].commit, healthy |-> TRUE] \in reported
      BY <1>0 DEF AuthorizedIsEarned
    <2>1. CASE d = c
      BY <2>1, <1>1, <1>4, <1>7 DEF MediaIsThere
    <2>2. CASE d # c
      BY <2>2, <1>1, <1>7 DEF AuthorizedIsEarned
    <2> QED
      BY <2>1, <2>2
  <1>10. RecordsAreOwn'
    BY <1>1, <1>5, <1>7 DEF RecordsAreOwn
  <1>11. AnswersAreOnRecord'
    <2> SUFFICES ASSUME NEW d \in Claims, answer'[d] \in {200, 403, 409}
                 PROVE  decision'[d] # Nothing /\ audit'[d] # Nothing
      BY <1>10 DEF AnswersAreOnRecord, RecordsAreOwn
    <2>1. CASE d = c
      <3>1. code \in {200, 403, 409}
        BY <2>1, <1>7
      <3> QED
        BY <3>1, <2>1, <1>3
    <2>2. CASE d # c
      BY <2>2, <1>1, <1>7 DEF AnswersAreOnRecord
    <2> QED
      BY <2>1, <2>2
  <1>12. OnlyDoneIsDecided'
    BY <1>1, <1>7 DEF OnlyDoneIsDecided
  <1>13. InOrder'
    BY <1>1, <1>7 DEF InOrder
  <1>14. ContextIsOwn'
    <2> SUFFICES ASSUME NEW d \in Claims, phase'[d] \in InFlight
                 PROVE  context'[TaskOf[d]] = d
      BY DEF ContextIsOwn
    <2>1. d # c /\ phase[d] \in InFlight
      BY <1>7 DEF InFlight
    <2>2. TaskOf[d] # TaskOf[c]
      BY <2>1, OneInFlight
    <2>3. TaskOf[d] \in Tasks
      BY TaskOfAssumption
    <2> QED
      BY <1>1, <1>2, <1>6, <2>1, <2>2, <2>3 DEF ContextIsOwn
  <1>15. MediaIsThere'
    BY <1>1, <1>7 DEF MediaIsThere, InFlight
  <1>16. IdentitiesAreReported'
    BY <1>1 DEF IdentitiesAreReported
  <1> QED
    BY <1>8, <1>9, <1>10, <1>11, <1>12, <1>13, <1>14, <1>15, <1>16 DEF VInv

LEMMA InitInv == Init => VInv
  <1> SUFFICES ASSUME Init PROVE VInv
    OBVIOUS
  <1>1. TypeOK
    BY DEF Init, TypeOK, Counters, InFlight
  <1> QED
    BY <1>1, NothingAssumption DEF Init, VInv, AuthorizedIsEarned, AnswersAreOnRecord, OnlyDoneIsDecided,
       InOrder, ContextIsOwn, MediaIsThere, IdentitiesAreReported, RecordsAreOwn, InFlight,
       Decisions

\* The bodies and counters of a claim in flight, as the ends of a claim need them.
LEMMA FlightTypes ==
    ASSUME VInv, NEW c \in Claims
    PROVE  /\ phase[c] \in {"verified", "identity", "identified"} =>
                 reply[c] \in AllReplies /\ reply[c].score \in BOOLEAN
           /\ phase[c] = "identified" => identity[c] \in Identities /\ identity[c] \in reported
           /\ identityCache # Nothing => identityCache \in Identities /\ identityCache \in reported
           /\ reply \in [Claims -> Replies \union {Nothing}]
           /\ metrics \in [Counters -> Nat]
  <1>1. TypeOK /\ IdentitiesAreReported
    BY DEF VInv
  <1>2. reply[c] \in Replies \union {Nothing} /\ identity[c] \in Identities \union {Nothing}
    BY <1>1 DEF TypeOK
  <1>3. phase[c] \in {"verified", "identity", "identified"} => reply[c] \in AllReplies
    BY <1>1, <1>2, RepliesAssumption DEF TypeOK
  <1> QED
    BY <1>1, <1>2, <1>3 DEF TypeOK, IdentitiesAreReported, AllReplies

\* Once both of FAP-Core's answers are there, the claim ends as its boundary
\* validation says.
LEMMA ConcludeWithKeeps ==
    ASSUME VInv, NEW c \in Claims, phase[c] \in {"verified", "identified"},
           NEW id \in Identities, id \in reported,
           ConcludeWith(c, id),
           UNCHANGED <<core, input, identity, reported, reply>>,
           identityCache' \in {identityCache, id}
    PROVE  VInv'
  <1> DEFINE trusted == Validated(reply[c], id)
             m1 == [metrics EXCEPT !["trust"] = @ + IF trusted THEN 0 ELSE 1]
             m2 == [m1 EXCEPT !["core"] = @ + IF reply[c].score THEN 0 ELSE 1]
  <1>1. /\ reply[c] \in AllReplies /\ reply[c].score \in BOOLEAN
        /\ reply \in [Claims -> Replies \union {Nothing}]
        /\ metrics \in [Counters -> Nat]
        /\ "trust" \in Counters /\ "core" \in Counters
    BY FlightTypes DEF Counters
  <1>2. trusted \in BOOLEAN
    BY <1>1 DEF Validated, AllReplies, Identities
  <1>3. Conclude(c, trusted, TRUE, m2)
    BY <1>1 DEF ConcludeWith
  <1>4. m1 \in [Counters -> Nat]
    <2>1. (IF trusted THEN 0 ELSE 1) \in Nat
      OBVIOUS
    <2> QED
      BY <1>1, <2>1, Bump
  <1>5. m2 \in [Counters -> Nat]
    <2>1. (IF reply[c].score THEN 0 ELSE 1) \in Nat
      OBVIOUS
    <2> HIDE DEF m1
    <2> QED
      BY <1>1, <1>4, <2>1, Bump
  <1>6. trusted => /\ reply[c] # Nothing /\ reply[c].receipt
                   /\ [commit |-> reply[c].commit, healthy |-> TRUE] \in reported
    BY <1>1, ValidatedFacts, NothingAssumption
  <1>7. phase[c] \in InFlight
    BY DEF InFlight
  <1>8. /\ identityCache' \in Identities \union {Nothing}
        /\ identityCache' # Nothing => identityCache' \in reported
    BY DEF VInv, TypeOK, IdentitiesAreReported
  <1>9. reply' = reply
    OBVIOUS
  <1> HIDE DEF trusted, m1, m2
  <1> QED
    BY <1>1, <1>2, <1>3, <1>5, <1>6, <1>7, <1>8, <1>9, ConcludeKeeps

\* A step that decides, records and answers nothing keeps what was, as long as
\* the bodies of decided claims and the reported identities stay.
LEMMA QuietStep ==
    ASSUME VInv, UNCHANGED <<input, decision, audit, answer>>,
           reported \subseteq reported',
           \A d \in Claims : phase[d] = "done" => reply'[d] = reply[d]
    PROVE  AuthorizedIsEarned' /\ AnswersAreOnRecord' /\ RecordsAreOwn'
  <1>1. input' = input /\ decision' = decision /\ audit' = audit /\ answer' = answer
    OBVIOUS
  <1>2. AuthorizedIsEarned /\ AnswersAreOnRecord /\ RecordsAreOwn /\ OnlyDoneIsDecided
    BY DEF VInv
  <1>3. AuthorizedIsEarned'
    <2> SUFFICES ASSUME NEW d \in Claims, decision[d] = "AUTHORIZED"
                 PROVE  /\ input[d].media
                        /\ input[d].target = "receipt" /\ ~input[d].changed
                        /\ reply'[d] # Nothing /\ reply'[d].receipt
                        /\ [commit |-> reply'[d].commit, healthy |-> TRUE] \in reported'
      BY <1>1 DEF AuthorizedIsEarned
    <2>1. reply'[d] = reply[d]
      BY <1>2, NothingAssumption DEF OnlyDoneIsDecided, Decisions
    <2> QED
      BY <2>1, <1>2 DEF AuthorizedIsEarned
  <1> QED
    BY <1>1, <1>2, <1>3 DEF AnswersAreOnRecord, RecordsAreOwn

\* Only places in the order of a request, its context and its media matter to a
\* claim that moves from one wait to the next.
LEMMA MoveOn ==
    ASSUME VInv, NEW c \in Claims, phase[c] \in InFlight, NEW to \in InFlight,
           phase' = [phase EXCEPT ![c] = to],
           UNCHANGED <<input, context, decision, audit, answer>>
    PROVE  OnlyDoneIsDecided' /\ InOrder' /\ ContextIsOwn' /\ MediaIsThere'
  <1>1. /\ input' = input /\ context' = context /\ decision' = decision
        /\ audit' = audit /\ answer' = answer
    OBVIOUS
  <1>2. phase \in [Claims -> {"sent", "parsed", "done"} \union InFlight]
    BY DEF VInv, TypeOK
  <1>3. phase'[c] = to /\ \A d \in Claims : d # c => phase'[d] = phase[d]
    BY <1>2
  <1>4. to # "done" /\ phase[c] # "done"
    BY DEF InFlight
  <1>5. OnlyDoneIsDecided'
    BY <1>1, <1>3, <1>4 DEF VInv, OnlyDoneIsDecided
  <1>6. InOrder'
    BY <1>3, <1>4 DEF VInv, InOrder
  <1>7. ContextIsOwn'
    BY <1>1, <1>3 DEF VInv, ContextIsOwn
  <1>8. MediaIsThere'
    BY <1>1, <1>3 DEF VInv, MediaIsThere
  <1> QED
    BY <1>5, <1>6, <1>7, <1>8

LEMMA ParseKeeps ==
    ASSUME VInv, NEW t \in Tasks, Parse(t)
    PROVE  VInv'
  <1>1. PICK c \in ClaimsOf(t) : context' = [context EXCEPT ![t] = c]
    BY DEF Parse, SetContext
  <1>2. /\ phase' = [d \in Claims |-> IF TaskOf[d] = t THEN "parsed" ELSE phase[d]]
        /\ \A d \in Claims : TaskOf[d] = t => phase[d] = "sent"
    BY DEF Parse, ClaimsOf
  <1>3. /\ core' = core /\ identityCache' = identityCache /\ input' = input
        /\ reply' = reply /\ identity' = identity /\ decision' = decision
        /\ audit' = audit /\ answer' = answer /\ metrics' = metrics /\ reported' = reported
    BY DEF Parse
  <1>4. TypeOK
    BY DEF VInv
  <1>5. TypeOK'
    <2>1. phase' \in [Claims -> {"sent", "parsed", "done"} \union InFlight]
      BY <1>2, <1>4 DEF TypeOK
    <2>2. context' \in [Tasks -> Claims \union {Nothing}]
      BY <1>1, <1>4 DEF TypeOK, ClaimsOf
    <2>3. \A d \in Claims :
             /\ phase'[d] \in {"verified", "identity", "identified"} => reply'[d] # Nothing
             /\ phase'[d] = "identified" => identity'[d] # Nothing
      BY <1>2, <1>3, <1>4 DEF TypeOK
    <2> QED
      BY <1>3, <1>4, <2>1, <2>2, <2>3 DEF TypeOK
  <1>6. AuthorizedIsEarned' /\ AnswersAreOnRecord' /\ RecordsAreOwn'
    BY <1>3, QuietStep
  <1>7. OnlyDoneIsDecided'
    BY <1>2, <1>3 DEF VInv, OnlyDoneIsDecided
  <1>8. InOrder'
    BY <1>2 DEF VInv, InOrder, InFlight, Before
  <1>9. ContextIsOwn'
    <2> SUFFICES ASSUME NEW d \in Claims, phase'[d] \in InFlight
                 PROVE  context'[TaskOf[d]] = d
      BY DEF ContextIsOwn
    <2>1. TaskOf[d] # t /\ phase[d] \in InFlight
      BY <1>2 DEF InFlight
    <2>2. TaskOf[d] \in Tasks
      BY TaskOfAssumption
    <2> QED
      BY <1>1, <1>4, <2>1, <2>2 DEF VInv, ContextIsOwn, TypeOK
  <1>10. MediaIsThere'
    BY <1>2, <1>3 DEF VInv, MediaIsThere, InFlight
  <1>11. IdentitiesAreReported'
    BY <1>3 DEF VInv, IdentitiesAreReported
  <1> QED
    BY <1>5, <1>6, <1>7, <1>8, <1>9, <1>10, <1>11 DEF VInv

\* At a claim's turn nothing else of its request is being handled.
LEMMA TurnFacts ==
    ASSUME VInv, NEW c \in Claims, MyTurn(c), NEW d \in Claims, TaskOf[d] = TaskOf[c]
    PROVE  phase[d] \notin InFlight
  <1>1. phase[c] = "parsed" /\ "parsed" \notin InFlight \union {"done"} /\ "done" \notin InFlight
    BY DEF MyTurn, InFlight
  <1>2. c = d \/ Before(c, d) \/ Before(d, c)
    BY BatchAssumption
  <1>3. CASE c = d
    BY <1>1, <1>3
  <1>4. CASE Before(c, d)
    BY <1>1, <1>4 DEF VInv, InOrder
  <1>5. CASE Before(d, c)
    BY <1>1, <1>5 DEF MyTurn
  <1> QED
    BY <1>2, <1>3, <1>4, <1>5

LEMMA BeginKeeps ==
    ASSUME VInv, NEW c \in Claims, Begin(c)
    PROVE  VInv'
  <1>1. /\ phase' = [phase EXCEPT ![c] = "sources"]
        /\ context' = [context EXCEPT ![TaskOf[c]] = c]
        /\ core' = core /\ identityCache' = identityCache /\ input' = input
        /\ reply' = reply /\ identity' = identity /\ decision' = decision
        /\ audit' = audit /\ answer' = answer /\ metrics' = metrics /\ reported' = reported
        /\ MyTurn(c) /\ input[c].media
    BY DEF Begin, SetContext
  <1>2. TypeOK
    BY DEF VInv
  <1>3. TaskOf[c] \in Tasks
    BY TaskOfAssumption
  <1>4. phase'[c] = "sources" /\ \A d \in Claims : d # c => phase'[d] = phase[d]
    BY <1>1, <1>2 DEF TypeOK
  <1>5. phase[c] = "parsed" /\ \A d \in Claims : Before(d, c) => phase[d] = "done"
    BY <1>1 DEF MyTurn
  <1>6. TypeOK'
    <2>1. phase' \in [Claims -> {"sent", "parsed", "done"} \union InFlight]
      BY <1>1, <1>2 DEF TypeOK, InFlight
    <2>2. context' \in [Tasks -> Claims \union {Nothing}]
      BY <1>1, <1>2 DEF TypeOK
    <2>3. \A d \in Claims :
             /\ phase'[d] \in {"verified", "identity", "identified"} => reply'[d] # Nothing
             /\ phase'[d] = "identified" => identity'[d] # Nothing
      BY <1>1, <1>2, <1>4 DEF TypeOK
    <2> QED
      BY <1>1, <1>2, <2>1, <2>2, <2>3 DEF TypeOK
  <1>7. AuthorizedIsEarned' /\ AnswersAreOnRecord' /\ RecordsAreOwn'
    BY <1>1, QuietStep
  <1>8. OnlyDoneIsDecided'
    BY <1>1, <1>4, <1>5 DEF VInv, OnlyDoneIsDecided
  <1>9. InOrder'
    <2> SUFFICES ASSUME NEW d \in Claims, NEW e \in Claims, Before(d, e),
                        phase'[e] \in InFlight \union {"done"}
                 PROVE  phase'[d] = "done"
      BY DEF InOrder, Before
    <2>1. phase[d] = "done"
      <3>1. CASE e = c
        BY <3>1, <1>5
      <3>2. CASE e # c
        BY <3>2, <1>4 DEF VInv, InOrder
      <3> QED
        BY <3>1, <3>2
    <2> QED
      BY <2>1, <1>4, <1>5
  <1>10. ContextIsOwn'
    <2> SUFFICES ASSUME NEW d \in Claims, phase'[d] \in InFlight
                 PROVE  context'[TaskOf[d]] = d
      BY DEF ContextIsOwn
    <2>1. CASE d = c
      BY <2>1, <1>1, <1>2, <1>3 DEF TypeOK
    <2>2. CASE d # c
      <3>1. phase[d] \in InFlight
        BY <2>2, <1>4
      <3>2. TaskOf[d] # TaskOf[c] /\ TaskOf[d] \in Tasks
        BY <3>1, <1>1, TurnFacts, TaskOfAssumption
      <3> QED
        BY <3>1, <3>2, <1>1, <1>2 DEF VInv, ContextIsOwn, TypeOK
    <2> QED
      BY <2>1, <2>2
  <1>11. MediaIsThere'
    BY <1>1, <1>4 DEF VInv, MediaIsThere
  <1>12. IdentitiesAreReported'
    BY <1>1 DEF VInv, IdentitiesAreReported
  <1> QED
    BY <1>6, <1>7, <1>8, <1>9, <1>10, <1>11, <1>12 DEF VInv

\* A claim that is rejected, or whose receipt or sources raise, ends undecided.
LEMMA UndecidedKeeps ==
    ASSUME VInv, NEW c \in Claims, Reject(c) \/ IngestRaises(c) \/ SourcesRaise(c)
    PROVE  VInv'
  <1>1. PICK code \in {400, 422, 500} :
        /\ phase' = [phase EXCEPT ![c] = "done"]
        /\ context' = [context EXCEPT ![TaskOf[c]] = Nothing]
        /\ answer' = [answer EXCEPT ![c] = code]
        /\ core' = core /\ identityCache' = identityCache /\ input' = input
        /\ reply' = reply /\ identity' = identity /\ decision' = decision
        /\ audit' = audit /\ metrics' = metrics /\ reported' = reported
        /\ MyTurn(c) \/ phase[c] = "sources"
    BY DEF Reject, IngestRaises, SourcesRaise, Leave, SetContext
  <1>2. TypeOK
    BY DEF VInv
  <1>3. /\ phase'[c] = "done" /\ answer'[c] = code
        /\ \A d \in Claims : d # c => phase'[d] = phase[d] /\ answer'[d] = answer[d]
    BY <1>1, <1>2 DEF TypeOK
  <1>4. phase[c] \in {"parsed", "sources"} /\ \A d \in Claims : Before(d, c) => phase[d] = "done"
    BY <1>1 DEF MyTurn, VInv, InOrder, InFlight
  <1>5. TypeOK'
    <2>1. phase' \in [Claims -> {"sent", "parsed", "done"} \union InFlight]
      BY <1>1, <1>2 DEF TypeOK
    <2>2. context' \in [Tasks -> Claims \union {Nothing}]
      BY <1>1, <1>2 DEF TypeOK
    <2>3. answer' \in [Claims -> {200, 400, 403, 409, 422, 500, Nothing}]
      BY <1>1, <1>2 DEF TypeOK
    <2>4. \A d \in Claims :
             /\ phase'[d] \in {"verified", "identity", "identified"} => reply'[d] # Nothing
             /\ phase'[d] = "identified" => identity'[d] # Nothing
      BY <1>1, <1>2, <1>3 DEF TypeOK
    <2> QED
      BY <1>1, <1>2, <2>1, <2>2, <2>3, <2>4 DEF TypeOK
  <1>6. AuthorizedIsEarned' /\ RecordsAreOwn'
    BY <1>1 DEF VInv, AuthorizedIsEarned, RecordsAreOwn
  <1>7. AnswersAreOnRecord'
    <2>1. decision[c] = Nothing
      BY <1>4 DEF VInv, OnlyDoneIsDecided
    <2> QED
      BY <1>1, <1>3, <2>1 DEF VInv, AnswersAreOnRecord
  <1>8. OnlyDoneIsDecided'
    BY <1>1, <1>3 DEF VInv, OnlyDoneIsDecided
  <1>9. InOrder'
    BY <1>3, <1>4 DEF VInv, InOrder
  <1>10. ContextIsOwn'
    <2> SUFFICES ASSUME NEW d \in Claims, phase'[d] \in InFlight
                 PROVE  context'[TaskOf[d]] = d
      BY DEF ContextIsOwn
    <2>0. phase'[d] \in InFlight
      OBVIOUS
    <2>1. phase[d] \in InFlight
      BY <1>3 DEF InFlight
    <2>2. TaskOf[d] # TaskOf[c] /\ TaskOf[d] \in Tasks
      <3>1. CASE MyTurn(c)
        BY <2>1, <3>1, TurnFacts, TaskOfAssumption
      <3>2. CASE phase[c] = "sources"
        <4>1. d # c
          BY <1>3, <2>0 DEF InFlight
        <4> QED
          BY <2>1, <3>2, <4>1, OneInFlight, TaskOfAssumption DEF InFlight
      <3> QED
        BY <1>1, <3>1, <3>2
    <2> QED
      BY <2>1, <2>2, <1>1, <1>2 DEF VInv, ContextIsOwn, TypeOK
  <1>11. MediaIsThere'
    BY <1>1, <1>3 DEF VInv, MediaIsThere, InFlight
  <1>12. IdentitiesAreReported'
    BY <1>1 DEF VInv, IdentitiesAreReported
  <1> QED
    BY <1>5, <1>6, <1>7, <1>8, <1>9, <1>10, <1>11, <1>12 DEF VInv

\* The steps that only wait for the next answer.
LEMMA WaitKeeps ==
    ASSUME VInv, NEW c \in Claims,
           \/ ObserveLocally(c)
           \/ \E r \in Replies : CoreVerifies(c, r)
           \/ CoreIdentifies(c)
           \/ VerifyReturns(c) /\ identityCache = Nothing
    PROVE  VInv'
  <1>1. TypeOK /\ IdentitiesAreReported
    BY DEF VInv
  <1>2. /\ context' = context /\ core' = core /\ identityCache' = identityCache
        /\ input' = input /\ decision' = decision /\ audit' = audit
        /\ answer' = answer /\ metrics' = metrics
    BY DEF ObserveLocally, CoreVerifies, CoreIdentifies, VerifyReturns
  <1>3. /\ reported \subseteq reported' /\ reported' \subseteq Identities
        /\ identity' \in [Claims -> Identities \union {Nothing}]
        /\ \A d \in Claims : identity'[d] # Nothing => identity'[d] \in reported'
    <2>1. CASE CoreIdentifies(c)
      BY <2>1, <1>1 DEF CoreIdentifies, TypeOK, IdentitiesAreReported
    <2>2. CASE ~CoreIdentifies(c)
      <3>1. identity' = identity /\ reported' = reported
        BY <2>2 DEF ObserveLocally, CoreVerifies, VerifyReturns
      <3> QED
        BY <3>1, <1>1 DEF TypeOK, IdentitiesAreReported
    <2> QED
      BY <2>1, <2>2
  <1>4. PICK to \in InFlight :
            /\ phase[c] \in InFlight
            /\ phase' = [phase EXCEPT ![c] = to]
            /\ to \in {"verified", "identity", "identified"} => reply'[c] # Nothing
            /\ to = "identified" => identity'[c] # Nothing
    <2>1. CASE ObserveLocally(c)
      BY <2>1 DEF ObserveLocally, InFlight
    <2>2. CASE \E r \in Replies : CoreVerifies(c, r)
      <3>1. PICK r \in Replies : CoreVerifies(c, r)
        BY <2>2
      <3>2. reply'[c] # Nothing
        BY <3>1, <1>1, RepliesAssumption, NothingAssumption DEF CoreVerifies, TypeOK
      <3> QED
        BY <3>1, <3>2 DEF CoreVerifies, InFlight
    <2>3. CASE CoreIdentifies(c)
      <3>1. identity'[c] # Nothing
        BY <2>3, <1>1, NothingAssumption DEF CoreIdentifies, TypeOK
      <3>2. reply'[c] # Nothing
        BY <2>3, <1>1 DEF CoreIdentifies, TypeOK
      <3> QED
        BY <2>3, <3>1, <3>2 DEF CoreIdentifies, InFlight
    <2>4. CASE VerifyReturns(c) /\ identityCache = Nothing
      <3>1. reply'[c] # Nothing
        BY <2>4, <1>1 DEF VerifyReturns, TypeOK
      <3> QED
        BY <2>4, <3>1 DEF VerifyReturns, InFlight
    <2> QED
      BY <2>1, <2>2, <2>3, <2>4
  <1>5. /\ reply' \in [Claims -> Replies \union {Nothing}]
        /\ \A d \in Claims : d # c => reply'[d] = reply[d]
    BY <1>1 DEF ObserveLocally, CoreVerifies, CoreIdentifies, VerifyReturns, TypeOK
  <1>6. \A d \in Claims : d # c => identity'[d] = identity[d] /\ phase'[d] = phase[d]
    <2>1. \A d \in Claims : d # c => phase'[d] = phase[d]
      BY <1>1, <1>4 DEF TypeOK
    <2> QED
      BY <2>1, <1>1 DEF ObserveLocally, CoreVerifies, CoreIdentifies, VerifyReturns, TypeOK
  <1>7. TypeOK'
    <2>1. phase' \in [Claims -> {"sent", "parsed", "done"} \union InFlight]
      BY <1>1, <1>4 DEF TypeOK
    <2>2. phase'[c] = to
      BY <1>1, <1>4 DEF TypeOK
    <2>3. \A d \in Claims :
             /\ phase'[d] \in {"verified", "identity", "identified"} => reply'[d] # Nothing
             /\ phase'[d] = "identified" => identity'[d] # Nothing
      <3> TAKE d \in Claims
      <3>1. CASE d = c
        BY <3>1, <2>2, <1>4
      <3>2. CASE d # c
        BY <3>2, <1>1, <1>5, <1>6 DEF TypeOK
      <3> QED
        BY <3>1, <3>2
    <2> QED
      BY <1>1, <1>2, <1>3, <1>5, <2>1, <2>3 DEF TypeOK
  <1>8. AuthorizedIsEarned' /\ AnswersAreOnRecord' /\ RecordsAreOwn'
    <2>1. \A d \in Claims : phase[d] = "done" => reply'[d] = reply[d]
      BY <1>4, <1>5 DEF InFlight
    <2> QED
      BY <2>1, <1>2, <1>3, QuietStep
  <1>9. OnlyDoneIsDecided' /\ InOrder' /\ ContextIsOwn' /\ MediaIsThere'
    BY <1>2, <1>4, MoveOn
  <1>10. IdentitiesAreReported'
    BY <1>1, <1>2, <1>3 DEF IdentitiesAreReported
  <1> QED
    BY <1>7, <1>8, <1>9, <1>10 DEF VInv

\* FAP-Core's outages end a claim without its boundary.
LEMMA FailureKeeps ==
    ASSUME VInv, NEW c \in Claims, VerifyFails(c) \/ IdentityFails(c)
    PROVE  VInv'
  <1>1. /\ TypeOK /\ IdentitiesAreReported
        /\ reply \in [Claims -> Replies \union {Nothing}] /\ metrics \in [Counters -> Nat]
        /\ "identity" \in Counters /\ "core" \in Counters
    BY FlightTypes DEF VInv, Counters
  <1>2. /\ core' = core /\ input' = input /\ identity' = identity
        /\ reported' = reported /\ identityCache' = identityCache
        /\ phase[c] \in InFlight
    BY DEF VerifyFails, IdentityFails, InFlight
  <1>3. /\ reply' \in [Claims -> Replies \union {Nothing}]
        /\ \A d \in Claims : d # c => reply'[d] = reply[d]
    BY <1>1 DEF VerifyFails, IdentityFails
  <1>4. \E connected \in BOOLEAN, m \in [Counters -> Nat] : Conclude(c, FALSE, connected, m)
    <2>1. CASE VerifyFails(c)
      <3> DEFINE m == [metrics EXCEPT !["core"] = @ + 1]
      <3>1. Conclude(c, FALSE, FALSE, m)
        BY <2>1 DEF VerifyFails
      <3>2. m \in [Counters -> Nat]
        BY <1>1, Bump
      <3> HIDE DEF m
      <3> QED
        BY <3>1, <3>2
    <2>2. CASE IdentityFails(c)
      <3> DEFINE k == IF reply[c].score THEN 0 ELSE 1
                 m1 == [metrics EXCEPT !["identity"] = @ + 1]
                 m == [m1 EXCEPT !["core"] = @ + k]
      <3>1. Conclude(c, FALSE, TRUE, m)
        BY <2>2, <1>1 DEF IdentityFails
      <3>2. m1 \in [Counters -> Nat]
        BY <1>1, Bump
      <3>3. k \in Nat
        OBVIOUS
      <3> HIDE DEF m1, k
      <3>4. m \in [Counters -> Nat]
        BY <1>1, <3>2, <3>3, Bump
      <3> HIDE DEF m
      <3> QED
        BY <3>1, <3>4
    <2> QED
      BY <2>1, <2>2
  <1>5. PICK connected \in BOOLEAN, m \in [Counters -> Nat] : Conclude(c, FALSE, connected, m)
    BY <1>4
  <1>6. /\ identityCache' \in Identities \union {Nothing}
        /\ identityCache' # Nothing => identityCache' \in reported
    BY <1>1, <1>2 DEF TypeOK, IdentitiesAreReported
  <1> QED
    BY <1>2, <1>3, <1>5, <1>6, ConcludeKeeps

\* What happens outside the claims: FAP-Core is redeployed, the cache expires.
LEMMA ElsewhereKeeps ==
    ASSUME VInv, ExpireIdentity \/ Redeploy \/ UNCHANGED vars
    PROVE  VInv'
  <1>1. /\ input' = input /\ phase' = phase /\ reply' = reply /\ identity' = identity
        /\ context' = context /\ decision' = decision /\ audit' = audit
        /\ answer' = answer /\ metrics' = metrics /\ reported' = reported
        /\ identityCache' \in {identityCache, Nothing}
        /\ core' \in Identities
    BY DEF ExpireIdentity, Redeploy, vars, VInv, TypeOK
  <1>2. TypeOK'
    BY <1>1 DEF VInv, TypeOK
  <1>3. AuthorizedIsEarned' /\ AnswersAreOnRecord' /\ RecordsAreOwn'
    BY <1>1, QuietStep
  <1>4. OnlyDoneIsDecided' /\ InOrder' /\ ContextIsOwn' /\ MediaIsThere'
    BY <1>1 DEF VInv, OnlyDoneIsDecided, InOrder, ContextIsOwn, MediaIsThere
  <1>5. IdentitiesAreReported'
    BY <1>1 DEF VInv, IdentitiesAreReported
  <1> QED
    BY <1>2, <1>3, <1>4, <1>5 DEF VInv

LEMMA StepInv == VInv /\ [Next]_vars => VInv'
  <1> SUFFICES ASSUME VInv, [Next]_vars PROVE VInv'
    OBVIOUS
  <1>1. ASSUME NEW c \in Claims, Parse(TaskOf[c]) PROVE VInv'
    BY <1>1, TaskOfAssumption, ParseKeeps
  <1>2. ASSUME NEW c \in Claims, Reject(c) \/ IngestRaises(c) \/ SourcesRaise(c) PROVE VInv'
    BY <1>2, UndecidedKeeps
  <1>3. ASSUME NEW c \in Claims, Begin(c) PROVE VInv'
    BY <1>3, BeginKeeps
  <1>4. ASSUME NEW c \in Claims,
               \/ ObserveLocally(c)
               \/ \E r \in Replies : CoreVerifies(c, r)
               \/ CoreIdentifies(c)
        PROVE  VInv'
    BY <1>4, WaitKeeps
  <1>5. ASSUME NEW c \in Claims, VerifyReturns(c) PROVE VInv'
    <2>1. CASE identityCache = Nothing
      BY <1>5, <2>1, WaitKeeps
    <2>2. CASE identityCache # Nothing
      <3>1. /\ phase[c] = "verified" /\ ConcludeWith(c, identityCache)
            /\ UNCHANGED <<core, input, identity, reported, reply>>
            /\ identityCache' = identityCache
        BY <1>5, <2>2 DEF VerifyReturns
      <3>2. identityCache \in Identities /\ identityCache \in reported
        BY <2>2, FlightTypes
      <3> QED
        BY <3>1, <3>2, ConcludeWithKeeps
    <2> QED
      BY <2>1, <2>2
  <1>6. ASSUME NEW c \in Claims, VerifyFails(c) \/ IdentityFails(c) PROVE VInv'
    BY <1>6, FailureKeeps
  <1>7. ASSUME NEW c \in Claims, IdentityReturns(c) PROVE VInv'
    <2>1. /\ phase[c] = "identified" /\ ConcludeWith(c, identity[c])
          /\ UNCHANGED <<core, input, identity, reported, reply>>
          /\ identityCache' = identity[c]
      BY <1>7 DEF IdentityReturns
    <2>2. identity[c] \in Identities /\ identity[c] \in reported
      BY <2>1, FlightTypes
    <2> QED
      BY <2>1, <2>2, ConcludeWithKeeps
  <1>8. CASE ExpireIdentity \/ Redeploy \/ UNCHANGED vars
    BY <1>8, ElsewhereKeeps
  <1> QED
    BY <1>1, <1>2, <1>3, <1>4, <1>5, <1>6, <1>7, <1>8 DEF Next, Handle

-------------------------------------------------------------------------------
\* The inductive invariant holds of every run of the handlers.
THEOREM VInvariance == Spec => []VInv
  <1> QED
    BY InitInv, StepInv, PTL DEF Spec

\* Every variable has its type in every reachable state.
THEOREM VTypeCorrect == Spec => []TypeOK
  <1>1. VInv => TypeOK
    BY DEF VInv
  <1> QED
    BY <1>1, VInvariance, PTL

\* However many claims, requests and redeployments are in play, nothing but a
\* valid receipt of a commit reported in health authorizes a claim, and only in
\* the context it was verified in.
THEOREM AuthorizationIsEarned == Spec => []AuthorizedIsEarned
  <1>1. VInv => AuthorizedIsEarned
    BY DEF VInv
  <1> QED
    BY <1>1, VInvariance, PTL

\* Every claim answered with a decision was decided and is in the ledger, and what is
\* in the ledger of a claim was made from its own context: in every interleaving of
\* any number of requests and batches, wherever a claim fails.
THEOREM AnswersRecorded == Spec => []AnswersAreOnRecord
  <1>1. VInv => AnswersAreOnRecord
    BY DEF VInv
  <1> QED
    BY <1>1, VInvariance, PTL

-------------------------------------------------------------------------------
(***************************************************************************)
(* The assessment a handler makes is EpmAdapter's.                         *)
(***************************************************************************)
Adapter == INSTANCE EpmAdapterProofs

\* A body as EpmAdapter has it is reduced to what steers the handler.
StandsFor(in, body, received_at) ==
    LET source == Adapter!Source(received_at)
        target == Adapter!Target(body, received_at)
    IN  /\ in.target = "past" <=> target.at < received_at
        /\ in.target = "later" <=> target.at > received_at
        /\ in.changed <=> \E field \in Adapter!ContextFields \ {"at"} : target[field] # source[field]
        /\ in.critical <=> body.consequence = "critical"
        /\ in.proof = "none" <=> body.proof = Nothing

\* What the handler decides by the few cases it has of a body is what the adapter and the
\* assurance engine come to field by field: for every body, however its fields are given.
THEOREM AssessmentIsAdapters ==
    ASSUME NEW in \in AllInputs, NEW trusted \in BOOLEAN,
           NEW body, Adapter!IsMapping(body.proof), NEW e, NEW received_at \in Int,
           Adapter!Target(body, received_at).at \in Int, StandsFor(in, body, received_at),
           NEW availability, Adapter!IsIngested(availability, e, received_at),
           NEW vouched, trusted <=> e \in vouched, ~AssessRaises(in)
    PROVE  Assess(in, trusted) =
             Adapter!AssessFap(Adapter!Request(body, e, availability, received_at), vouched).decision
  <1> DEFINE source == Adapter!Source(received_at)
             target == Adapter!Target(body, received_at)
             ruling == Adapter!AssessFap(Adapter!Request(body, e, availability, received_at),
                                         vouched).decision
  <1>1. ruling = IF target.at < received_at THEN Adapter!Refusal(body.consequence)
                 ELSE IF e \notin vouched THEN "DEFER"
                 ELSE IF target # source THEN Adapter!Refusal(body.consequence)
                 ELSE "AUTHORIZED"
    BY Adapter!Decided
  <1>2. /\ DOMAIN source = Adapter!ContextFields /\ source.at = received_at
        /\ source = [field \in Adapter!ContextFields |-> source[field]]
    BY Adapter!SourceIsCarriers DEF Adapter!Source
  <1>3. target = [field \in Adapter!ContextFields |-> target[field]]
    BY <1>2 DEF Adapter!Target
  <1>4. target = source <=> \A field \in Adapter!ContextFields : target[field] = source[field]
    BY <1>2, <1>3
  <1>5. "at" \in Adapter!ContextFields
    BY DEF Adapter!ContextFields
  <1>6. Adapter!Refusal(body.consequence) = Refusal(in)
    BY DEF Adapter!Refusal, Refusal, StandsFor, AllInputs
  <1>7. target.at \in Int
    OBVIOUS
  <1>8. /\ in.target = "past" <=> target.at < received_at
        /\ in.target = "later" <=> target.at > received_at
        /\ in.changed <=> \E field \in Adapter!ContextFields \ {"at"} : target[field] # source[field]
    BY DEF StandsFor
  <1> HIDE DEF source, target, ruling
  <1>9. in.target # "past" => (Material(in) <=> target # source)
    <2>1. in.target # "past" => (in.target = "later" <=> target.at # source.at)
      BY <1>2, <1>7, <1>8
    <2>2. target # source
             <=> target.at # source.at
                 \/ \E field \in Adapter!ContextFields \ {"at"} : target[field] # source[field]
      BY <1>4, <1>5
    <2> QED
      BY <1>8, <2>1, <2>2 DEF Material, AllInputs
  <1>10. Assess(in, trusted) = ruling
    BY <1>1, <1>6, <1>8, <1>9, Zenon DEF Assess, ProofValidated
  <1> QED
    BY <1>10 DEF ruling
==============================================================================
