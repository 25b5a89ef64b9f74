---------------------------- MODULE MCVerifyClaim ----------------------------
(* Instances of VerifyClaim for TLC. *)
EXTENDS VerifyClaim

CONSTANTS c1, c2, c3, batch, single, a, b

MCClaims  == {c1, c2, c3}
MCPair    == {c1, c2}
MCTasks   == {batch, single}
MCBatch   == {batch}
MCCommits == {a, b}
MCOne     == {a}

\* c1 and c2 are a batch, c3 comes alone.
MCTaskOf   == [c \in Claims |-> IF c = c3 THEN single ELSE batch]
MCPosition == [c \in Claims |-> IF c = c2 THEN 2 ELSE 1]

\* c1 and c2 come alone.
MCTaskOfPair == [c \in Claims |-> IF c = c2 THEN single ELSE batch]

Body(media, target, changed, critical, proof) ==
    [media |-> media, target |-> target, changed |-> changed,
     critical |-> critical, proof |-> proof]

MCPlain == Body(TRUE, "receipt", FALSE, FALSE, "none")

\* One body for each way through the handler.
MCInputs ==
    {MCPlain, Body(TRUE, "past", FALSE, TRUE, "none"),
     Body(FALSE, "receipt", FALSE, FALSE, "none"),
     Body(TRUE, "past", TRUE, FALSE, "malformed"),
     Body(TRUE, "later", FALSE, FALSE, "raw"),
     Body(TRUE, "receipt", TRUE, TRUE, "raw"),
     Body(TRUE, "receipt", FALSE, FALSE, "malformed")}
MCFewInputs == {MCPlain, Body(FALSE, "receipt", FALSE, FALSE, "none")}

MCReplies ==
    [receipt : {TRUE}, commit : Commits, score : {TRUE}, rest : {TRUE}]
        \union [receipt : BOOLEAN, commit : {a}, score : {FALSE}, rest : {TRUE}]
MCFewReplies == [receipt : {TRUE}, commit : {a}, score : {TRUE}, rest : BOOLEAN]

-------------------------------------------------------------------------------
Adapter == INSTANCE EpmAdapter

\* A proof that says everything it could, and says it is validated.
Boast ==
    [property |-> Nothing, transition_id |-> Nothing, rule_id |-> "carrier-default",
     rule_version |-> "1", authority |-> "carrier-authority", evidence |-> TRUE, valid |-> TRUE,
     source_purpose |-> Nothing, target_purpose |-> Nothing, source_scope |-> Nothing,
     target_scope |-> Nothing, source_jurisdiction |-> Nothing, target_jurisdiction |-> Nothing]

\* A body VerifyClaim's stands for, received at 10; it changes the field if any.
Concrete(in, field) ==
    LET said == [purpose |-> Nothing, scope |-> Nothing, jurisdiction |-> Nothing, at |-> Nothing,
                 rule_id |-> Nothing, rule_version |-> Nothing, rule_authority |-> Nothing,
                 consequence |-> IF in.critical THEN "critical" ELSE "standard",
                 proof |-> IF in.proof = "raw" THEN Boast ELSE Nothing]
    IN  [said EXCEPT !.at = CASE in.target = "past"  -> 9
                              [] in.target = "later" -> 11
                              [] OTHER               -> @,
                     ![field] = IF in.changed THEN "other" ELSE @]

\* VerifyClaim's Assess, by the few cases that matter to a handler, is what the adapter
\* and the engine come to field by field, whichever field of the context changes.
ASSUME AssessmentAgrees ==
    \A in \in AllInputs, trusted \in BOOLEAN,
       field \in {"purpose", "scope", "jurisdiction", "rule_id", "rule_version", "rule_authority"} :
        LET request == Adapter!Request(Concrete(in, field), "evidence",
                           Adapter!Availability([evidence_id |-> "evidence", received_at |-> 10,
                                                 observed_at |-> 10]), 10)
            vouched == IF trusted THEN {"evidence"} ELSE {}
        IN  ~AssessRaises(in) =>
              Assess(in, trusted) = Adapter!AssessFap(request, vouched).decision
==============================================================================
