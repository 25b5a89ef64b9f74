\* A batch of two claims and a single claim, fairly scheduled and interleaved;
\* one commit.
CONSTANTS
    c1 = c1  c2 = c2  c3 = c3  batch = batch  single = single  a = a  b = b
    Nothing = Nothing
    Claims <- MCClaims
    Tasks <- MCTasks
    TaskOf <- MCTaskOf
    Position <- MCPosition
    Commits <- MCOne
    Inputs <- MCFewInputs
    Replies <- MCFewReplies
SPECIFICATION FairSpec
INVARIANTS AnswersAreOnRecord
PROPERTIES ClaimsAnswered
