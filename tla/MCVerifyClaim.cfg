\* Two requests of one claim each; every kind of body, receipts good or bad, scores usable or not, two commits.
CONSTANTS
    c1 = c1  c2 = c2  c3 = c3  batch = batch  single = single  a = a  b = b
    Nothing = Nothing
    Claims <- MCPair
    Tasks <- MCTasks
    TaskOf <- MCTaskOfPair
    Position <- MCPosition
    Commits <- MCCommits
    Inputs <- MCInputs
    Replies <- MCReplies
SPECIFICATION Spec
INVARIANTS TypeOK AuthorizedIsEarned
