\* One batch: is an unavailable FAP-Core counted once per claim?
CONSTANTS
    c1 = c1  c2 = c2  c3 = c3  batch = batch  single = single  a = a  b = b
    Nothing = Nothing
    Claims <- MCPair
    Tasks <- MCBatch
    TaskOf <- MCTaskOf
    Position <- MCPosition
    Commits <- MCOne
    Inputs <- MCFewInputs
    Replies <- MCFewReplies
SPECIFICATION Spec
INVARIANTS CoreCountedOnce
