\* Two tasks; successes live shorter than failures.
CONSTANTS
    p = p  q = q  a = a
    Down = Down  Nothing = Nothing
    Tasks <- MCTasks
    Commits <- MCCommits
    SuccessLifetime = 1
    FailureLifetime = 3
    Latency = 1
    MaxTime = 4
SPECIFICATION FairSpec
INVARIANTS TypeOK
PROPERTIES AnswersAreRecent ProbesAreSpaced CallsReturn
