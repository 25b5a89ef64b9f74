\* Two releases in a row, one push; deaths, lost answers, failing deploys.
CONSTANTS
    old = old  main1 = main1  main2 = main2
    Nothing = Nothing
    Shas <- MCShas
    Releases <- MCReleases
    PageSize = 2
    MaxRuns = 2
    MaxPushes = 1
SPECIFICATION Spec
SYMMETRY MergeSymmetry
INVARIANTS TypeOK VerifiedIsServed ProbeFitsRuntime RolledBackIsFinal
CHECK_DEADLOCK FALSE
