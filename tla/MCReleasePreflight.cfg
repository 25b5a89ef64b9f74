\* One release: does anything reach Render before the preflight has passed?
CONSTANTS
    old = old  main1 = main1  main2 = main2
    Nothing = Nothing
    Shas <- MCShas
    Releases <- MCReleases
    PageSize = 2
    MaxRuns = 1
    MaxPushes = 1
SPECIFICATION Spec
INVARIANTS PreflightFirst
CHECK_DEADLOCK FALSE
