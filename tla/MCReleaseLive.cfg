\* One release under the fairness of its own deadlines.
CONSTANTS
    old = old  main1 = main1  main2 = main2
    Nothing = Nothing
    Shas <- MCShas
    Releases <- MCReleases
    PageSize = 2
    MaxRuns = 1
    MaxPushes = 1
SPECIFICATION FairSpec
PROPERTIES ReleaseEnds
CHECK_DEADLOCK FALSE
