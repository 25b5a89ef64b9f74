\* One claim: does evaluating the solar source ever raise?
CONSTANTS
    c1 = c1  c2 = c2
    Nothing = Nothing
    Claims <- MCEnrolled
    Enrolled <- MCEnrolled
    TTL = 2
    Latency = 1
    SolarScores <- MCSolar
    CoreScores <- MCCore
    MaxTime = 4
SPECIFICATION Spec
INVARIANTS SolarNeverRaises
CHECK_DEADLOCK FALSE
