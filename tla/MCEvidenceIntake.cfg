\* Two claims, one from an enrolled device.
CONSTANTS
    c1 = c1  c2 = c2
    Nothing = Nothing
    Claims <- MCClaims
    Enrolled <- MCEnrolled
    TTL = 2
    Latency = 1
    SolarScores <- MCSolar
    CoreScores <- MCCore
    MaxTime = 4
SPECIFICATION Spec
INVARIANTS TypeOK OutcomesAreRecent FailureNeverHelps StrictIsCorroborated DegradationsAgree
CHECK_DEADLOCK FALSE
