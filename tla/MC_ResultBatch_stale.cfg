\* deleteexpiredresults against a concurrent review (expected to fail).
CONSTANTS
    r1 = r1
    r2 = r2
    g1 = g1
    g2 = g2
    ResultIds <- MCResultIds
    Guids <- MCGuids
    NotifiedDays <- MCNotifiedDays
    Today0 = 548
    MaxDay = 549
    MaxReviews = 1
    NoTime = NoTime
SPECIFICATION Spec
\* The client process exits and reviews and the clock are bounded.
CHECK_DEADLOCK FALSE
PROPERTY
    DeleteReachesExpired
