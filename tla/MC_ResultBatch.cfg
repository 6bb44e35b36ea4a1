\* deleteexpiredresults on two results with the date crossing both
\* retention boundaries and one review during the batch.
CONSTANTS
    r1 = r1
    r2 = r2
    g1 = g1
    g2 = g2
    ResultIds <- MCResultIds
    Guids <- MCGuids
    NotifiedDays <- MCNotifiedDays
    Today0 = 548
    MaxDay = 549
    MaxReviews = 1
    NoTime = NoTime
SPECIFICATION Spec
\* The client process exits and reviews and the clock are bounded.
CHECK_DEADLOCK FALSE
SYMMETRY Symm
INVARIANTS
    TypeOK
    DeletesAfterRetention
