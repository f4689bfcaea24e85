SPECIFICATION FairSpec
CONSTANTS
    n1 = n1
    c1 = c1
    c2 = c2
    b1 = b1
    b2 = b2
    t1 = t1
    t2 = t2
    None = None
    Number <- OneNumber
    Code <- OneCode
    Body <- TwoBodies
    Task <- OneTask
    SvcType = "SvcRs"
    Emission <- SvcOnly
    MaxDocs = 1
    MaxNet = 1
    MaxMarks = 2
PROPERTIES
    Recovery
    CancellationRecovery
