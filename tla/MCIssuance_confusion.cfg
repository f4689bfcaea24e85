SPECIFICATION Spec
CONSTANTS
    n1 = n1
    c1 = c1
    c2 = c2
    b1 = b1
    b2 = b2
    t1 = t1
    t2 = t2
    None = None
    Number <- OneNumber
    Code <- OneCode
    Body <- TwoBodies
    Task <- OneTask
    SvcType = "SvcRs"
    Emission <- NormalAndSvc
    MaxDocs = 2
    MaxNet = 1
    MaxMarks = 1
INVARIANTS
    TypeOK
    ProcGenuine
    MarkGenuine
SYMMETRY Symmetry
