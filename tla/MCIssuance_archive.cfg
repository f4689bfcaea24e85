SPECIFICATION Spec
CONSTANTS
    n1 = n1
    c1 = c1
    c2 = c2
    b1 = b1
    b2 = b2
    t1 = t1
    t2 = t2
    None = None
    Number <- OneNumber
    Code <- OneCode
    Body <- OneBody
    Task <- TwoTasks
    SvcType = "SvcRs"
    Emission <- NormalOnly
    MaxDocs = 2
    MaxNet = 2
    MaxMarks = 1
PROPERTY ArchiveSpec
