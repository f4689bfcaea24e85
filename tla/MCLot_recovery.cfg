SPECIFICATION FairSpec
CONSTANTS
    n1 = n1
    n2 = n2
    c1 = c1
    b1 = b1
    None = None
    Number <- TwoNumbers
    Code <- OneCode
    Body <- OneBody
    Doc <- TwoDocs
    Registers = {"100"}
    MaxBatch = 1
    MaxLots = 3
PROPERTY LotRecovery
