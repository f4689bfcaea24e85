SPECIFICATION Spec
CONSTANTS
    k1 = k1
    k2 = k2
    k3 = k3
    lotA = lotA
    Event <- Events
    CallerIds <- OneCallerId
    MaxBatch = 2
    MaxClock = 1
    MaxRequests = 2
    MaxAnswers = 1
INVARIANTS
    TypeOK
    ProcEventoGenuine
SYMMETRY Symmetry
