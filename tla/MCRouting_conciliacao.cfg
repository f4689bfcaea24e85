SPECIFICATION Spec
CONSTANTS
    None = None
    Issuers <- EveryState
    Supplier = "SP"
    MaxHeld = 2
INVARIANT ConciliacaoIsSent
