SPECIFICATION Spec
CONSTANTS
    None = None
    Forms <- EveryForm
    Leads <- EveryLead
    Lines <- EveryLine
    MaxDeclared = 2
INVARIANTS
    TypeOK
    InItsGroup
    FieldsArrive
    ValidatedConverts
CHECK_DEADLOCK FALSE
