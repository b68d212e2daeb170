SPECIFICATION Spec
CONSTANTS
    Runs = {r1, r2, r3}
    Sessions = {s1}
    Owners = {o1, o2}
    None = None
    MaxGeneration = 4
SYMMETRY StoreSymmetry
CONSTRAINT StoreBound
INVARIANTS
    TerminalAgreement
    OneActivePerSession
PROPERTIES
    AnswerIsFinal
CHECK_DEADLOCK FALSE
