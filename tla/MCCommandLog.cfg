SPECIFICATION FairSpec
CONSTANTS
    Commands = {c1, c2}
    Twins = {c1, c2}
    Maintenance = {c2}
    SessionFirst = {c1}
    Servers = {1, 2}
    None = None
INVARIANTS
    AnswerIsTrue
PROPERTIES
    OnceSpec
    EveryRequestEnds
CHECK_DEADLOCK FALSE
