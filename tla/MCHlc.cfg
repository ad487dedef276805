SPECIFICATION Spec
CONSTANTS
    Nodes = {1, 2}
    MaxWall = 2
    MaxLogical = 2
    MaxKnown = 2
CONSTRAINT Bounded
INVARIANTS
    HappensBefore
    ClockCoversStore
CHECK_DEADLOCK FALSE
