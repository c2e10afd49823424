SPECIFICATION SaadcSpec
CONSTANTS
    Iterations = 3
    MaxCalls = 11
    MaxBuffers = 6
INVARIANTS BuffersInOrder AssertionsHold QuietWhenIdle
PROPERTIES ExamplesFinish
CHECK_DEADLOCK FALSE
