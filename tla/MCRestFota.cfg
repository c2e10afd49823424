SPECIFICATION RestSpec
CONSTANTS
    MaxBoots = 2
INVARIANTS PressAnswersQuestion
PROPERTIES RoundsEnd
CHECK_DEADLOCK FALSE
