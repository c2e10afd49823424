SPECIFICATION AwsSpec
CONSTANTS
    Images = {"factory", "good", "faulty"}
    Faulty = {"faulty"}
    Factory = "factory"
    MaxBoots = 2
INVARIANTS AlwaysRetrying OneUpdateChain FaultyNeverKept
PROPERTIES Reconnects
CHECK_DEADLOCK FALSE
