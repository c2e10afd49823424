SPECIFICATION AwsSpec
CONSTANTS
    Images = {"factory", "good", "faulty"}
    Faulty = {"faulty"}
    Factory = "factory"
    MaxBoots = 2
INVARIANTS VersionOnce
CHECK_DEADLOCK FALSE
