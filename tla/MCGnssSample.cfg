SPECIFICATION GnssSpec
CONSTANTS
    QueueLen = 1
    HeapFrames = 2
    Requests <- MCRequests
INVARIANTS FramesAccounted NoRequestLost ColdStartFed
PROPERTIES OutputResumes TestsGoOn
CHECK_DEADLOCK FALSE
