SPECIFICATION FairSpec
CONSTANTS
    id1 = id1
    id2 = id2
    Ids = {id1, id2}
    Null = Null
    MAX_RESPONSES = 3
    MaxRequests = 5
CHECK_DEADLOCK FALSE
INVARIANTS
    TypeOK NoSelfBlock CancelledNeverCommits ReceiptFollowsResponse
    FramingIntact NoRequestLost DistinctInFlight CleanShutdown
PROPERTIES ImplementsReceipts ReceiptsEnd AnsweredOrClosed EofEnds
