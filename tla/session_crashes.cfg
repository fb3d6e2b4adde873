\* Two servers, three images, any process may be killed at any time.
SPECIFICATION FairSpec
CONSTANTS
    NumServers = 2
    ClientImages = 3
    ServerImages <- ThreeImagesEach
    UseShamir = TRUE
    Privacy = 0
    ReqCap = 1
    ReplyFits = TRUE
    BadRows <- NoRows
    Faulty <- Everyone
INVARIANTS
    TypeOK
    SessionInv
    RowsMatchRequests
    AnswerSound
    NoWaitCycle
PROPERTIES
    ImplementsRetrieval
    ClientEnds
    ServersEnd
