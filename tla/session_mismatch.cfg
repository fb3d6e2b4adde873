\* The first server was started with one image more than the client, the second
\* with one less, the fourth cannot use its last row, and the kernel buffers no
\* whole message.
SPECIFICATION Spec
CONSTANTS
    NumServers = 4
    ClientImages = 2
    ServerImages <- Mismatched
    UseShamir = TRUE
    Privacy = 0
    ReqCap = 0
    ReplyFits = FALSE
    BadRows <- LastRowOfFourth
    Faulty <- ServersOnly
INVARIANTS
    RowsMatchRequests
    NoWaitCycle
CHECK_DEADLOCK FALSE
