\* A killed server is not noticed by the client.
SPECIFICATION Spec
CONSTANTS
    NumServers = 2
    ClientImages = 2
    ServerImages <- TwoImagesEach
    UseShamir = TRUE
    Privacy = 0
    ReqCap = 1
    ReplyFits = TRUE
    BadRows <- NoRows
    Faulty <- ServersOnly
INVARIANTS
    NoSilentWrong
