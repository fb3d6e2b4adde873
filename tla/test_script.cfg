SPECIFICATION FairSpec
CONSTANTS
    PortSpace = 4
    Servers <- MCServers
    Clients <- MCClients
    ServerPort <- MCServerPort
    NumServers = 1
    Rounds = 2
    StartPort = 1
    Guests = {9}
    GuestLists <- MCGuestLists
    GuestFiles <- MCGuestFiles
    Leftovers <- MCLeftovers
    PopenFails = TRUE
INVARIANTS MeetInv AnswersDistinct PassedMeansRetrieved FailedMeansRefused
PROPERTIES NothingLeftRunning
