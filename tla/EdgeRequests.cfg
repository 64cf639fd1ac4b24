SPECIFICATION EdgeRequestSpec
CONSTANTS
    Hosts <- MCHosts
    Clients <- MCClients
    Requests <- MCRequests
    Configs <- MCConfigs
    Edits <- MCEdits
    CompiledFor <- Published
    Applies <- Matches
    Keys <- MCKeys
    TTL = 2
    Wrap = 1024
    MaxClock = 3
    MaxRequests <- MCMaxRequests
    MaxRestarts = 1
    Nil = Nil
INVARIANTS
    EdgeRequestTypeOK
    PublishedIsReadable
    ActedOnAsMeant
    NothingEarlierMeant
    ClearedWasChallenged
    NoChallengeLoop
CHECK_DEADLOCK FALSE
