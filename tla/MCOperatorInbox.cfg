SPECIFICATION Spec
CONSTANTS
    Convs = {1, 2}
    Users = {"o", "p", "q", "x", "f"}
    Nobody = Nobody
    ConvClient <- MCConvClient
    UserClient <- MCUserClient
    Role <- MCRole
    Active = {"o", "p", "q", "f"}
    Requests = {r1, r2}
    Calls <- MCCalls
    Readers = {"p", "f"}
    InitialConvs <- MCInitialConvs
    Canon <- MCCanon
    Blank = ""
    MaxTags = 2
    PageSize = 1
    MaxTime = 1
    MaxActors = 2
    MaxFaults = 1
INVARIANTS TypeOK ChangeWasInForce
PROPERTIES ImplementsOutbox PendingEnds NothingSentInBotMode ClearsOnlyOwn NoLostUpdate ListedOnce
CHECK_DEADLOCK FALSE
