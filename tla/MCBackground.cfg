CONSTANTS
    Routes = {1, 2, 3}
    ClientOf <- MCClientOf
    AgentOf <- MCAgentOf
    Names = {1, 2, 3}
    FirstNames <- MCFirstNames
    Texts <- MCTexts
    SemanticRouting = TRUE
    RoutingRuns = {p1, p2}
    MaxChanges = 1
    Turns = {t1, t2}
    Threshold = 2
    MaxRows = 6
    Persons = {u}
    Cookies = {k}
    NoSession = NoSession
    Visits = {v1, v2}
    Lifetimes <- MCLifetimes
    MaxClock = 5
    MaxSwitches = 1
    Length <- MCLength
    Anchors = {2, 30, 31}
    Customers = {"early", "late"}
    AnchorOf <- MCAnchorOf
    Workers = {w1, w2}
    Attempts = 2
    Firsts = {2, 4, 12}
    MaxDays = 1
    MaxHires = 1
    MaxMishaps = 1
    Hosts = {h1, h2}
    Admins <- MCAdmins
    Personalities <- MCPersonalities
    SeedAgents <- MCSeedAgents
    Channels <- MCChannels
    Owners <- MCOwners
    MembersOf <- MCMembersOf
    ExtraHires <- MCExtraHires
    OnboardingAttempts = 2
    MaxBoots = 3
    MaxBreaks = 2
    Servers = {s1, s2}
    Webhooks = {"wa", "ig", "tt"}
    EventsOf <- MCEventsOf
    NotText = "-"
    ProviderOf <- MCProviderOf
    StoredFields <- MCStoredFields
    Environment = {"instagram"}
    Deliveries = {d1, d2}
    MaxPosts = 3
    MaxTroubles = 1
    Skus = {"A", "B", "C"}
    Batches <- MCBatches
    Files <- MCFiles
    RowsPerCall = 2
    TextPerCall = 1
    Uploads = {f1, f2}
    DbChunk = 2
    MaxEdits = 1
    MaxLosses = 1
    Chats = {c1, c2}
    Mailboxes = {"plain", "blanks", "case"}
    TypedOf <- MCTypedOf
    AddressOf <- MCAddressOf
    control1 = control1
    list1 = list1
    list2 = list2
    mail1 = mail1
    mail2 = mail2
    ModePasses = {control1}
    ListPasses = {list1, list2}
    MailPasses = {mail1, mail2}
    Boots <- MCBoots
    ChunkOf <- MCChunkOf
    MaxChunks = 2
    MaxCrashes = 1
    MaxTraffic = 2
SPECIFICATION BackgroundSpec
INVARIANTS BackgroundTypeOK CoveredOnce RevokedStaysRevoked LifetimeBounded PeriodRight DoneMeansSeeded
           LossExplained UploadReportsTruth
PROPERTIES NumberPicksShown StaysWithAgent CompletedMeansBilled FilledNotOverwritten
CHECK_DEADLOCK FALSE
