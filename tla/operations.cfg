\* One or two of everything.
SPECIFICATION Spec
CONSTANTS
    Deliveries = {d1}
    Channels = {c1}
    ChannelOf <- SoleChannel
    KindOf <- OfDocuments
    Signing = {c1}
    MaxTicks = 2
    RootKeys = {r1, r2}
    NoRoot = NoRoot
    Attempts = 2
    PerChannel = 1
    ClaimLimit = 2
    MaxClaims = 2
    MaxSecret = 2
    MaxStarts = 1
    MaxDisables = 1
    Environments <- WithOrWithoutKey
    FirstEnvironment <- WithKey
    People = {ann}
    Blank = Blank
    NoAddress = NoAddress
    MailGrants = {g1}
    OwnerOf <- SoleOwner
    MaxMails = 2
    MailAttempts = 2
    DrainLimit = 2
    MaxCrashes = 1
    Addresses = {ann}
    Posts = {p1, p2}
    Topics = {incident, advisory}
    TopicOf <- TwoTopics
    MaxSubs = 1
    NoticeLimit = 1
    MaxMinute = 2
    Sinks = {s3}
    MaxXid = 3
    MaxSeq = 3
    MaxBatches = 2
    SinkLimit = 1
    MaxShifts = 2
    MaxSinkStarts = 1
    Visitors = {ann}
    SignInLinks = {k1, k2}
    Tabs = {w1}
    Seats = {z1, z2}
    Locales = {de, en}
    Colleagues = {sam}
    StaffSeats = {y1, y2}
    Callbacks = {b1, b2}
    Nobody = Nobody
    VerifyLimit = 2
    Domains <- ThreeDomains
    Names <- TwoNames
    LabelLength <- Lengths
    Priorities = {1, 2}
    RuleActions = {"auto_approve", "deny"}
    RuleTiers = {}
    MaxRules = 3
    Papers = {"d1"}
    Exhibits = {"control", "certification", "answer"}
    ExhibitKind <- KindOfItself
    Categories = {"h1"}
    ControlGroups = {"g1"}
    Langs = {"de", "en"}
    HomeLang = "de"
    NoHeading = "none"
    Vendors = {v1}
    Notices = {n1, n2}
    Undated = Undated
    LastDay = 2
INVARIANTS
    TypeOK
    DisabledIsLoggedOnce
    PurgeIsFinal
    RemindedOnce
    NoticesAreNews
    SinkKeepsLog
    OnlyTheLiveAreServed
    OrderDoesNotDecide
    OfferedWasPublic
PROPERTIES
    SignaturesVerify
    WarningsHaveReasons
CHECK_DEADLOCK FALSE
