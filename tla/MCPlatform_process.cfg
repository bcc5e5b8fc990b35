CONSTANTS
    a1 = a1
    a2 = a2
    r1 = r1
    r2 = r2
    bad = bad
    h1 = h1
    h2 = h2
    c1 = c1
    p1 = p1
    p2 = p2
    ana = ana
    ben = ben
    ann = ann
    Chats = {c1}
    Posts = {p1, p2}
    NoName = bad
    Accounts = {ana}
    Exposed = {r1}
    Legacy = "whatsapp"
    Channels = {"whatsapp", "web"}
    MaxTurns = 2
    ClaimLimit = 2
    MaxBody = 2
    NoApp = NoApp
    Apps = {a1, a2}
    Malformed = {bad}
    Requests = {h1, h2}
    NoRequest = NoRequest
    Ttl = 2
    Horizon = 3
    MaxChanges = 1
    MaxCancels = 2
    Dashed = {"-1"}
    LengthCap = 5
    MaxTokens = 7
    MaxDepth = 3
    MaxTypeNesting = 1
    MaxSquareBrackets = 2
    MaxScanned = 5
    RowLimit = 2
    ByteLimit = 6
    FetchBatch = 2
    AllowBaseTables = FALSE
    MaxDrifts = 1
    Notifier = "note"
    EnvRuns = 1
    Host = {"bwrap"}
CONSTANT MaxBoots <- MCBoots
CONSTANT Deployments <- MCDeployments
CONSTANT Commands <- MCCommands
CONSTANT LengthOf <- MCLengthOf
CONSTANT Relations <- MCRelations
CONSTANT Queries <- MCQueries
CONSTANT Roles <- MCRoles
CONSTANT Results <- MCResults
CONSTANT Scenarios <- MCScenarios
CONSTANT Turns <- MCTurns
CONSTANT Matrices <- MCMatrices
CONSTANT Capabilities <- MCCapabilities
CONSTANT Holds <- MCHolds
CONSTANT RunResults <- MCRunResults
CONSTANT Exports <- MCExports
CONSTANT Existing <- MCExisting
CONSTANT Asked <- MCAsked
CONSTANT Deliveries <- MCDeliveries
CONSTANT MaxTries <- MCMaxTries
CONSTANT Address <- MCAddress
SPECIFICATION Spec
CHECK_DEADLOCK FALSE
INVARIANTS
    SlotsAreTrue
    EntriesAreTrue
    LifespanSafe
    HealthIsTrue
    CommandsSafe
    QuerySafe
    EvaluationIsHonest
PROPERTIES
    CommandsEnd
