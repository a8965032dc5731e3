SPECIFICATION BrowserSpec
CONSTANTS
    Peers <- MCPeers
    Words = {"epic"}
    Grouping = {"epic"}
    Conns <- MCConns
    MaxTurns = 1
    MaxBreaks = 1
    AgentRuns <- MCAgentRuns
    MaxNotes = 2
    MaxEdits = 1
    MaxHitches = 1
    Polls = {p1, p2, p3}
    MaxLines = 3
    Order <- MCOrder
    Curated = 1
    AiRuns = {c1}
    Free = 1
    MaxChanges = 3
    Tabs = {t1, t2}
    Emails = {e1, e2}
    Handles = {h1, h2}
    NoPod = NoPod
    NoHandle = NoHandle
    Elsewhere = Elsewhere
    MaxTries = 3
    MaxMishaps = 1
    Candidates <- MCReadmes
    MaxPushes = 2
INVARIANTS
    BrowserTypeOK
    ConversationIsKept
    PodKeepsUp
    RelayIsClean
    PagesTellWhatIs
    KeysAreRespected
    AccountsDoNotMix
PROPERTIES
    StoredOnlyGrows
CHECK_DEADLOCK FALSE
