SPECIFICATION MCSpec
CONSTANTS
    Sessions = {"proxy", "record", "mocked", "backend"}
    RequestIds = {i1, i2}
    MaxStdin = 1
    MaxOutbox = 1
    MaxInbox = 2
    Patterns <- MCPatterns
    Files = {"f"}
    RecordedCalls <- MCRecordedCalls
    RealAnswers <- MCRealAnswers
    MaxLines = 1
    Servers = {"s1", "s2"}
    SuiteMocks <- MCSuiteMocks
    CaseMocks <- MCCaseMocks
    Calls <- MCCalls
    MaxAttempts = 2
    MaxCalls = 2
    Callers = {"c1", "c2"}
    Entries = {entry, odd, account, item}
    KindOf <- MCKindOf
    Addressable = {entry, account, item}
    entry = entry
    odd = odd
    account = account
    item = item
    stored = stored
    other = other
    Absent = Absent
    Garbled = Garbled
    Maps = {stored, other}
    Sites <- MCSites
    MaxRedirects = 2
    MaxLogins = 2
    MaxUpsets = 1
    MaxLate = 1
INVARIANTS PagesTellTheTruth RequestsEndOnce RecordingsReplay NoServerLeftBehind CallsReachTheLog TokensAreFreshAndHome
PROPERTIES WaitsAreBounded CallsKeepTheContract
CHECK_DEADLOCK FALSE
