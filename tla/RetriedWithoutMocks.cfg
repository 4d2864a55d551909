SPECIFICATION MCSpec
CONSTANTS
    Sessions = {"mocked"}
    RequestIds = {i1}
    MaxStdin = 1
    MaxOutbox = 1
    MaxInbox = 1
    Patterns <- MCPatterns
    Files = {"f"}
    RecordedCalls <- MCRecordedCalls
    RealAnswers <- MCRealAnswers
    MaxLines = 1
    Servers = {"s1", "s2"}
    SuiteMocks <- MCSuiteMocks
    CaseMocks <- MCCaseMocks
    Calls <- MCCalls
    MaxAttempts = 2
    MaxCalls = 1
    Callers = {"c1", "c2"}
    Entries = {entry, odd, account, item}
    KindOf <- MCKindOf
    Addressable = {entry, account, item}
    entry = entry
    odd = odd
    account = account
    item = item
    stored = stored
    other = other
    Absent = Absent
    Garbled = Garbled
    Maps = {stored, other}
    Sites <- MCSites
    MaxRedirects = 2
    MaxLogins = 2
    MaxUpsets = 1
    MaxLate = 1
INVARIANT RetriesHaveTheirMocks
CHECK_DEADLOCK FALSE
