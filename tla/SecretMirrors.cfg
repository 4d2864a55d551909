SPECIFICATION Spec
CONSTANTS
    bao = bao
    copy = copy
    third = third
    item = item
    bao1 = bao1
    copy1 = copy1
    copy2 = copy2
    third1 = third1
    item1 = item1
    item2 = item2
    k1 = k1
    k2 = k2
    v1 = v1
    v2 = v2
    rUser = rUser
    rPass = rPass
    rCode = rCode
    rMore = rMore
    f1 = f1
    s1 = s1
    s2 = s2
    Twice = Twice
    NoValue = NoValue
    NoRead = NoRead
    SourceKey = SourceKey
    EmptyValue = EmptyValue
    Entries = {bao, copy, third, item}
    Addresses = {bao1, copy1, copy2, third1, item1, item2}
    EntryOf <- MCEntryOf
    KeyOf <- MCKeyOf
    Keys = {k1, k2, SourceKey}
    Values = {v1, v2, EmptyValue}
    Reads = {rUser, rPass, rCode, rMore}
    Chain <- MCChain
    Queries = {rCode}
    Wanted <- MCWanted
    Paired = {item}
    Scenes <- MCScenes
    Edited = {copy, item}
    Fresh = {v1}
    Fetchers = {f1}
    ReadFaults = {"down"}
    MaxEdits = 1
    Writable = {bao, copy, third}
    Syncers = {s1, s2}
    SetFaults = {"fails", "unacked", "dropped"}
INVARIANTS GroupingIsSafe MarkersNameTheOrigin ConvergesWhenQuiet
PROPERTIES TargetsAreHonest
