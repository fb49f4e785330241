SPECIFICATION FairSpec
CONSTANTS
    f1 = f1  f2 = f2  k1 = k1  k2 = k2  v1 = v1  v2 = v2
    File = {f1, f2}
    Key = {k1, k2}
    Value = {v1, v2}
    Include = Include
    Hash = Hash
    Unreadable = Unreadable
    Contents <- MCContents
    MaxFds = 3
INVARIANTS DescriptorsBalance MatchesInclusion
PROPERTY CallsEnd
