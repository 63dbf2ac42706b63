SPECIFICATION Spec
CONSTANTS
    None = None
    prompt = prompt
    memory_rule = memory_rule
    model = model
    old = old
    new = new
    steward = steward
    Amendments = {a1, a2}
    Principals = {steward, human}
    Proposers = {steward}
    Reviewers = {human}
    Keys <- MCKeys
    Values <- MCValues
    V0Config <- MCV0Config
    Forbidden <- MCForbidden
    Diffs <- MCDiffs
    MaxVersion = 2
    MaxTrail = 2
    MaxCrashes = 1
    MaxFaults = 0
SYMMETRY MCSymmetry
INVARIANTS
    TypeOK
    ScopePreserved
    RestartRestores
    LineageReachesV0
    ReleaseIsTheCandidate
    EvidenceStaysBound
    TrailReplaysCurrent
PROPERTIES
    LedgerSpec
