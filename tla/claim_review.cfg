SPECIFICATION Spec
CONSTANTS
    None = None
    prompt = prompt
    memory_rule = memory_rule
    model = model
    old = old
    new = new
    steward = steward
    Amendments = {a1, a2}
    Principals = {steward, human}
    Proposers = {steward}
    Reviewers = {human}
    Keys <- MCKeys
    Values <- MCValues
    V0Config <- MCV0Config
    Forbidden <- MCForbidden
    Diffs <- LegalDiffs
    MaxVersion = 2
    MaxTrail = 2
    MaxCrashes = 0
    MaxFaults = 0
SYMMETRY MCSymmetry
PROPERTY ApprovalNeedsReview
