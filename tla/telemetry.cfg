SPECIFICATION Spec
CONSTANTS
    None = None
    t1 = t1
    t2 = t2
    wrong = wrong
    empty = empty
    Tasks = {t1, t2}
    Classes = {wrong, empty}
    Submissions <- MCSubmissions
    Hashes = {real, forged}
    Listed = {real}
    MIN_FAILURE_FREQUENCY = 2
    Samples = 2
    MaxRuns = 4
    MaxNow = 1
    MaxCrashes = 1
    MaxFaults = 1
CONSTRAINT MostlyFailures
INVARIANTS
    TypeOK
    ProposalsAreGrounded
    OneProposalPerWindow
PROPERTIES
    TrustedKept
    UntrustedKept
