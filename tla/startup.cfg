SPECIFICATION Spec
CONSTANTS
    None = None
    Misshapen = Misshapen
    Unparseable = Unparseable
    Defaults = Defaults
    Claims = {c1, c2}
    MaxLessons = 2
    Kinds = {"amendment", "audit"}
    Contents = {reviewed, edited}
    HasYaml = TRUE
    MaxCrashes = 1
    MaxFaults = 1
    MaxHarms = 2
INVARIANTS
    TypeOK
    ServedIsNotBehind
    RulesWerePinned
PROPERTIES
    LedgerSpec
    OnlyOthersSpoil
    ServerReturns
