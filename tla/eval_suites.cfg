SPECIFICATION Spec
CONSTANTS
    None = None
    terse = terse
    steps = steps
    chatty = chatty
    h1 = h1
    h2 = h2
    h3 = h3
    h4 = h4
    h5 = h5
    b1 = b1
    b2 = b2
    b3 = b3
    b4 = b4
    b5 = b5
    task = task
    sum = sum
    product = product
    overflow = overflow
    essay = essay
    letter = letter
    math = math
    text = text
    Amendments = {a1, a2, a3}
    Prompts <- MCPrompts
    Stepwise = {steps}
    StewardPrompt = steps
    Harmful <- MCHarmful
    Benign <- MCBenign
    Cases <- MCCases
    Kind <- MCKind
    ClassOf <- MCClassOf
    CaseLists <- MCCaseLists
    CoreSuite <- MCCoreSuite
    Echoes <- MCEchoes
    Alarming <- MCAlarming
    ShortMeans <- Python312
    V0Config <- MCV0Config
    Diffs <- MCDiffs
    MaxRestarts = 1
SYMMETRY MCSymmetry
CHECK_DEADLOCK FALSE
INVARIANTS
    TypeOK
    PassingIsSafe
    PassingAnswersCore
    StewardChangesNothing
    PassingInCoreFixesItsCases
    HistoryNeverHelps
