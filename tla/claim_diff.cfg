SPECIFICATION Spec
CONSTANTS
    None = None
    Sections = {prompts, evaluation}
    FlatSections = {prompts}
    Scalars = {description}
    Entries = {system, planner}
    Values = {old, new}
CHECK_DEADLOCK FALSE
INVARIANT DiffShowsEveryChange
