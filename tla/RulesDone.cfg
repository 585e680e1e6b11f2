SPECIFICATION Deciding
CONSTANTS
    Conditions = {}
    Records = {}
    NodeRecords = {}
    PlansGiven <- MCPlansGiven
    SpecsGiven = {}
    TablesGiven = {}
    ConfigsGiven = {}
    CallsGiven = {}
    EnvsGiven = {}
    TextsGiven = {}
    ValuesGiven = {}
    Fresh <- MCFresh
    MaxLine = 3
    MaxText = 6
CHECK_DEADLOCK FALSE
INVARIANT DoneNeedsWork
