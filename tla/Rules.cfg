SPECIFICATION Deciding
CONSTANTS
    Conditions <- MCConditions
    Records <- MCRecords
    NodeRecords <- MCNodeRecords
    PlansGiven <- MCPlansGiven
    SpecsGiven <- MCSpecsGiven
    TablesGiven <- MCTablesGiven
    ConfigsGiven <- MCConfigsGiven
    CallsGiven <- MCCallsGiven
    EnvsGiven <- MCEnvsGiven
    TextsGiven <- MCTextsGiven
    ValuesGiven <- MCValuesGiven
    Fresh <- MCFresh
    MaxLine = 3
    MaxText = 6
CHECK_DEADLOCK FALSE
INVARIANTS
    ConditionsAreHonest
    AcceptedMeansTheSame
    AdmittedCanRun
    SettingsStand
    BoundariesAgree
    NothingLeaks
    RenderedIsAccepted
