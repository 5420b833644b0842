SPECIFICATION CommandSpec
CONSTANTS
    Fact <- SearchFacts
    Action <- SearchNames
    Library <- SearchLibrary
    Actions <- SearchActions
    Goal <- SearchGoal
    MaxStates = 3
    MaxCost = 2
    NaN = NaN
    Sensor = {"log", "fire"}
    SensorSpec <- SearchSensors
    SweepOrder <- SearchSweep
    Value = {"v1"}
    Drafts <- SearchDrafts
INVARIANTS
    TypeOK
    ExplorationIsExact
    PlanIsCheapest
    CapIsExact
    GraphIsConsistent
    AnswerIsAllowed
    SimulationIsTheBestCase
    ExitCodeMeans
    FindingsAreSound
PROPERTIES
    CommandEnds
