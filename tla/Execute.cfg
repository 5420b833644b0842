SPECIFICATION ExecuteSpec
CONSTANTS
    Fact <- RepairFacts
    Action <- RepairActions
    Library <- RepairLibrary
    Actions <- RepairOrder
    Goal <- RepairGoal
    MaxStates = 8
    MaxCost = 9
    NaN = NaN
    Sensor = {"card"}
    SensorSpec <- RepairSensors
    SweepOrder <- RepairSweep
    Value = {"v1"}
    Seed = {}
    CommandResults <- RepairResults
    MaxActions = 2
    Watch = FALSE
    SignalsArrive = TRUE
    MaxReadings = 0
INVARIANTS
    ScreenExplainsExit
PROPERTIES
    ProcessEnds
