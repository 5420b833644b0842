SPECIFICATION Spec
CONSTANTS
    Fact <- RepairFacts
    Action <- RepairActions
    Library <- RepairLibrary
    Actions <- RepairOrder
    Goal <- RepairGoal
    MaxStates = 8
    MaxCost = 9
    NaN = NaN
    Sensor = {"card"}
    SensorSpec <- RepairSensors
    SweepOrder <- RepairSweep
    Value = {"v1", "v2"}
    Seed = {}
    CommandResults <- RepairResults
    MaxActions = 3
    Watch = FALSE
    SignalsArrive = FALSE
    MaxReadings = 1
PROPERTIES
    NoActionAfterFatalFailure
