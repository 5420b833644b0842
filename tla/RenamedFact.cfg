SPECIFICATION Spec
CONSTANTS
    Fact <- TidyFacts
    Action <- TidyActions
    Library <- TidyLibrary
    Actions <- TidyOrder
    Goal <- TidyGoal
    MaxStates = 8
    MaxCost = 9
    NaN = NaN
    Sensor = {"inbox", "alarm"}
    SensorSpec <- RenamingSensors
    SweepOrder <- TidySweep
    Value = {"v1"}
    Seed = {}
    CommandResults <- TidyResults
    MaxActions = 2
    Watch = TRUE
    SignalsArrive = FALSE
    MaxReadings = 0
INVARIANTS
    ValuesHaveFacts
