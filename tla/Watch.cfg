SPECIFICATION FairSpec
CONSTANTS
    Fact <- TidyFacts
    Action <- TidyActions
    Library <- TidyLibrary
    Actions <- TidyOrder
    Goal <- TidyGoal
    MaxStates = 3
    MaxCost = 9
    NaN = NaN
    Sensor = {"inbox", "alarm"}
    SensorSpec <- TidySensors
    SweepOrder <- TidySweep
    Value = {"v1"}
    Seed = {}
    CommandResults <- TidyResults
    MaxActions = 2
    Watch = TRUE
    SignalsArrive = FALSE
    MaxReadings = 2
INVARIANTS
    OnePlanInFlight
    NeverIdleWithWorkLeft
    ValuesHaveFacts
PROPERTIES
    WatchSettles
