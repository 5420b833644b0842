SPECIFICATION Spec
CONSTANTS
    MaxCost = 2
    Query <- SharedQueries
    MaxGeneration = 3
INVARIANTS
    TypeOK
    StampsAreOfThisSearch
    AnswerIsShortest
PROPERTIES
    ImplementsOneShot
