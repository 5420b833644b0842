SPECIFICATION FairSpec
CONSTANTS
    Input <- PathInputs
    MaxCost = 2
    MaxCount = 6
    ParThreshold = 2
    Question <- PathQuestions
INVARIANTS
    TypeOK
    RowsAreExact
    RefusesExactlyInvalid
    PathIsCheapest
PROPERTIES
    ImplementsOneShot
    EveryQueryIsAnswered
