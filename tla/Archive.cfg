SPECIFICATION Spec
CONSTANTS
    Cards <- ArchiverCards
    MaxSessions = 4
    MaxChanges = 2
    MaxTroubles = 2
    MaxOfAKind = 1
INVARIANTS
    ArchivesAreTrue
    OncePerInsertion
    CrashesAreResumed
PROPERTIES
    ImportSettles
CHECK_DEADLOCK FALSE
