\* the indexer stops on a panic: a terminal state of the model
CONSTANTS
    Events <- MCEvents
    SelfIsMeta = TRUE
SPECIFICATION Spec
CHECK_DEADLOCK FALSE
INVARIANTS
    TypeOK
    AtMostOneProcessorActs
    SharedIdentifierRouted
    EventNotSwallowed
