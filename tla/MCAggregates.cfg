SPECIFICATION FairAggSpec
CONSTANTS
    MaxPromise = 3
    MaxCalls = 4
    MaxAwait = 1
    Plain = {undef}
    Undef = undef
    HostError = undef
    ResultArray = undef
    ManyErrors = undef
    MaxItems = 2
    Api <- AggApi
INVARIANTS ItemsAccounted OutcomeJustified
PROPERTIES AggregateSettles
