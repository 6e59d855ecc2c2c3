SPECIFICATION FairAbortSpec
CONSTANTS
    MaxPromise = 1
    MaxCalls = 5
    MaxAwait = 1
    Plain = {undef, why}
    Undef = undef
    HostError = undef
    Api <- SignalApi
    Delay <- MCDelay
    Once = Once
    Horizon = 1
    MaxSeq = 2
    Signal = {s1, s2, s3}
    MaxToken = 2
    MaxSources = 2
INVARIANTS ListenersOnce CombinedFollows AbortReaches
PROPERTIES AbortCompletes
