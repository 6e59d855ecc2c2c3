SPECIFICATION FairLoopSpec
CONSTANTS
    MaxPromise = 2
    MaxCalls = 4
    MaxAwait = 2
    Plain = {undef}
    Undef = undef
    HostError = undef
    Api <- LoopApi
    Delay <- MCDelay
    Once = Once
    Horizon = 2
    MaxSeq = 3
    Signal = {}
INVARIANTS FireOrder TimersAccounted
PROPERTIES CancelSticks LoopProgramEnds AwaitResumes
