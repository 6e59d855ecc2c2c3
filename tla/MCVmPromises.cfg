SPECIFICATION VmSpec
CONSTANTS
    MaxPromise = 2
    MaxCalls = 3
    MaxAwait = 3
    Plain = {undef}
    Undef = undef
    HostError = undef
    ResultArray = undef
    ManyErrors = undef
    MaxItems = 2
    Api <- VmApi
    Delay <- VmDelay
    Once = Once
    Horizon = 2
    MaxSeq = 2
    Signal = {}
PROPERTY RunsAsInterpreter
