SPECIFICATION FairPromiseSpec
CONSTANTS
    MaxPromise = 3
    MaxCalls = 4
    MaxAwait = 2
    Plain = {undef}
    Undef = undef
    HostError = undef
    Api <- AllApi
INVARIANTS NeverFulfilledWithPromise OneObligation SuspendedAwaitsResume
PROPERTIES ContractSpec ProgramEnds
