SPECIFICATION DapSpec
CONSTANTS
    Line <- MCLine
    StatementLine <- MCStatementLine
    BreakpointLines <- MCBreakpointLines
    MaxDepth = 1
    MaxRequests = 5
    MaxQueue = 2
INVARIANTS OneToken RequestsAccounted
PROPERTIES StepLands PauseStops TerminateStops
CHECK_DEADLOCK FALSE
