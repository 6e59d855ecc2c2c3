SPECIFICATION BackendsSpec
CONSTANTS
    main = main
    a = a
    b = b
    d = d
    Module <- MCModule
    JsonFile <- MCJson
    Main = main
    Programs <- MCPrograms
INVARIANTS EvaluatedOnce LinkedFinal BackendsAgree
CHECK_DEADLOCK FALSE
