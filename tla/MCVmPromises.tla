---------------------------- MODULE MCVmPromises ----------------------------
(* Small programs over everything the machine's runtime offers.            *)
EXTENDS VmPromises
VmDelay == {1}
VmApi ==
    {"new", "withResolvers", "resolve", "then", "finally", "solved", "rejected", "try",
     "queue", "nextTick", "async", "await", "block",
     "all", "allSettled", "any", "race", "wait", "timeout", "interval", "clear"}
=============================================================================
