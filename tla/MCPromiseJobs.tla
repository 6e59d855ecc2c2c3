--------------------------- MODULE MCPromiseJobs ---------------------------
(* Small programs over the promise builtins.                               *)
EXTENDS PromiseJobs
CoreApi == {"new", "resolve", "then", "async", "await", "block"}
QueueApi == {"withResolvers", "resolve", "then", "finally", "solved", "rejected", "try", "queue", "nextTick"}
AllApi == CoreApi \cup QueueApi
=============================================================================
