---------------------------- MODULE MCEventLoop ----------------------------
(* Small programs over timers, promises and async functions.               *)
EXTENDS EventLoop
MCDelay == {1}
LoopApi == {"new", "resolve", "block", "wait", "timeout", "interval", "clear", "async", "await"}
=============================================================================
