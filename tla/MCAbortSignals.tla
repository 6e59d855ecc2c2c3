-------------------------- MODULE MCAbortSignals --------------------------
(* Small programs over abort signals, timers and promises: three signals,  *)
(* so that one may be combined of two others, of which one is aborted.     *)
EXTENDS AbortSignals
MCDelay == {1}
SignalApi == {"controller", "abort", "subscribe", "unsubscribe", "any", "drop", "block",
              "signalPromise", "signalTimer", "signalWait", "timeoutSignal"}
===========================================================================
