--------------------------- MODULE MCAggregates ---------------------------
(* Small programs over the promise combinators.                            *)
EXTENDS Aggregates
AggApi == {"withResolvers", "resolve", "all", "allSettled", "any", "race"}
=============================================================================
