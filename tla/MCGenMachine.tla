--------------------------- MODULE MCGenMachine ---------------------------
(* The frame machine with one label and room for two statements nested in  *)
(* each other around a block.                                              *)
EXTENDS GenMachine
===========================================================================
