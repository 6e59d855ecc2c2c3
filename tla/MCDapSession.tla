--------------------------- MODULE MCDapSession ---------------------------
(* Two lines, the second with a statement of the file; one call deep; a    *)
(* breakpoint on the line without one, which moves to the next; five       *)
(* requests.                                                               *)
EXTENDS DapSession
MCLine == 1 .. 2
MCStatementLine == {2}
MCBreakpointLines == {{}, {1}}
===========================================================================
