--------------------------- MODULE MCTerminalClose ---------------------------
(* Instances of TerminalClose for TLC.                                       *)
EXTENDS TerminalClose
=============================================================================
