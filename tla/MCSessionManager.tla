--------------------------- MODULE MCSessionManager ---------------------------
(* SessionManager for TLC.  Two sessions: the first can be closed under the *)
(* first lookup of a request, its replacement under the second, and a late  *)
(* cleanup goroutine of the first can meet the second.                      *)
EXTENDS SessionManager

CONSTANTS s1

\* A run begins with nothing, or with the one session that was left behind.
InitOrLeft == Init \/ LeftBehind(s1)

RunSpec == InitOrLeft /\ [][Next]_vars /\ ServerFairness /\ SessionFairness

-----------------------------------------------------------------------------
(* What the code does not keep, although it is promised somewhere: no run   *)
(* checks it.  Add it to a configuration to see the trace (README, "Known   *)
(* weaknesses").                                                            *)

\* README.md, terminal.max_sessions: the number of concurrent PTYs.
LivePTYsWithinLimit == Cardinality({s \in started : pty[s] = "alive"}) <= MaxSessions

=============================================================================
