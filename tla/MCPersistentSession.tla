-------------------------- MODULE MCPersistentSession --------------------------
(* PersistentSession for TLC: two connections, of which the second may      *)
(* displace the first; that covers every race of an old with a new          *)
(* attachment, because an attachment only ever displaces the previous one.  *)
EXTENDS PersistentSession, TLC

CONSTANTS c1, c2

\* the connections are interchangeable: used by the safety configurations only
Symmetry == Permutations(Conns)

-----------------------------------------------------------------------------
(* What the code does not keep, although it is promised somewhere: no run   *)
(* checks it.  Add it to a configuration to see the trace (README, "Known   *)
(* weaknesses").                                                            *)

\* docs/quick-start.md: session_retention is how long a PTY session is kept after the browser
\* disconnected, so that it can reconnect.  Stated of the reaper: it never closes a session
\* that a browser has reconnected to.
ReaperSparesAttached ==
    [][~closed /\ closed' /\ rppc' = "closing" => client = NoConn]_vars

=============================================================================
