--------------------------- MODULE MCTunnelManager ---------------------------
(* Instances of TunnelManager for TLC.                                       *)
EXTENDS TunnelManager

-----------------------------------------------------------------------------
(* What the code does not keep, although it is promised somewhere: no run   *)
(* checks it.  Add it to a configuration to see the trace (README, "Known   *)
(* weaknesses").                                                            *)

\* docs/development-plan.md: after the service exits no cloudflared process is left.  A process
\* that was sent SIGTERM and is about to end is not counted.
NoTunnelAfterExit == app = "exited" => alive \subseteq termed

=============================================================================
