-------------------------- MODULE MCBrowserConnection --------------------------
(* BrowserConnection for TLC.                                               *)
EXTENDS BrowserConnection

-----------------------------------------------------------------------------
(* What the code does not keep, although it is promised somewhere: no run   *)
(* checks it.  Add it to a configuration to see the trace (README, "Known   *)
(* weaknesses").                                                            *)

\* app.js shows the login form again when the login has become invalid (onclose).  A page whose
\* cookie has ended gets there.
ExpiryNoticed == (view = "terminal" /\ [](~cookie)) ~> view = "login"

\* A logout ends with the page being loaded again.
LogoutEnds == (view = "terminal" /\ stopped) ~> view = "login"

=============================================================================
