---------------------------- MODULE MCTmuxTargets ----------------------------
(* TmuxTargets for TLC.  Of the three names, as in "w_1", "w_1b" and "w.1", *)
(* the second begins with the first, and tmux makes the first of the third. *)
EXTENDS TmuxTargets

CONSTANTS a, ab, dot

LongerNames == [n \in Names |-> IF n = a THEN {ab} ELSE {}]
StoredNames == [n \in Names |-> IF n = dot THEN a ELSE n]

-----------------------------------------------------------------------------
(* What the code does not keep, although it is promised somewhere: no run   *)
(* checks it.  Add it to a configuration to see the trace (README, "Known   *)
(* weaknesses").                                                            *)

\* persistent_session.go: keeping the target "avoids issuing a second attach-session command".
\* An attach command is typed only into a PTY that does not show a tmux session yet.
AttachTypedOnce ==
    [][\A r \in Requests :
         pc[r] = "type" /\ pc'[r] = "record" => client[at[r]] = None]_vars

\* A default that is set is a session that exists.  It is not if the name has a dot, if only a
\* longer name was found, or if a rename came between has-session and setTmuxDefault.
DefaultSetExists ==
    [][defaultTmux' \notin {defaultTmux, None} => defaultTmux' \in sessions]_vars

=============================================================================
