----------------------------- MODULE SessionLease -----------------------------
(***************************************************************************)
(* What a PTY session promises the connections that use it, whatever its   *)
(* goroutines do: at most one connection holds the session, a connection   *)
(* that lost it never holds it again, and a closed session is never held.  *)
(* persistentSession and the session manager of the server both implement  *)
(* this.                                                                   *)
(***************************************************************************)
CONSTANTS Conns, NoConn

VARIABLES holder, ended, closed

leaseVars == <<holder, ended, closed>>

LeaseInit ==
    /\ holder = NoConn
    /\ ended = {}
    /\ closed = FALSE

\* the connections whose lease ends when the present holder goes
EndedNow == (ended \cup {holder}) \ {NoConn}

\* a connection attaches, displacing the present holder if there is one
Take(c) ==
    /\ ~closed
    /\ c \notin ended \cup {holder}
    /\ holder' = c
    /\ ended' = EndedNow
    /\ UNCHANGED closed

\* the holder detaches
Lose ==
    /\ holder # NoConn
    /\ holder' = NoConn
    /\ ended' = EndedNow
    /\ UNCHANGED closed

\* the session ends for good
End ==
    /\ ~closed
    /\ closed' = TRUE
    /\ holder' = NoConn
    /\ ended' = EndedNow

LeaseNext == (\E c \in Conns : Take(c)) \/ Lose \/ End

\* one step of a system as this lease sees it
LeaseStep == LeaseNext \/ UNCHANGED leaseVars

LeaseSpec == LeaseInit /\ [][LeaseNext]_leaseVars

=============================================================================
