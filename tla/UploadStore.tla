------------------------------- MODULE UploadStore -------------------------------
(***************************************************************************)
(* What the server promises to those who upload a file in chunks, with     *)
(* neither requests nor locks: a chunk goes to a file that exists, a file  *)
(* is published only as a whole, and one that was dropped never is.        *)
(* ChunkUpload implements it, and UploadClient is written against it.      *)
(***************************************************************************)
EXTENDS FiniteSets

CONSTANTS Uploads, Chunks, None

VARIABLES
    made,    \* uploads that were created
    open,    \* uploads whose temporary file exists
    parts,   \* the chunks that the file of an upload holds
    dest     \* the upload whose file is at the destination, or None

vars == <<made, open, parts, dest>>

Init ==
    /\ made = {} /\ open = {}
    /\ parts = [u \in Uploads |-> {}]
    /\ dest = None

Create(u) ==
    /\ u \in Uploads \ made
    /\ made' = made \cup {u}
    /\ open' = open \cup {u}
    /\ UNCHANGED <<parts, dest>>

Add(u, i) ==
    /\ u \in open
    /\ parts' = [parts EXCEPT ![u] = @ \cup {i}]
    /\ UNCHANGED <<made, open, dest>>

\* the file moves to the destination
Publish(u) ==
    /\ u \in open
    /\ parts[u] = Chunks
    /\ dest' = u
    /\ open' = open \ {u}
    /\ UNCHANGED <<made, parts>>

\* cancelled or swept
Drop(u) ==
    /\ u \in open
    /\ open' = open \ {u}
    /\ UNCHANGED <<made, parts, dest>>

Next ==
    \E u \in Uploads :
        Create(u) \/ (\E i \in Chunks : Add(u, i)) \/ Publish(u) \/ Drop(u)

Spec == Init /\ [][Next]_vars

=============================================================================
