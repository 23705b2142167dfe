----------------------------- MODULE MCChunkUpload -----------------------------
(* ChunkUpload for TLC: two requests at a time, two uploads that compete    *)
(* for one destination.                                                     *)
EXTENDS ChunkUpload, TLC

CONSTANTS w1, w2, u1, u2

\* requests and uploads are interchangeable: used where no liveness is checked
Symmetry == Permutations(Slots) \cup Permutations(Uploads)

-----------------------------------------------------------------------------
(* What the code does not keep, although one may expect it: no run checks   *)
(* it.  Add it to a configuration to see the trace (README, "Known          *)
(* weaknesses").                                                            *)

\* Every cancellation that was answered with 204 is final, also one that found no upload in the
\* map because another cancellation of it waits for upload.mu or failed with 500, or because it
\* had expired and its file could not be removed.
ConfirmedStaysAway == [][\A u \in cancelled : dest' = u => dest = u]_vars

=============================================================================
