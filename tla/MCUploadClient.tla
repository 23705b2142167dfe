----------------------------- MODULE MCUploadClient -----------------------------
(* UploadClient for TLC.                                                    *)
EXTENDS UploadClient

-----------------------------------------------------------------------------
(* What the code does not keep, although the page says so: no run checks    *)
(* it.  Add it to a configuration to see the trace (README, "Known          *)
(* weaknesses").                                                            *)

\* The page says that the upload is cancelled or paused only if the file is not published.
EndsWithoutFile == [][NotCompleted => dest # id]_vars

=============================================================================
