------------------------------ MODULE MCFileManager ------------------------------
(* FileManager for TLC.                                                     *)
EXTENDS FileManager, TLC

CONSTANTS d1, d2, e1, e2

InHome == e1 :> d1 @@ e2 :> d1

\* every text matches everything, or only e1
Matches == {Entries, {e1}}

=============================================================================
