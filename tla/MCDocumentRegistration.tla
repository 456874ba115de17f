------------------------- MODULE MCDocumentRegistration ------------------------
(***************************************************************************)
(* Small instances of DocumentRegistration.                                *)
(***************************************************************************)
EXTENDS DocumentRegistration, TLC

\* Workers, upload ids and contents play no other part than being distinct.
Alike == Permutations(Workers) \cup Permutations(Uploads) \cup Permutations(Contents)
================================================================================
