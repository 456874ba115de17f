----------------------------- MODULE MCLegalConsent ----------------------------
(***************************************************************************)
(* Small instances of LegalConsent.                                        *)
(***************************************************************************)
EXTENDS LegalConsent, TLC

Alike == Permutations(Workers) \cup Permutations(Users)
================================================================================
