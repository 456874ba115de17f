-------------------------- MODULE MCRevisionLifecycle --------------------------
(***************************************************************************)
(* Small instances of RevisionLifecycle: bruno is the only reviewer of the *)
(* area every document is classified under.                                *)
(***************************************************************************)
EXTENDS RevisionLifecycle, TLC

CONSTANT bruno

MCManagers == [d \in Documents |-> {bruno}]

WorkersAlike == Permutations(Workers)
================================================================================
