--------------------------- MODULE MCAccountsAndAccess -------------------------
(***************************************************************************)
(* Small instances of AccountsAndAccess: the auditors ana and bia of one   *)
(* area, and caio, administrator and manager of another one.               *)
(***************************************************************************)
EXTENDS AccountsAndAccess, TLC, Integers

CONSTANTS ana, bia, caio, piping, civil, pid

Roles == ana :> "AUDITOR" @@ bia :> "AUDITOR" @@ caio :> "ADMIN"
AreaOfUser == ana :> piping @@ bia :> piping @@ caio :> civil
AreasOfDocument == pid :> {piping}
Managers == piping :> ana @@ civil :> caio
Authors == pid :> bia

\* A bound: two users wait for an answer at a time, or one has been answered.
FewRequests ==
    LET pending == {p \in Pairs : access[p] = "PENDING"}
        decided == {p \in Pairs : approver[p] # Nothing}
    IN  Cardinality(pending) + 2 * Cardinality(decided) <= 2

\* A bound: while the document is archived or withdrawn one request is served at
\* a time.
QuietWhileUnlisted ==
    \/ \A d \in Documents : state[d] = "listed"
    \/ Cardinality({w \in Workers : pc[w] # "idle"}) <= 1

\* The steps within the bounds.
BoundedNext == Next /\ FewRequests' /\ QuietWhileUnlisted'
BoundedSpec == Init /\ [][BoundedNext]_vars

Alike == Permutations(Workers)
================================================================================
