--------------------------- MODULE RevisionRegister ----------------------------
(***************************************************************************)
(* What the revision register of a document promises its readers, with no  *)
(* requests, locks or stale reads: revisions are numbered 1, 2, 3, ...,    *)
(* each is decided at most once, by a reviewer who is neither its author   *)
(* nor the responsible of the document, and an approval replaces the       *)
(* current revision by a newer one in a single step.  Names only change    *)
(* when an account is erased, and then all of its names together.          *)
(***************************************************************************)
EXTENDS Integers

CONSTANTS Documents, Users, Reviewers, MaxVersion, NoUser

Versions == 1..MaxVersion

VARIABLES status, author, auditor, responsible

vars == <<status, author, auditor, responsible>>

\* Every document is registered with its first revision pending.
Init ==
    /\ responsible \in [Documents -> Users]
    /\ status = [d \in Documents |->
                   [v \in Versions |-> IF v = 1 THEN "PENDING" ELSE "ABSENT"]]
    /\ author = [d \in Documents |->
                   [v \in Versions |-> IF v = 1 THEN responsible[d] ELSE NoUser]]
    /\ auditor = [d \in Documents |-> [v \in Versions |-> NoUser]]

\* The next number of the document, and no other, gets a pending revision.
Submit(d, v, u) ==
    /\ status[d][v] = "ABSENT"
    /\ \A x \in Versions : x < v => status[d][x] # "ABSENT"
    /\ status' = [status EXCEPT ![d][v] = "PENDING"]
    /\ author' = [author EXCEPT ![d][v] = u]
    /\ UNCHANGED <<auditor, responsible>>

MayDecide(d, v, u) ==
    /\ status[d][v] = "PENDING"
    /\ u \notin {author[d][v], responsible[d]}

Approve(d, v, u) ==
    /\ MayDecide(d, v, u)
    /\ \A x \in Versions : x > v => status[d][x] # "APPROVED"
    /\ status' = [status EXCEPT ![d] =
         [x \in Versions |-> IF x = v THEN "APPROVED"
                             ELSE IF status[d][x] = "APPROVED" THEN "OBSOLETE"
                             ELSE status[d][x]]]
    /\ auditor' = [auditor EXCEPT ![d][v] = u]
    /\ UNCHANGED <<author, responsible>>

Reject(d, v, u) ==
    /\ MayDecide(d, v, u)
    /\ status' = [status EXCEPT ![d][v] = "REJECTED"]
    /\ auditor' = [auditor EXCEPT ![d][v] = u]
    /\ UNCHANGED <<author, responsible>>

HandOver(d, u) ==
    /\ responsible' = [responsible EXCEPT ![d] = u]
    /\ UNCHANGED <<status, author, auditor>>

\* The account of u is erased: everything u did is r's from then on.
Erase(u, r) ==
    LET Heir(x) == IF x = u THEN r ELSE x
    IN  /\ r # u
        /\ responsible' = [d \in Documents |-> Heir(responsible[d])]
        /\ author' = [d \in Documents |-> [v \in Versions |-> Heir(author[d][v])]]
        /\ auditor' = [d \in Documents |-> [v \in Versions |-> Heir(auditor[d][v])]]
        /\ UNCHANGED status

Next ==
    \/ \E u, r \in Users : Erase(u, r)
    \/ \E d \in Documents :
         \/ \E v \in Versions, u \in Users : Submit(d, v, u)
         \/ \E v \in Versions, u \in Reviewers : Approve(d, v, u) \/ Reject(d, v, u)
         \/ \E u \in Users : HandOver(d, u)

Spec == Init /\ [][Next]_vars
================================================================================
