----------------------------- MODULE LegalConsent ------------------------------
(***************************************************************************)
(* The terms of use: users accept the current published version of a legal *)
(* document (record_acceptance) and revoke acceptances                     *)
(* (revoke_acceptance).  The acceptances are evidence and stay; the column *)
(* terms_accepted_at of the user repeats the date of one of them.          *)
(*                                                                         *)
(* Both requests lock the row they act on and compute what they write to   *)
(* the user from what they read; neither locks the user.  No lock variable *)
(* is needed: the step of a request tells what it has locked, and the row  *)
(* of the user is only locked within the step that writes it and commits.  *)
(*                                                                         *)
(* accepted_at is the time of the INSERT: acceptances are numbered in that *)
(* order, and the number stands for the date, 0 for NULL.                  *)
(***************************************************************************)
EXTENDS Integers

CONSTANTS
    Users,
    Terms,              \* the legal documents
    Workers,            \* the requests the server runs at the same time
    MaxVersion,         \* bound: versions of a legal document
    MaxAcceptances,     \* bound: acceptances ever inserted
    Nobody

ASSUME ConstantsAssumption ==
    /\ Terms # {}               \* the seed makes them
    /\ {MaxVersion, MaxAcceptances} \subseteq Nat \ {0}
    /\ Nobody \notin Users

Editions == Terms \X (1..MaxVersion)
Ids == 1..MaxAcceptances

VARIABLES
    status,         \* status[e]: LegalDocumentVersion.status
    signer,         \* signer[a]: who signed acceptance a, once committed
    edition,        \* edition[a]: what was signed
    revoked,        \* revoked[a]: revoked_at is set
    terms,          \* terms[u]: User.terms_accepted_at
    account,        \* account[u]: active, deactivated, or no row left
    inserted,       \* how many acceptances were inserted, committed or not
    pc,             \* pc[w]: where the request of worker w stands
    call,           \* call[w]: its user, and the edition or acceptance
    seen            \* seen[w]: the date it will write to the user

acceptanceTable == <<signer, edition, revoked>>
userTable == <<terms, account>>
local == <<pc, call, seen>>
vars == <<status, signer, edition, revoked, terms, account, inserted,
          pc, call, seen>>

AcceptSteps == {"accepting", "examined", "signed"}
RevokeSteps == {"revoking", "revoked"}
AcceptCall == [user : Users, edition : Editions]
RevokeCall == [user : Users, id : Ids]
Idle == [user |-> Nobody]

TypeOK ==
    /\ status \in [Editions -> {"DRAFT", "PUBLISHED", "RETIRED"}]
    /\ signer \in [Ids -> Users \cup {Nobody}]
    /\ edition \in [Ids -> Editions]
    /\ revoked \in [Ids -> BOOLEAN]
    /\ terms \in [Users -> 0..MaxAcceptances]
    /\ account \in [Users -> {"active", "removed", "erased"}]
    /\ inserted \in 0..MaxAcceptances
    /\ pc \in [Workers -> {"idle"} \cup AcceptSteps \cup RevokeSteps]
    /\ call \in [Workers -> AcceptCall \cup RevokeCall \cup {Idle}]
    /\ seen \in [Workers -> 0..MaxAcceptances]
    /\ \A w \in Workers :
         /\ pc[w] \in AcceptSteps => call[w] \in AcceptCall
         /\ pc[w] \in RevokeSteps => call[w] \in RevokeCall

\* The first version of every legal document is published, the others are
\* drafts (seed command, create_next_version).  The edition of an acceptance
\* that does not exist is any.
Init ==
    /\ status = [e \in Editions |-> IF e[2] = 1 THEN "PUBLISHED" ELSE "DRAFT"]
    /\ signer = [a \in Ids |-> Nobody]
    /\ edition = [a \in Ids |-> CHOOSE e \in Editions : TRUE]
    /\ revoked = [a \in Ids |-> FALSE]
    /\ terms = [u \in Users |-> 0]
    /\ account = [u \in Users |-> "active"]
    /\ inserted = 0
    /\ pc = [w \in Workers |-> "idle"]
    /\ call = [w \in Workers |-> Idle]
    /\ seen = [w \in Workers |-> 0]
--------------------------------------------------------------------------------
\* Faulty variant: the condition of the filter and of the index is inverted.
RevokedOf(u, e) ==
    {a \in Ids : signer[a] = u /\ edition[a] = e /\ revoked[a]}

InForce(u, e) ==
    {a \in Ids : signer[a] = u /\ edition[a] = e /\ ~revoked[a]}

\* Faulty variants: the version is read without a lock; the lock is given up
\* after the INSERT.
NeverLocked(e, requests) == FALSE

LockedUntilSigned(e, requests) ==
    \E o \in requests : pc[o] = "examined" /\ call[o].edition = e

\* The row of edition e is locked FOR NO KEY UPDATE by one of the requests.
EditionLocked(e, requests) ==
    \E o \in requests : pc[o] \in {"examined", "signed"} /\ call[o].edition = e

AcceptanceLocked(a, requests) ==
    \E o \in requests : pc[o] = "revoked" /\ call[o].id = a

End(w) ==
    /\ pc' = [pc EXCEPT ![w] = "idle"]
    /\ call' = [call EXCEPT ![w] = Idle]
    /\ seen' = [seen EXCEPT ![w] = 0]

\* Any exception, an audit row that cannot be written included: roll-back.
Fail(w) ==
    /\ pc[w] # "idle"
    /\ End(w)
    /\ UNCHANGED <<status, acceptanceTable, userTable, inserted>>

StartAcceptance(w, u, e) ==
    /\ pc[w] = "idle"
    /\ account[u] = "active"
    /\ pc' = [pc EXCEPT ![w] = "accepting"]
    /\ call' = [call EXCEPT ![w] = [user |-> u, edition |-> e]]
    /\ UNCHANGED <<status, acceptanceTable, userTable, inserted, seen>>

StartRevocation(w, u, a) ==
    /\ pc[w] = "idle"
    /\ account[u] = "active"
    /\ pc' = [pc EXCEPT ![w] = "revoking"]
    /\ call' = [call EXCEPT ![w] = [user |-> u, id |-> a]]
    /\ UNCHANGED <<status, acceptanceTable, userTable, inserted, seen>>
--------------------------------------------------------------------------------
\* Accepting.

IsCurrent(e) ==
    /\ status[e] = "PUBLISHED"
    /\ \A x \in Editions : x[1] = e[1] /\ status[x] = "PUBLISHED" => x[2] <= e[2]

Acceptable(w) ==
    LET e == call[w].edition
    IN  InForce(call[w].user, e) = {} /\ IsCurrent(e)

\* select_for_update(no_key=True) on the version, then the three checks.
ExamineEdition(w) ==
    /\ pc[w] = "accepting"
    /\ ~EditionLocked(call[w].edition, Workers \ {w})
    /\ Acceptable(w)
    /\ pc' = [pc EXCEPT ![w] = "examined"]
    /\ UNCHANGED <<status, acceptanceTable, userTable, inserted, call, seen>>

\* Not published, already accepted, or outdated.
RefuseAcceptance(w) ==
    /\ pc[w] = "accepting"
    /\ ~EditionLocked(call[w].edition, Workers \ {w})
    /\ ~Acceptable(w)
    /\ End(w)
    /\ UNCHANGED <<status, acceptanceTable, userTable, inserted>>

\* INSERT.  The unique index uq_user_legal_acceptance_in_force waits for a row
\* of another request that is not committed, and makes a second one Fail.
SignEdition(w) ==
    /\ pc[w] = "examined"
    /\ InForce(call[w].user, call[w].edition) = {}
    /\ \A o \in Workers \ {w} : pc[o] = "signed" => call[o] # call[w]
    /\ inserted < MaxAcceptances
    /\ inserted' = inserted + 1
    /\ seen' = [seen EXCEPT ![w] = inserted + 1]
    /\ pc' = [pc EXCEPT ![w] = "signed"]
    /\ UNCHANGED <<status, acceptanceTable, userTable, call>>

\* The date goes to the user, whatever it is now; audit row; commit.  A user
\* whose row is gone makes save() raise.
CommitAcceptance(w) ==
    LET a == seen[w]
        u == call[w].user
    IN  /\ pc[w] = "signed"
        /\ account[u] # "erased"
        /\ signer' = [signer EXCEPT ![a] = u]
        /\ edition' = [edition EXCEPT ![a] = call[w].edition]
        /\ terms' = [terms EXCEPT ![u] = a]
        /\ End(w)
        /\ UNCHANGED <<status, revoked, account, inserted>>
--------------------------------------------------------------------------------
\* Revoking.

\* Faulty variant: the filter on the user is missing.
IsLatestOfAnybody(n, u, a) ==
    LET others == {x \in Ids : x # a /\ signer[x] # Nobody /\ ~revoked[x]}
    IN  (n = 0 \/ n \in others) /\ \A x \in others : x <= n

\* n is the latest committed acceptance of u in force, a left out, or 0.
IsLatest(n, u, a) ==
    LET others == {x \in Ids : x # a /\ signer[x] = u /\ ~revoked[x]}
    IN  (n = 0 \/ n \in others) /\ \A x \in others : x <= n

Revocable(w) ==
    LET a == call[w].id
    IN  signer[a] = call[w].user /\ ~revoked[a]

\* select_for_update on the acceptance, revoked_at set but not committed, and
\* the date of the latest acceptance that is left.
RevokeAcceptance(w) ==
    /\ pc[w] = "revoking"
    /\ ~AcceptanceLocked(call[w].id, Workers \ {w})
    /\ Revocable(w)
    /\ \E n \in 0..MaxAcceptances :
         /\ IsLatest(n, call[w].user, call[w].id)
         /\ seen' = [seen EXCEPT ![w] = n]
    /\ pc' = [pc EXCEPT ![w] = "revoked"]
    /\ UNCHANGED <<status, acceptanceTable, userTable, inserted, call>>

\* Of nobody, of another user, or revoked already.
RefuseRevocation(w) ==
    /\ pc[w] = "revoking"
    /\ ~AcceptanceLocked(call[w].id, Workers \ {w})
    /\ ~Revocable(w)
    /\ End(w)
    /\ UNCHANGED <<status, acceptanceTable, userTable, inserted>>

\* Faulty variant: the row is deleted.
DeleteAcceptance(w) ==
    /\ pc[w] = "revoked"
    /\ signer' = [signer EXCEPT ![call[w].id] = Nobody]
    /\ terms' = [terms EXCEPT ![call[w].user] = seen[w]]
    /\ End(w)
    /\ UNCHANGED <<status, revoked, edition, account, inserted>>

\* The acceptance is revoked, and the user gets the date that was read.
CommitRevocation(w) ==
    /\ pc[w] = "revoked"
    /\ revoked' = [revoked EXCEPT ![call[w].id] = TRUE]
    /\ terms' = [terms EXCEPT ![call[w].user] = seen[w]]
    /\ End(w)
    /\ UNCHANGED <<status, signer, edition, account, inserted>>
--------------------------------------------------------------------------------
\* No code of the repository publishes a draft or retires a version: an operator
\* does, by an UPDATE of the row, which waits while the row is locked.
Publish(e) ==
    /\ status[e] = "DRAFT"
    /\ status' = [status EXCEPT ![e] = "PUBLISHED"]
    /\ UNCHANGED <<acceptanceTable, userTable, inserted, local>>

Retire(e) ==
    /\ status[e] = "PUBLISHED"
    /\ ~EditionLocked(e, Workers)
    /\ status' = [status EXCEPT ![e] = "RETIRED"]
    /\ UNCHANGED <<acceptanceTable, userTable, inserted, local>>

\* anonymize_user, as far as it touches these tables; the requests the user
\* has under way were authenticated before.
RemoveAccount(u) ==
    /\ account[u] = "active"
    /\ account' = [account EXCEPT ![u] = "removed"]
    /\ terms' = [terms EXCEPT ![u] = 0]
    /\ UNCHANGED <<status, acceptanceTable, inserted, local>>

\* delete_user_account: the only operation that deletes acceptances; it waits
\* for those that are being revoked.
EraseAccount(u) ==
    LET own == {a \in Ids : signer[a] = u}
    IN  /\ account[u] # "erased"
        /\ \A a \in own : ~AcceptanceLocked(a, Workers)
        /\ account' = [account EXCEPT ![u] = "erased"]
        /\ terms' = [terms EXCEPT ![u] = 0]
        /\ signer' = [a \in Ids |-> IF a \in own THEN Nobody ELSE signer[a]]
        /\ revoked' = [a \in Ids |-> revoked[a] /\ a \notin own]
        /\ UNCHANGED <<status, edition, inserted, local>>
--------------------------------------------------------------------------------
Proceed(w) ==
    \/ ExamineEdition(w) \/ RefuseAcceptance(w) \/ SignEdition(w)
    \/ CommitAcceptance(w)
    \/ RevokeAcceptance(w) \/ RefuseRevocation(w) \/ CommitRevocation(w)

Start(w) ==
    \E u \in Users :
        \/ \E e \in Editions : StartAcceptance(w, u, e)
        \/ \E a \in Ids : StartRevocation(w, u, a)

Next ==
    \/ \E w \in Workers : Start(w) \/ Proceed(w) \/ Fail(w)
    \/ \E e \in Editions : Publish(e) \/ Retire(e)
    \/ \E u \in Users : RemoveAccount(u) \/ EraseAccount(u)

Spec == Init /\ [][Next]_vars
--------------------------------------------------------------------------------
\* What the locks and the numbers keep true while requests are under way.

\* A request that has examined its version holds it alone, published as it was.
EditionsAreHeld ==
    \A w \in Workers : pc[w] \in {"examined", "signed"} =>
        /\ status[call[w].edition] = "PUBLISHED"
        /\ ~EditionLocked(call[w].edition, Workers \ {w})

\* The number of an INSERT that is not committed is of no row and of no other
\* request; rows have numbers that were given.
NumbersAreFresh ==
    /\ \A a \in Ids : signer[a] # Nobody => a <= inserted
    /\ \A w \in Workers : pc[w] = "signed" =>
         /\ seen[w] \in 1..inserted
         /\ signer[seen[w]] = Nobody
         /\ \A o \in Workers \ {w} : pc[o] = "signed" => seen[o] # seen[w]

\* What a revocation has locked and read is still there: an account cannot be
\* erased meanwhile.
ReadDatesRemain ==
    \A w \in Workers : pc[w] = "revoked" =>
        /\ signer[call[w].id] = call[w].user
        /\ seen[w] # 0 => signer[seen[w]] = call[w].user

\* A user has at most one acceptance of a version in force, also when the form
\* is sent twice at the same moment or again after a revocation.
OneInForce ==
    \A a, x \in Ids :
        /\ signer[a] # Nobody /\ ~revoked[a] /\ ~revoked[x]
        /\ signer[a] = signer[x] /\ edition[a] = edition[x]
        => a = x

\* The lock on the version is enough: nobody who has passed the checks meets
\* the unique index, so a user who accepts twice always gets the answer 409.
IndexIsNeverNeeded ==
    \A w \in Workers : pc[w] \in {"examined", "signed"} =>
        InForce(call[w].user, call[w].edition) = {}

\* Whatever races there are, the date on the user is the date of a committed
\* acceptance of that user, never of a rolled-back one or of somebody else.
DateIsOfOwnAcceptance ==
    \A u \in Users : terms[u] # 0 => signer[terms[u]] = u

\* Rows and requests have their types, and the date refers to a row of the user.
RowsAreSound == TypeOK /\ DateIsOfOwnAcceptance

\* The invariant that carries the others from step to step.
IInv ==
    /\ RowsAreSound /\ OneInForce /\ IndexIsNeverNeeded
    /\ EditionsAreHeld /\ NumbersAreFresh /\ ReadDatesRemain

\* Evidence is only ever added to: an acceptance that was committed keeps its
\* signer and its version, and a revocation is not taken back, until the
\* account of the signer is erased.
EvidenceIsKept ==
    [][\A a \in Ids :
         signer[a] # Nobody /\ account'[signer[a]] # "erased" =>
         /\ signer'[a] = signer[a]
         /\ edition'[a] = edition[a]
         /\ revoked[a] => revoked'[a]]_vars

\* A version that is retired while somebody is accepting it gets no acceptance
\* after its retirement.
SignedWhilePublished ==
    [][\A a \in Ids : signer[a] = Nobody /\ signer'[a] # Nobody =>
         status[edition'[a]] = "PUBLISHED"]_vars

\* The acceptance a user is measured by, when no request is under way.
\* README, POST .../revoke: "terms_accepted_at of the user moves to the most
\* recent acceptance still in force (or null)".  One request at a time keeps
\* it; two do not.
DateFollowsAcceptances ==
    \A u \in Users :
        account[u] = "active" /\ (\A w \in Workers : pc[w] = "idle") => IsLatest(terms[u], u, 0)
================================================================================
