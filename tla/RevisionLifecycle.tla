--------------------------- MODULE RevisionLifecycle ---------------------------
(***************************************************************************)
(* The revisions of the controlled documents and the four requests that    *)
(* act on them: submit a revision (create_document_revision), decide one   *)
(* (decide_revision), archive and restore a document.                      *)
(*                                                                         *)
(* Every request runs in a worker of the web server, against PostgreSQL at *)
(* READ COMMITTED.  A step of a worker is one stretch of code between two  *)
(* points where another request can change what it has read: an unlocked   *)
(* SELECT, the acquisition of a row lock, an INSERT, a COMMIT.  What a     *)
(* request has read stays in call[w] and seen[w] until it writes.          *)
(*                                                                         *)
(* lock[d] is the FOR UPDATE lock on the row of document d.  An INSERT of  *)
(* a revision takes FOR KEY SHARE on that row for its foreign key, which   *)
(* conflicts with FOR UPDATE: a submission commits only while no decision  *)
(* holds the document.                                                     *)
(***************************************************************************)
EXTENDS Integers

CONSTANTS
    Documents,      \* the registered documents
    Users,          \* the application users
    Reviewers,      \* the active users with role AUDITOR or ADMIN
    Managers,       \* for each document, the reviewers of one of its areas
    Workers,        \* the requests the server runs at the same time
    MaxVersion,     \* the largest value of the version column (a smallint)
    NoUser,         \* a NULL foreign key to a user
    NoWorker        \* a row that nobody has locked

ASSUME ConstantsAssumption ==
    /\ MaxVersion \in Nat \ {0}
    /\ Reviewers \subseteq Users
    /\ Managers \in [Documents -> SUBSET Reviewers]
    /\ NoUser \notin Users
    /\ NoWorker \notin Workers

Versions == 1..MaxVersion

\* "ABSENT" stands for a version with no row.
Status == {"ABSENT", "PENDING", "APPROVED", "REJECTED", "OBSOLETE"}
Verdicts == {"APPROVED", "REJECTED"}

VARIABLES
    status,         \* status[d][v]: Revision.status
    author,         \* author[d][v]: Revision.author
    auditor,        \* auditor[d][v]: Revision.auditor, set with audited_at
    responsible,    \* responsible[d]: Document.responsible
    archivedBy,     \* archivedBy[d]: NoUser while archived_at is NULL
    updatedBy,      \* updatedBy[d]: Document.updated_by
    active,         \* active[d]: DocumentType.active of the document's type
    lock,           \* lock[d]: the worker that holds FOR UPDATE on the row
    pc,             \* pc[w]: where the request of worker w stands
    call,           \* call[w]: its arguments
    seen,           \* seen[w]: the column values it has read and still uses
    erased,         \* the users whose row delete_user_account has deleted
    inherited       \* history: the <<d, v>> where an erasure has put somebody
                    \* else for the author or the auditor of a decided revision

revisionTable == <<status, author, auditor>>
documentTable == <<responsible, archivedBy, updatedBy>>
local == <<pc, call, seen>>
surroundings == <<active, erased, inherited>>
vars == <<status, author, auditor, responsible, archivedBy, updatedBy, active,
          lock, pc, call, seen, erased, inherited>>

Archived(d) == archivedBy[d] # NoUser

\* n is the highest version of d, or 0 when d has no revision.
IsLastVersion(d, n) ==
    /\ n = 0 \/ (n \in Versions /\ status[d][n] # "ABSENT")
    /\ \A v \in Versions : v > n => status[d][v] = "ABSENT"

\* p is an APPROVED version of d, or 0 when d has none.
IsCurrent(d, p) ==
    \/ p \in Versions /\ status[d][p] = "APPROVED"
    \/ p = 0 /\ \A v \in Versions : status[d][v] # "APPROVED"

\* Faulty variant: the previous current revision is forgotten.
SupersedeNothing(history, p, v) == [history EXCEPT ![v] = "APPROVED"]

\* The statuses of a document after version v takes over from version p.
Supersede(history, p, v) ==
    [x \in Versions |-> IF x = v THEN "APPROVED"
                        ELSE IF x = p THEN "OBSOLETE"
                        ELSE history[x]]
--------------------------------------------------------------------------------
SubmitSteps == {"revisable", "numbered", "inserted"}
DecideSteps == {"found", "locked"}
ArchiveSteps == {"archiving", "restoring"}
Steps == {"idle"} \cup SubmitSteps \cup DecideSteps \cup ArchiveSteps

SubmitCall == [doc : Documents]
DecideCall == [doc : Documents, version : Versions, user : Reviewers,
               verdict : Verdicts]
ArchiveCall == [doc : Documents, user : Users]

Nothing == [none |-> TRUE]
SubmitSeen == [author : Users, last : 0..MaxVersion]
DecideSeen == [status : Status, author : Users \cup {NoUser},
               responsible : Users, previous : 0..MaxVersion]

\* The types of all variables; what call[w] and seen[w] hold follows pc[w].
TypeOK ==
    /\ status \in [Documents -> [Versions -> Status]]
    /\ author \in [Documents -> [Versions -> Users \cup {NoUser}]]
    /\ auditor \in [Documents -> [Versions -> Users \cup {NoUser}]]
    /\ responsible \in [Documents -> Users]
    /\ archivedBy \in [Documents -> Users \cup {NoUser}]
    /\ updatedBy \in [Documents -> Users]
    /\ active \in [Documents -> BOOLEAN]
    /\ lock \in [Documents -> Workers \cup {NoWorker}]
    /\ pc \in [Workers -> Steps]
    /\ call \in [Workers -> SubmitCall \cup DecideCall \cup ArchiveCall
                              \cup {Nothing}]
    /\ seen \in [Workers -> SubmitSeen \cup DecideSeen \cup {Nothing}]
    /\ \A w \in Workers :
         /\ pc[w] \in SubmitSteps => call[w] \in SubmitCall /\ seen[w] \in SubmitSeen
         /\ pc[w] \in DecideSteps => call[w] \in DecideCall
         /\ pc[w] = "locked" => seen[w] \in DecideSeen
         /\ pc[w] \in ArchiveSteps => call[w] \in ArchiveCall
    /\ erased \subseteq Users
    /\ inherited \subseteq Documents \X Versions

\* create_document has registered every document with its first revision
\* PENDING, authored by the responsible.
Init ==
    /\ responsible \in [Documents -> Users]
    /\ status = [d \in Documents |->
                   [v \in Versions |-> IF v = 1 THEN "PENDING" ELSE "ABSENT"]]
    /\ author = [d \in Documents |->
                   [v \in Versions |-> IF v = 1 THEN responsible[d] ELSE NoUser]]
    /\ auditor = [d \in Documents |-> [v \in Versions |-> NoUser]]
    /\ archivedBy = [d \in Documents |-> NoUser]
    /\ updatedBy = responsible
    /\ active = [d \in Documents |-> TRUE]
    /\ lock = [d \in Documents |-> NoWorker]
    /\ pc = [w \in Workers |-> "idle"]
    /\ call = [w \in Workers |-> Nothing]
    /\ seen = [w \in Workers |-> Nothing]
    /\ erased = {}
    /\ inherited = {}
--------------------------------------------------------------------------------
\* Faulty variant: the locks survive the request.
EndKeepingLocks(w) ==
    /\ pc' = [pc EXCEPT ![w] = "idle"]
    /\ call' = [call EXCEPT ![w] = Nothing]
    /\ seen' = [seen EXCEPT ![w] = Nothing]
    /\ UNCHANGED lock

\* The request of w answers: its transaction is over, so are its locks.
End(w) ==
    /\ pc' = [pc EXCEPT ![w] = "idle"]
    /\ call' = [call EXCEPT ![w] = Nothing]
    /\ seen' = [seen EXCEPT ![w] = Nothing]
    /\ lock' = [d \in Documents |-> IF lock[d] = w THEN NoWorker ELSE lock[d]]

\* The request dies before it commits: an exception it does not handle, a
\* missing, duplicate or unstorable file, a lost connection, a killed worker.
Fail(w) ==
    /\ pc[w] # "idle"
    /\ End(w)
    /\ UNCHANGED <<revisionTable, documentTable, surroundings>>
\* The user the request is about to write into a row has been erased since:
\* the foreign key refuses the row at the commit.
Orphaned(w) ==
    \/ pc[w] = "inserted" /\ seen[w].author \in erased
    \/ pc[w] \in {"locked"} \cup ArchiveSteps /\ call[w].user \in erased

RefuseOrphan(w) ==
    /\ Orphaned(w)
    /\ lock[call[w].doc] \in {w, NoWorker}
    /\ End(w)
    /\ UNCHANGED <<revisionTable, documentTable, surroundings>>
--------------------------------------------------------------------------------
\* Submitting a revision.

\* The unlocked check that the document can be revised; the row it returns
\* also supplies the author of the revision, much later.
FindRevisable(w, d) ==
    /\ pc[w] = "idle"
    /\ ~Archived(d)
    /\ active[d]
    /\ pc' = [pc EXCEPT ![w] = "revisable"]
    /\ call' = [call EXCEPT ![w] = [doc |-> d]]
    /\ seen' = [seen EXCEPT ![w] = [author |-> responsible[d], last |-> 0]]
    /\ UNCHANGED <<revisionTable, documentTable, surroundings, lock>>

\* The unlocked read of the highest version, outside the transaction.
ReadLastVersion(w) ==
    /\ pc[w] = "revisable"
    /\ \E n \in 0..MaxVersion :
         /\ IsLastVersion(call[w].doc, n)
         /\ seen' = [seen EXCEPT ![w].last = n]
    /\ pc' = [pc EXCEPT ![w] = "numbered"]
    /\ UNCHANGED <<revisionTable, documentTable, surroundings, lock, call>>

\* Another transaction has inserted the same (document, version) and not yet
\* ended: the unique index makes this one wait for it.
KeyInFlight(w) ==
    \E o \in Workers \ {w} :
        /\ pc[o] = "inserted"
        /\ call[o].doc = call[w].doc
        /\ seen[o].last = seen[w].last

\* The version after the one read has a row already, or does not fit the
\* column: IntegrityError, DataError.
VersionTaken(w) ==
    LET v == seen[w].last + 1
    IN  v \in Versions => status[call[w].doc][v] # "ABSENT"

InsertRevision(w) ==
    /\ pc[w] = "numbered"
    /\ ~KeyInFlight(w)
    /\ ~VersionTaken(w)
    /\ pc' = [pc EXCEPT ![w] = "inserted"]
    /\ UNCHANGED <<revisionTable, documentTable, surroundings, lock, call, seen>>

RefuseInsert(w) ==
    /\ pc[w] = "numbered"
    /\ ~KeyInFlight(w)
    /\ VersionTaken(w)
    /\ End(w)
    /\ UNCHANGED <<revisionTable, documentTable, surroundings>>

\* The files are rows and in the store; the row becomes visible.
CommitSubmission(w) ==
    LET d == call[w].doc
        v == seen[w].last + 1
    IN  /\ pc[w] = "inserted"
        /\ ~Orphaned(w)
        /\ lock[d] = NoWorker
        /\ status' = [status EXCEPT ![d][v] = "PENDING"]
        /\ author' = [author EXCEPT ![d][v] = seen[w].author]
        /\ End(w)
        /\ UNCHANGED <<auditor, documentTable, surroundings>>
--------------------------------------------------------------------------------
\* Deciding a revision.

\* The unlocked lookup of the document of the revision.
FindRevision(w, d, v, u, x) ==
    /\ pc[w] = "idle"
    /\ u \notin erased
    /\ status[d][v] # "ABSENT"
    /\ active[d]
    /\ ~Archived(d)
    /\ pc' = [pc EXCEPT ![w] = "found"]
    /\ call' = [call EXCEPT ![w] =
                  [doc |-> d, version |-> v, user |-> u, verdict |-> x]]
    /\ UNCHANGED <<revisionTable, documentTable, surroundings, lock, seen>>

\* Faulty variant: plain reads.
ReadDocument(w) ==
    LET d == call[w].doc
        v == call[w].version
    IN  /\ pc[w] = "found"
        /\ pc' = [pc EXCEPT ![w] = "locked"]
        /\ \E p \in 0..MaxVersion :
             /\ IsCurrent(d, p)
             /\ seen' = [seen EXCEPT ![w] =
                           [status |-> status[d][v], author |-> author[d][v],
                            responsible |-> responsible[d], previous |-> p]]
        /\ UNCHANGED <<revisionTable, documentTable, surroundings, lock, call>>

\* select_for_update on the document, then on the revision and on the current
\* revision: only the holder of the document takes the other two.
LockDocument(w) ==
    LET d == call[w].doc
        v == call[w].version
    IN  /\ pc[w] = "found"
        /\ lock[d] = NoWorker
        /\ lock' = [lock EXCEPT ![d] = w]
        /\ pc' = [pc EXCEPT ![w] = "locked"]
        /\ \E p \in 0..MaxVersion :
             /\ IsCurrent(d, p)
             /\ seen' = [seen EXCEPT ![w] =
                           [status |-> status[d][v], author |-> author[d][v],
                            responsible |-> responsible[d], previous |-> p]]
        /\ UNCHANGED <<revisionTable, documentTable, surroundings, call>>

\* Faulty variant: the check is missing.
NeverDecided(w) == FALSE

\* The refusals of a decision that holds its locks.
AlreadyDecided(w) == seen[w].status # "PENDING"
OwnRevision(w) == call[w].user \in {seen[w].author, seen[w].responsible}
Outdated(w) == call[w].verdict = "APPROVED" /\ seen[w].previous > call[w].version

RefuseDecision(w) ==
    /\ pc[w] = "locked"
    /\ AlreadyDecided(w) \/ OwnRevision(w) \/ Outdated(w)
    /\ End(w)
    /\ UNCHANGED <<revisionTable, documentTable, surroundings>>

Accepted(w) ==
    /\ pc[w] = "locked"
    /\ ~Orphaned(w)
    /\ ~AlreadyDecided(w)
    /\ ~OwnRevision(w)
    /\ ~Outdated(w)

\* The previous approved revision becomes OBSOLETE, the document remembers
\* the reviewer, the revision is APPROVED; commit.
ApproveRevision(w) ==
    LET d == call[w].doc
        v == call[w].version
    IN  /\ Accepted(w)
        /\ call[w].verdict = "APPROVED"
        /\ status' = [status EXCEPT ![d] = Supersede(@, seen[w].previous, v)]
        /\ updatedBy' = [updatedBy EXCEPT ![d] = call[w].user]
        /\ auditor' = [auditor EXCEPT ![d][v] = call[w].user]
        /\ End(w)
        /\ UNCHANGED <<author, responsible, archivedBy, surroundings>>

\* Faulty variant: a rejection retires the current revision, as an approval does.
RejectAndRetire(w) ==
    LET d == call[w].doc
        v == call[w].version
    IN  /\ Accepted(w)
        /\ call[w].verdict = "REJECTED"
        /\ status' = [status EXCEPT ![d] =
             [x \in Versions |-> IF x = v THEN "REJECTED"
                                 ELSE IF x = seen[w].previous THEN "OBSOLETE"
                                 ELSE @[x]]]
        /\ auditor' = [auditor EXCEPT ![d][v] = call[w].user]
        /\ End(w)
        /\ UNCHANGED <<author, documentTable, surroundings>>

RejectRevision(w) ==
    LET d == call[w].doc
        v == call[w].version
    IN  /\ Accepted(w)
        /\ call[w].verdict = "REJECTED"
        /\ status' = [status EXCEPT ![d][v] = "REJECTED"]
        /\ auditor' = [auditor EXCEPT ![d][v] = call[w].user]
        /\ End(w)
        /\ UNCHANGED <<author, documentTable, surroundings>>
--------------------------------------------------------------------------------
\* Archiving and restoring.  SELECT ... FOR UPDATE picks the row as it stands
\* when the statement starts, waits for the lock and evaluates the filter on
\* the row again; the rest of the transaction waits for nobody.

FindToArchive(w, d, u) ==
    /\ pc[w] = "idle"
    /\ u \notin erased
    /\ active[d]
    /\ ~Archived(d)
    /\ pc' = [pc EXCEPT ![w] = "archiving"]
    /\ call' = [call EXCEPT ![w] = [doc |-> d, user |-> u]]
    /\ UNCHANGED <<revisionTable, documentTable, surroundings, lock, seen>>

FindToRestore(w, d, u) ==
    /\ pc[w] = "idle"
    /\ u \notin erased
    /\ active[d]
    /\ Archived(d)
    /\ pc' = [pc EXCEPT ![w] = "restoring"]
    /\ call' = [call EXCEPT ![w] = [doc |-> d, user |-> u]]
    /\ UNCHANGED <<revisionTable, documentTable, surroundings, lock, seen>>

\* can_archive_document
CanArchive(w) == call[w].user \in Managers[call[w].doc]

ArchiveDocument(w) ==
    LET d == call[w].doc
    IN  /\ pc[w] = "archiving"
        /\ lock[d] = NoWorker
        /\ ~Archived(d)
        /\ CanArchive(w)
        /\ ~Orphaned(w)
        /\ archivedBy' = [archivedBy EXCEPT ![d] = call[w].user]
        /\ updatedBy' = [updatedBy EXCEPT ![d] = call[w].user]
        /\ End(w)
        /\ UNCHANGED <<revisionTable, responsible, surroundings>>

RestoreDocument(w) ==
    LET d == call[w].doc
    IN  /\ pc[w] = "restoring"
        /\ lock[d] = NoWorker
        /\ Archived(d)
        /\ CanArchive(w)
        /\ ~Orphaned(w)
        /\ archivedBy' = [archivedBy EXCEPT ![d] = NoUser]
        /\ updatedBy' = [updatedBy EXCEPT ![d] = call[w].user]
        /\ End(w)
        /\ UNCHANGED <<revisionTable, responsible, surroundings>>

\* DocumentNotFoundError, ArchivePermissionDeniedError
RefuseArchiving(w) ==
    LET d == call[w].doc
    IN  /\ pc[w] \in ArchiveSteps
        /\ lock[d] = NoWorker
        /\ ~CanArchive(w) \/ (Archived(d) <=> pc[w] = "archiving")
        /\ End(w)
        /\ UNCHANGED <<revisionTable, documentTable, surroundings>>
--------------------------------------------------------------------------------
\* The rest of the application, as far as these requests can tell.

\* Faulty variant: the document is not locked, only the revision is.
HandOverAtOnce(d, u) ==
    /\ u # responsible[d]
    /\ responsible' = [responsible EXCEPT ![d] = u]
    /\ UNCHANGED <<revisionTable, archivedBy, updatedBy, surroundings, lock, local>>

\* The responsible is dismissed (anonymize_user) and the document gets another
\* one: an UPDATE that waits for the lock of the row.
HandOver(d, u) ==
    /\ lock[d] = NoWorker
    /\ u \notin erased
    /\ u # responsible[d]
    /\ responsible' = [responsible EXCEPT ![d] = u]
    /\ UNCHANGED <<revisionTable, archivedBy, updatedBy, surroundings, lock, local>>

Replaced(x, u, r) == IF x = u THEN r ELSE x

\* The rows the decision of w has locked beside the document: u is named in one.
HoldsRowOf(w, u) ==
    /\ pc[w] = "locked"
    /\ \E v \in {call[w].version, seen[w].previous} \cap Versions :
         u \in {author[call[w].doc][v], auditor[call[w].doc][v]}

\* Faulty variant: the auditor's foreign key is cleared with the account.
ReassignAndClearAuditor(u, r) ==
    /\ responsible' = [d \in Documents |-> Replaced(responsible[d], u, r)]
    /\ updatedBy' = [d \in Documents |-> Replaced(updatedBy[d], u, r)]
    /\ archivedBy' = [d \in Documents |-> Replaced(archivedBy[d], u, r)]
    /\ author' = [d \in Documents |->
                    [v \in Versions |-> Replaced(author[d][v], u, r)]]
    /\ auditor' = [d \in Documents |->
                     [v \in Versions |-> Replaced(auditor[d][v], u, NoUser)]]

\* The rows of u go to r: documents, authorship and decisions alike.
Reassign(u, r) ==
    /\ responsible' = [d \in Documents |-> Replaced(responsible[d], u, r)]
    /\ updatedBy' = [d \in Documents |-> Replaced(updatedBy[d], u, r)]
    /\ archivedBy' = [d \in Documents |-> Replaced(archivedBy[d], u, r)]
    /\ author' = [d \in Documents |->
                    [v \in Versions |-> Replaced(author[d][v], u, r)]]
    /\ auditor' = [d \in Documents |->
                     [v \in Versions |-> Replaced(auditor[d][v], u, r)]]

\* delete_user_account.  It waits for the locks of the rows it rewrites and
\* keeps them to its commit; a row that names u and was committed behind its
\* back makes the foreign key refuse the deletion, so what commits is one step.
EraseAccount(u, r) ==
    /\ u \notin erased
    /\ r \notin erased \cup {u}
    /\ \A d \in Documents :
         u \in {responsible[d], updatedBy[d], archivedBy[d]} => lock[d] = NoWorker
    /\ \A w \in Workers : ~HoldsRowOf(w, u)
    /\ Reassign(u, r)
    /\ erased' = erased \cup {u}
    /\ inherited' = inherited \cup
         {k \in Documents \X Versions :
            /\ auditor[k[1]][k[2]] # NoUser
            /\ u \in {author[k[1]][k[2]], auditor[k[1]][k[2]]}}
    /\ UNCHANGED <<status, active, lock, local>>

\* An operator switches the type of the document on or off.
SwitchType(d) ==
    /\ active' = [active EXCEPT ![d] = ~@]
    /\ UNCHANGED <<revisionTable, documentTable, lock, local, erased, inherited>>
--------------------------------------------------------------------------------
\* The steps with which the code itself carries the request of w on.
Proceed(w) ==
    \/ ReadLastVersion(w) \/ InsertRevision(w) \/ RefuseInsert(w)
    \/ CommitSubmission(w)
    \/ LockDocument(w) \/ RefuseDecision(w)
    \/ ApproveRevision(w) \/ RejectRevision(w)
    \/ ArchiveDocument(w) \/ RestoreDocument(w) \/ RefuseArchiving(w)
    \/ RefuseOrphan(w)

Arrive(w) ==
    \E d \in Documents :
        \/ FindRevisable(w, d)
        \/ \E v \in Versions, u \in Reviewers, x \in Verdicts :
             FindRevision(w, d, v, u, x)
        \/ \E u \in Users : FindToArchive(w, d, u) \/ FindToRestore(w, d, u)

Environment ==
    \/ \E d \in Documents : SwitchType(d) \/ \E u \in Users : HandOver(d, u)
    \/ \E u, r \in Users : EraseAccount(u, r)

Next ==
    \/ \E w \in Workers : Arrive(w) \/ Proceed(w) \/ Fail(w)
    \/ Environment

Spec == Init /\ [][Next]_vars

\* PostgreSQL serves the waiters of a lock in the order in which they came,
\* and a statement that waits for nothing runs: a request that can proceed
\* again and again does proceed.
Fairness == \A w \in Workers : SF_vars(Proceed(w))

FairSpec == Spec /\ Fairness
--------------------------------------------------------------------------------
\* The version number of a revision is read before the transaction, without a
\* lock, and written later: the revisions of a document are nevertheless
\* numbered without gaps (README: "the version is the latest one plus one").
VersionsContiguous ==
    \A d \in Documents : \A v \in Versions :
        status[d][v] # "ABSENT" => \A x \in 1..v : status[d][x] # "ABSENT"

\* However decisions interleave, a document has at most one APPROVED revision:
\* the constraint uq_revision_current never has to refuse a decision.
OneCurrent ==
    \A d \in Documents : \A v, x \in Versions :
        status[d][v] = "APPROVED" /\ status[d][x] = "APPROVED" => v = x

\* A revision only becomes OBSOLETE for a newer one: above it the document
\* still has an APPROVED revision, whatever was decided in between.
ObsoleteHasSuccessor ==
    \A d \in Documents : \A v \in Versions :
        status[d][v] = "OBSOLETE" =>
            \E x \in Versions : x > v /\ status[d][x] = "APPROVED"

\* A decided revision names a reviewer who is not its author, also when the
\* document changed hands between the submission and the decision.  The one
\* exception is an erasure after the decision (_reassign_history): it writes
\* its replacement, whoever that is, into both columns.
AuditorIsNotAuthor ==
    \A d \in Documents : \A v \in Versions :
        status[d][v] \in {"APPROVED", "REJECTED", "OBSOLETE"} =>
            \/ auditor[d][v] \in Reviewers \ {author[d][v]}
            \/ <<d, v>> \in inherited

\* What a decision has read under its locks still is in the tables when it
\* writes: neither another decision, nor a submission that commits, nor a
\* change of responsible gets in between.
DecisionReadsStayTrue ==
    \A w \in Workers : pc[w] = "locked" =>
        LET d == call[w].doc
            v == call[w].version
        IN  /\ lock[d] = w
            /\ seen[w].status = status[d][v]
            /\ seen[w].author = author[d][v]
            /\ seen[w].responsible = responsible[d]
            /\ IsCurrent(d, seen[w].previous)

\* Two submissions never hold the same version of the same document, and the
\* version of an uncommitted revision is the next one of the document.
InsertedVersionIsNext ==
    \A w \in Workers : pc[w] = "inserted" =>
        /\ IsLastVersion(call[w].doc, seen[w].last)
        /\ seen[w].last < MaxVersion
        /\ ~KeyInFlight(w)

\* The rows a request under way relies on are still there: the revision it is
\* deciding, the last revision whose number it has read.
RequestsReferToRows ==
    \A w \in Workers :
        /\ pc[w] \in DecideSteps => status[call[w].doc][call[w].version] # "ABSENT"
        /\ pc[w] \in {"numbered", "inserted"} =>
             \/ seen[w].last = 0
             \/ status[call[w].doc][seen[w].last] # "ABSENT"

\* The inductive invariant: what is above, with what it rests on.
IInv ==
    /\ TypeOK
    /\ VersionsContiguous
    /\ OneCurrent
    /\ ObsoleteHasSuccessor
    /\ AuditorIsNotAuthor
    /\ DecisionReadsStayTrue
    /\ InsertedVersionIsNext
    /\ RequestsReferToRows

\* A decision is final: the only change left is an approved revision becoming
\* obsolete (two managers deciding the same revision at the same moment
\* included), and it keeps its auditor until the account of the auditor is
\* erased, in which step the name goes to a remaining user.
DecisionIsFinal ==
    [][\A d \in Documents : \A v \in Versions :
         LET before == status[d][v]
             after == status'[d][v]
         IN  /\ before # after =>
                  \/ before = "ABSENT" /\ after = "PENDING"
                  \/ before = "PENDING" /\ after \in Verdicts
                  \/ before = "APPROVED" /\ after = "OBSOLETE"
             /\ before \in {"APPROVED", "REJECTED", "OBSOLETE"} =>
                  \/ auditor'[d][v] = auditor[d][v]
                  \/ /\ auditor[d][v] \in erased' \ erased
                     /\ auditor'[d][v] \in Users \ erased']_vars

\* The current revision of a document only moves to a newer one and is never
\* lost: an older pending revision, approved late, does not come back.
CurrentMovesForward ==
    [][\A d \in Documents : \A v \in Versions :
         status[d][v] = "APPROVED" =>
             \E x \in Versions : x >= v /\ status'[d][x] = "APPROVED"]_vars

\* At the moment a decision takes effect the reviewer is neither the author of
\* the revision nor the responsible of the document, even if the document was
\* handed over to the reviewer while the decision was under way.
DecidedByAThirdParty ==
    [][\A d \in Documents : \A v \in Versions :
         status[d][v] = "PENDING" /\ status'[d][v] # "PENDING" =>
             auditor'[d][v] \notin {author[d][v], responsible[d]}]_vars

\* The register the readers see is the abstract one: each step of a request
\* that is not one atomic submission, approval or rejection changes nothing.
Register == INSTANCE RevisionRegister
ImplementsRegister == Register!Spec

\* Every request answers: nobody waits for a lock for ever, and no refusal
\* leaves a lock behind.
RequestsAnswer == \A w \in Workers : pc[w] # "idle" ~> pc[w] = "idle"

\* README, DELETE /documents/<id>: "From then on the document behaves as if it
\* did not exist", in POST /documents/<id>/revisions and in the managers' queue
\* of revisions: it gets no new revision and none is decided.
ArchivedAreLeftAlone ==
    [][\A d \in Documents : Archived(d) => status'[d] = status[d]]_vars
================================================================================
