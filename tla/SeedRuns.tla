------------------------------- MODULE SeedRuns --------------------------------
(***************************************************************************)
(* The command seed over a database that is used between its runs.  A run  *)
(* is one transaction: it finds each row by its natural key, creates the   *)
(* rows it does not find, and leaves the others as they are, except that   *)
(* the managers of the areas, and the areas and tags of the documents      *)
(* (constant here), are assigned anew.  What breaks a rule raises and      *)
(* rolls the run back.  Between runs, accounts are renamed, removed or     *)
(* erased, documents change hands and revisions are submitted and decided. *)
(*                                                                         *)
(* The data are constants, so that what holds of the runs holds whatever   *)
(* data they are given; module SeedData has those of the repository.       *)
(*                                                                         *)
(* An account is named <<key, n>>: the one that the n-th run that created  *)
(* accounts created for the e-mail key@akaer.local.                        *)
(***************************************************************************)
EXTENDS Integers, FiniteSets, Sequences, Functions

CONSTANTS
    NoRow,              \* no user, no day
    SeedManagers,       \* the manager of each area, by their key
    SeedUsers,          \* the users, by their key
    SeedProjects, SeedDisciplines, SeedTypes,   \* the codes of the catalogs
    SeedDocuments,      \* the documents, by their code
    SeedRevisions,      \* the revisions of a document, in the order of their versions
    FilesByType,        \* the extensions of the files of a revision
    SeedAccesses,       \* the requests for access
    SeedClauses,        \* the clauses of the term
    UsedAccounts,       \* the keys whose accounts change between runs
    UsedDocuments,      \* the documents that do
    UsedAreas,          \* the areas that accounts move to
    UsedTypes,          \* the types that documents get
    MaxEdits            \* bound on the changes

Decisions == {"APPROVED", "REJECTED", "OBSOLETE"}

SeedVersions == UNION {{<<code, v>> : v \in DOMAIN SeedRevisions[code]} : code \in DOMAIN SeedRevisions}

SeedRow(r) == SeedRevisions[r[1]][r[2]]

\* What no run looks at, but the data say of themselves: a decision has an auditor,
\* and one revision of a document at most is approved.
SeedAssumption ==
    /\ NoRow \notin DOMAIN SeedUsers \cup ((DOMAIN SeedUsers) \X Nat)
    /\ {"renamed", "anonymized"} \cap DOMAIN SeedUsers = {}
    /\ \A key \in DOMAIN SeedUsers : SeedUsers[key].active \in BOOLEAN
    /\ \A code \in DOMAIN SeedRevisions :
         /\ Len(SeedRevisions[code]) \in Nat
         /\ DOMAIN SeedRevisions[code] = 1..Len(SeedRevisions[code])
    /\ \A r \in SeedVersions : \/ SeedRow(r).status = "PENDING"
                               \/ SeedRow(r).status \in Decisions /\ SeedRow(r).auditor # NoRow
    /\ \A r, s \in SeedVersions :
         r[1] = s[1] /\ SeedRow(r).status = "APPROVED" /\ SeedRow(s).status = "APPROVED" => r = s
    /\ \A n \in DOMAIN SeedAccesses : SeedAccesses[n].status \in {"PENDING", "APPROVED", "REJECTED"}
    /\ SeedClauses \in [DOMAIN SeedClauses -> BOOLEAN]
    /\ \A rows \in {DOMAIN SeedUsers, DOMAIN SeedDocuments, SeedVersions, DOMAIN SeedAccesses} :
         IsFiniteSet(rows)
    /\ UsedAreas \subseteq DOMAIN SeedManagers /\ UsedTypes \subseteq SeedTypes
    /\ UsedAccounts \subseteq DOMAIN SeedUsers /\ UsedDocuments \subseteq DOMAIN SeedDocuments
    /\ MaxEdits \in Nat
ASSUME SeedAssumption

VARIABLES
    db,         \* the tables; and, for the rules, the revisions an erasure gave a new
                \* author or auditor who already was the other
    last,       \* the last step: "seed", "failed" or the name of a change
    edits       \* the changes made so far, with the account or document

seedVars == <<db, last, edits>>

None == [x \in {} |-> x]

SeedInit ==
    /\ db = [accounts |-> None, managers |-> None, documents |-> None, revisions |-> None,
             files |-> {}, accesses |-> None, clauses |-> None, audit |-> 0, excluded |-> {},
             creations |-> 0, inherited |-> {}]
    /\ last = "none"
    /\ edits = {}

Known(tables) == DOMAIN tables.accounts \cup {NoRow}

AccountsFit(tables) ==
    /\ DOMAIN tables.accounts \subseteq (DOMAIN SeedUsers) \X (1..tables.creations)
    /\ tables.accounts \in [DOMAIN tables.accounts ->
         [mail : DOMAIN SeedUsers \cup {"renamed", "anonymized"}, area : DOMAIN SeedManagers,
          active : BOOLEAN]]

ManagersFit(tables) ==
    /\ DOMAIN tables.managers \subseteq DOMAIN SeedManagers
    /\ tables.managers \in [DOMAIN tables.managers -> Known(tables)]

DocumentsFit(tables) ==
    tables.documents \in [DOMAIN tables.documents ->
        [responsible : DOMAIN tables.accounts, type : SeedTypes]]

RevisionsFit(tables) ==
    /\ DOMAIN tables.revisions \subseteq (DOMAIN tables.documents) \X (Nat \ {0})
    /\ tables.revisions \in [DOMAIN tables.revisions ->
         [status : Decisions \cup {"PENDING"}, author : Known(tables), auditor : Known(tables)]]

AccessesFit(tables) ==
    /\ DOMAIN tables.accesses \subseteq (DOMAIN tables.documents) \X (DOMAIN tables.accounts)
    /\ tables.accesses \in [DOMAIN tables.accesses ->
         [status : {"PENDING", "APPROVED", "REJECTED"}, approver : Known(tables)]]

RestFits(tables) ==
    /\ \A file \in tables.files : <<file[1], file[2]>> \in DOMAIN tables.revisions
    /\ tables.clauses \in {None, SeedClauses}
    /\ tables.audit \in Nat
    /\ tables.excluded \subseteq DOMAIN SeedUsers
    /\ tables.creations \in Nat
    /\ tables.inherited \subseteq DOMAIN tables.revisions

SeedTypeOK ==
    /\ DOMAIN db = {"accounts", "managers", "documents", "revisions", "files", "accesses",
                   "clauses", "audit", "excluded", "creations", "inherited"}
    /\ AccountsFit(db) /\ ManagersFit(db) /\ DocumentsFit(db) /\ RevisionsFit(db)
    /\ AccessesFit(db) /\ RestFits(db)
    /\ IsFiniteSet(edits) /\ Cardinality(edits) <= MaxEdits
--------------------------------------------------------------------------------
\* get_or_create: the rows that are there are kept.
GetOrCreate(rows, seeded) ==
    [row \in DOMAIN rows \cup DOMAIN seeded |-> IF row \in DOMAIN rows THEN rows[row] ELSE seeded[row]]

OfMail(accounts, key) == {id \in DOMAIN accounts : accounts[id].mail = key}

\* The users the run does not find.
Missing(accounts) == {key \in DOMAIN SeedUsers : OfMail(accounts, key) = {}}

Creations(tables) == tables.creations + (IF Missing(tables.accounts) = {} THEN 0 ELSE 1)

\* _seed_users: an account for each e-mail that has none.
SeededAccounts(tables) ==
    GetOrCreate(tables.accounts,
        [id \in Missing(tables.accounts) \X {Creations(tables)} |->
            [mail |-> id[1], area |-> SeedUsers[id[1]].area, active |-> SeedUsers[id[1]].active]])

\* The users of the run.
UserOf(accounts) ==
    [key \in DOMAIN SeedUsers \cup {NoRow} |->
        IF key = NoRow THEN NoRow ELSE CHOOSE id \in OfMail(accounts, key) : TRUE]

\* _assign_managers: an area without a manager in the data keeps its own.
SeededManagers(managers, user) ==
    [a \in DOMAIN SeedManagers |->
        IF SeedManagers[a] = NoRow /\ a \in DOMAIN managers THEN managers[a]
        ELSE user[SeedManagers[a]]]

SeededDocuments(documents, user) ==
    GetOrCreate(documents, [code \in DOMAIN SeedDocuments |->
        [responsible |-> user[SeedDocuments[code].responsible], type |-> SeedDocuments[code].type]])

RevisionRows(user) ==
    [r \in SeedVersions |->
        [status |-> SeedRow(r).status, author |-> user[SeedRow(r).author],
         auditor |-> user[SeedRow(r).auditor]]]

\* Faulty variant: update_or_create.
RevisionsUpdated(revisions, user) == GetOrCreate(RevisionRows(user), revisions)

\* _seed_revisions, by document and version.
SeededRevisions(revisions, user) == GetOrCreate(revisions, RevisionRows(user))

\* _seed_files: of the type the document has now.
SeededFiles(files, documents) ==
    files \cup UNION {{<<r[1], r[2], extension>> : extension \in FilesByType[documents[r[1]].type]} :
                        r \in SeedVersions}

AccessKey(n, user) == <<SeedAccesses[n].document, user[SeedAccesses[n].user]>>

SeededAccesses(accesses, user) ==
    GetOrCreate(accesses,
        [a \in {AccessKey(n, user) : n \in DOMAIN SeedAccesses} |->
            LET n == CHOOSE n \in DOMAIN SeedAccesses : a = AccessKey(n, user)
            IN  [status |-> SeedAccesses[n].status, approver |-> user[SeedAccesses[n].approver]]])

ActiveUsers(accounts, user) == {key \in DOMAIN SeedUsers : accounts[user[key]].active}

\* The documents that are read: the first twelve.
ReadDocuments == IF Cardinality(DOMAIN SeedDocuments) < 12 THEN Cardinality(DOMAIN SeedDocuments) ELSE 12

\* The events of the rows of a first run: logins, creations and decisions, two
\* readings of each document that is read, and one deletion.
EventsOf(accounts, user, revisions) ==
    Cardinality(ActiveUsers(accounts, user))
    + Cardinality(DOMAIN SeedDocuments)
    + Cardinality(SeedVersions)
    + Cardinality({r \in SeedVersions : revisions[r].status # "PENDING"})
    + Cardinality({n \in DOMAIN SeedAccesses : SeedAccesses[n].asked # NoRow})
    + Cardinality({n \in DOMAIN SeedAccesses : SeedAccesses[n].decided # NoRow})
    + 2 * ReadDocuments + 1

\* Faulty variant: the trail is written by every run.
TrailOfEveryRun(audit, events) == audit + events

\* _seed_audit_log: only while the table is empty.
SeededTrail(audit, events) == IF audit = 0 THEN events ELSE audit

Seeded(tables) ==
    LET accounts == SeededAccounts(tables)
        user == UserOf(accounts)
        documents == SeededDocuments(tables.documents, user)
        revisions == SeededRevisions(tables.revisions, user)
    IN  [accounts |-> accounts,
         managers |-> SeededManagers(tables.managers, user),
         documents |-> documents,
         revisions |-> revisions,
         files |-> SeededFiles(tables.files, documents),
         accesses |-> SeededAccesses(tables.accesses, user),
         clauses |-> GetOrCreate(tables.clauses, SeedClauses),
         audit |-> SeededTrail(tables.audit, EventsOf(accounts, user, revisions)),
         excluded |-> tables.excluded,
         creations |-> Creations(tables),
         inherited |-> tables.inherited]

\* The rows that the rows of the data refer to are seeded before them (a KeyError
\* otherwise), and no document is without an area.
CodesAreKnown ==
    /\ \A key \in DOMAIN SeedUsers : SeedUsers[key].area \in DOMAIN SeedManagers
    /\ \A a \in DOMAIN SeedManagers : SeedManagers[a] \in DOMAIN SeedUsers \cup {NoRow}
    /\ \A d \in Range(SeedDocuments) :
         /\ d.project \in SeedProjects /\ d.discipline \in SeedDisciplines /\ d.type \in SeedTypes
         /\ {d.responsible, d.author} \subseteq DOMAIN SeedUsers
         /\ d.areas # {} /\ d.areas \subseteq DOMAIN SeedManagers
    /\ DOMAIN SeedRevisions \subseteq DOMAIN SeedDocuments
    /\ \A r \in SeedVersions : /\ SeedRow(r).author \in DOMAIN SeedUsers
                              /\ SeedRow(r).auditor \in DOMAIN SeedUsers \cup {NoRow}
    /\ \A a \in Range(SeedAccesses) :
         /\ a.document \in DOMAIN SeedDocuments /\ a.user \in DOMAIN SeedUsers
         /\ a.approver \in DOMAIN SeedUsers \cup {NoRow}

\* create_user refuses an excluded e-mail.
MailsAreFree(tables) == Missing(tables.accounts) \cap tables.excluded = {}

\* "The manager must be a member of the area", and manages no other.
ManagersBelong(accounts, user, managers) ==
    /\ \A a \in DOMAIN SeedManagers :
         SeedManagers[a] # NoRow => accounts[user[SeedManagers[a]]].area = a
    /\ \A a, b \in DOMAIN managers : managers[a] = managers[b] /\ managers[a] # NoRow => a = b

\* The auditor is never the author.
AuditorsAreOthers(user) ==
    \A r \in SeedVersions :
        SeedRow(r).auditor # NoRow => user[SeedRow(r).auditor] # user[SeedRow(r).author]

\* Only the responsible of now or the manager of an area decides a request.
ApproversMayDecide(user, managers, documents) ==
    \A a \in Range(SeedAccesses) : a.approver # NoRow =>
        user[a.approver] \in {documents[a.document].responsible}
                             \cup {managers[area] : area \in SeedDocuments[a.document].areas}

\* A type without an entry in FILES_BY_TYPE is a KeyError.
FilesAreKnown(documents) == \A r \in SeedVersions : documents[r[1]].type \in DOMAIN FilesByType

\* The events of a first run name two readers of a document, and a document.
TrailIsPossible(audit, accounts, user) ==
    audit = 0 => DOMAIN SeedDocuments # {} /\ Cardinality(ActiveUsers(accounts, user)) >= 2

MaySeed(tables) ==
    LET accounts == SeededAccounts(tables)
        user == UserOf(accounts)
        managers == SeededManagers(tables.managers, user)
        documents == SeededDocuments(tables.documents, user)
    IN  /\ CodesAreKnown
        /\ MailsAreFree(tables)
        /\ ManagersBelong(accounts, user, managers)
        /\ AuditorsAreOthers(user)
        /\ FilesAreKnown(documents)
        /\ ApproversMayDecide(user, managers, documents)
        /\ TrailIsPossible(tables.audit, accounts, user)

Seed ==
    /\ IF MaySeed(db) THEN db' = Seeded(db) /\ last' = "seed"
       ELSE last' = "failed" /\ UNCHANGED db
    /\ UNCHANGED edits
--------------------------------------------------------------------------------
\* What the system does to the rows between runs.

Edit(what, of) ==
    /\ last # "none"
    /\ Cardinality(edits) < MaxEdits
    /\ <<what, of>> \notin edits
    /\ edits' = edits \cup {<<what, of>>}
    /\ last' = what

\* A profile update or the administration site gives the account another e-mail.
RenameAccount(key) ==
    \E id \in OfMail(db.accounts, key) :
        /\ Edit("rename", key)
        /\ db' = [db EXCEPT !.accounts[id].mail = "renamed"]

\* The replacement in the area: its manager, or an auditor, or an administrator.
Substitutes(id) ==
    LET area == db.accounts[id].area
        others == {o \in DOMAIN db.accounts \ {id} : db.accounts[o].active}
        managing == {o \in others : db.managers[area] = o}
        auditors == {o \in others : db.accounts[o].area = area /\ SeedUsers[o[1]].role = "AUDITOR"}
    IN  IF managing # {} THEN managing
        ELSE IF auditors # {} THEN auditors
        ELSE {o \in others : SeedUsers[o[1]].role = "ADMIN"}

InPlaceOf(id, other) == [x \in DOMAIN db.accounts \cup {NoRow} |-> IF x = id THEN other ELSE x]

\* _reassign_responsibilities.
ManagersPut(put) == [a \in DOMAIN db.managers |-> put[db.managers[a]]]
DocumentsPut(put) ==
    [d \in DOMAIN db.documents |-> [db.documents[d] EXCEPT !.responsible = put[@]]]

HandedOver(id, other) ==
    [db EXCEPT !.managers = ManagersPut(InPlaceOf(id, other)),
               !.documents = DocumentsPut(InPlaceOf(id, other))]

\* _reassign_history; the accesses of the account itself go with it.
RevisionsPut(put) ==
    [r \in DOMAIN db.revisions |->
        [db.revisions[r] EXCEPT !.author = put[@], !.auditor = put[@]]]
Between(id, other) ==
    {r \in DOMAIN db.revisions : {db.revisions[r].author, db.revisions[r].auditor} = {id, other}}
AccessesPut(id, put) ==
    [a \in {a \in DOMAIN db.accesses : a[2] # id} |-> [db.accesses[a] EXCEPT !.approver = put[@]]]

\* Area.manager is one to one.
MayTakeOver(id, other) ==
    \A a, b \in DOMAIN db.managers : db.managers[a] = id => db.managers[b] # other

\* anonymize_user.
RemoveAccount(key) ==
    \E id \in OfMail(db.accounts, key) : \E other \in Substitutes(id) :
        /\ Edit("remove", key)
        /\ MayTakeOver(id, other)
        /\ db' = [HandedOver(id, other) EXCEPT
                    !.accounts[id].mail = "anonymized", !.accounts[id].active = FALSE,
                    !.excluded = @ \cup {key},
                    !.accesses = [a \in {a \in DOMAIN @ : a[2] # id \/ @[a].status # "PENDING"} |-> @[a]]]

\* delete_user_account: what refers to the account refers to the replacement.
EraseUser(key) ==
    \E id \in OfMail(db.accounts, key) : \E other \in Substitutes(id) :
        /\ Edit("erase", key)
        /\ MayTakeOver(id, other)
        /\ db' = [HandedOver(id, other) EXCEPT
              !.accounts = [o \in DOMAIN db.accounts \ {id} |-> db.accounts[o]],
              !.excluded = @ \cup {key},
              !.revisions = RevisionsPut(InPlaceOf(id, other)),
              !.inherited = @ \cup Between(id, other),
              !.accesses = AccessesPut(id, InPlaceOf(id, other))]

\* The administration site.
ChangeResponsible(d, key) ==
    \E id \in OfMail(db.accounts, key) :
        /\ d \in DOMAIN db.documents
        /\ Edit("responsible", d)
        /\ db' = [db EXCEPT !.documents[d].responsible = id]

ChangeType(d, type) ==
    /\ d \in DOMAIN db.documents
    /\ Edit("type", d)
    /\ db' = [db EXCEPT !.documents[d].type = type]

MoveAccount(key, area) ==
    \E id \in OfMail(db.accounts, key) :
        /\ Edit("move", key)
        /\ db' = [db EXCEPT !.accounts[id].area = area]

Newest(r) == r \in DOMAIN db.revisions /\ <<r[1], r[2] + 1>> \notin DOMAIN db.revisions

\* create_document_revision: by the responsible, whether others are pending or not.
SubmitRevision(d) ==
    \E r \in DOMAIN db.revisions :
        /\ r[1] = d /\ Newest(r)
        /\ Edit("submit", r)
        /\ db' = [db EXCEPT !.revisions = GetOrCreate(@, [next \in {<<d, r[2] + 1>>} |->
                [status |-> "PENDING", author |-> db.documents[d].responsible, auditor |-> NoRow]])]

\* is_revision_reviewer.
Reviewers == {id \in DOMAIN db.accounts : /\ db.accounts[id].active
                                         /\ SeedUsers[id[1]].role \in {"AUDITOR", "ADMIN"}}

MayDecide(r, id) ==
    /\ db.revisions[r].status = "PENDING"
    /\ id \notin {db.revisions[r].author, db.documents[r[1]].responsible}

\* Faulty variant: the approved revision stays approved.
ApprovedBeside(revisions, r, id) ==
    [revisions EXCEPT ![r].status = "APPROVED", ![r].auditor = id]

\* The current revision becomes obsolete.
ApprovedIn(revisions, r, id) ==
    [s \in DOMAIN revisions |->
        IF s = r THEN [revisions[s] EXCEPT !.status = "APPROVED", !.auditor = id]
        ELSE IF s[1] = r[1] /\ revisions[s].status = "APPROVED"
             THEN [revisions[s] EXCEPT !.status = "OBSOLETE"] ELSE revisions[s]]

ApproveRevision(d) ==
    \E r \in {r \in DOMAIN db.revisions : r[1] = d}, id \in Reviewers :
        /\ Edit("decide", r)
        /\ MayDecide(r, id)
        /\ \A s \in DOMAIN db.revisions :
             s[1] = d /\ db.revisions[s].status = "APPROVED" => s[2] <= r[2]
        /\ db' = [db EXCEPT !.revisions = ApprovedIn(@, r, id)]

RejectRevision(d) ==
    \E r \in {r \in DOMAIN db.revisions : r[1] = d}, id \in Reviewers :
        /\ Edit("decide", r)
        /\ MayDecide(r, id)
        /\ db' = [db EXCEPT !.revisions[r].status = "REJECTED", !.revisions[r].auditor = id]

SeedNext ==
    \/ Seed
    \/ \E key \in UsedAccounts :
         \/ RenameAccount(key) \/ RemoveAccount(key) \/ EraseUser(key)
         \/ \E a \in UsedAreas : MoveAccount(key, a)
         \/ \E d \in UsedDocuments : ChangeResponsible(d, key)
    \/ \E d \in UsedDocuments :
         \/ SubmitRevision(d) \/ ApproveRevision(d) \/ RejectRevision(d)
         \/ \E type \in UsedTypes : ChangeType(d, type)

SeedSpec == SeedInit /\ [][SeedNext]_seedVars
--------------------------------------------------------------------------------
\* README, "Seed": "It is idempotent: rows are matched by their natural key, so
\* running it twice creates nothing new": whatever was done to the rows since a
\* first run, where a run passes the next one passes too and changes nothing.
SeedingTwiceIsOnce ==
    LET seeded == Seeded(db)
    IN  last # "none" /\ MaySeed(db) => MaySeed(seeded) /\ Seeded(seeded) = seeded

\* The rows are kept, with their values.
KeptIn(rows, after) == \A row \in DOMAIN rows : row \in DOMAIN after /\ after[row] = rows[row]

\* A run undoes no work: the accounts, revisions and accesses it finds, the files,
\* and the responsible and type of the documents keep their values, and the trail
\* that was begun is left as it is.
SeedingUndoesNothing ==
    [][last' \in {"seed", "failed"} =>
        /\ KeptIn(db.accounts, db'.accounts) /\ KeptIn(db.documents, db'.documents)
        /\ KeptIn(db.revisions, db'.revisions) /\ KeptIn(db.accesses, db'.accesses)
        /\ db.files \subseteq db'.files
        /\ db.audit # 0 => db'.audit = db.audit]_seedVars

\* _seed_data.py, "Rules honoured here": sequential versions, at most one APPROVED,
\* an auditor for every decision, who is not the author.  They hold of the
\* seeded rows and after any use and any further run; but where one of the author
\* and the auditor is erased and the other takes over, they are one.
RulesHonoured ==
    /\ \A r \in DOMAIN db.revisions :
         /\ r[2] = 1 \/ <<r[1], r[2] - 1>> \in DOMAIN db.revisions
         /\ db.revisions[r].status # "PENDING" => db.revisions[r].auditor # NoRow
         /\ db.revisions[r].author # db.revisions[r].auditor \/ r \in db.inherited
    /\ \A r, s \in {r \in DOMAIN db.revisions : db.revisions[r].status = "APPROVED"} :
         r[1] = s[1] => r = s

\* The rows of the data were created together, and none of their revisions is
\* ever deleted: a later run finds them all.
VersionsAreThere == DOMAIN db.revisions = {} \/ SeedVersions \subseteq DOMAIN db.revisions

\* The inductive invariant.
SeedInv == SeedTypeOK /\ VersionsAreThere /\ RulesHonoured
================================================================================
