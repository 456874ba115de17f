# Verification of the Índice backend

TLA+ models of the parts of this backend in which several requests, stores,
crashes or runs meet: TLC checks them on small instances, TLAPS proves most of
the properties for every instance. Paths below are relative to the repository (`core/...` is
`src/core/...` in `PROJECT.json`).

## 1. The system

Índice is a Django 5.2 backend for controlled documents. Each request runs in a
worker of the web server; the workers share

- **PostgreSQL** at READ COMMITTED, without `ATOMIC_REQUESTS`: a transaction is
  where the code writes `transaction.atomic()`, a plain SELECT sees what is
  committed at that moment, `select_for_update` waits for the row and looks at
  its filter again, a unique index makes an INSERT wait for an uncommitted row
  with the same key, a foreign key takes `FOR KEY SHARE` on the row it refers
  to, at the commit (Django declares them DEFERRABLE INITIALLY DEFERRED);
- **MongoDB**, with one record per temporary upload;
- **the file system**, a temporary directory and the document storage: moving a
  file takes effect at once and no roll-back undoes it;
- **a classifier and Ollama**, a language model: called without state.

Beside the server there are commands: `seed`, `index_documents`, `delete_user`,
and those that collect and label the training set of the classifier from a
public site.

### Inventory

| Component | State | Operations | What is hard | Correct when | Model |
|---|---|---|---|---|---|
| Revision lifecycle (`revision_review_service`, half of `document_creation_service`) | `revision` rows, their status and auditor; locks | submit, approve, reject | reads made before the lock; version numbers read outside the transaction; two reviewers at once | numbers have no gap, one current revision which only moves forward, decisions final, their auditor changed by an erasure only, taken by a third party | `RevisionLifecycle` |
| Archive (`document_archive_service`) | `document.archived_at/by` | archive, restore | races with the requests above | an archived document is left alone (it is not: disagreements) | `RevisionLifecycle` |
| Uploads (`temp_upload_service`) | temporary file, MongoDB record | store, discard | two stores, either can fail | a record is kept as long as it is needed | `DocumentRegistration` |
| Registration (`document_creation_service`, `document_code_service`) | `document`, `revision`, `file` rows, the storage | create a document, create a revision | three stores, roll-backs, retries over codes, crashes between the moves and the commit | each committed row has its bytes, once; numbers without gaps | `DocumentRegistration` |
| Legal consent (`legal_consent_service`) | versions, acceptances, `User.terms_accepted_at` | accept, revoke | a cached column computed from unlocked reads; removal of the account in between | evidence is kept, one acceptance in force per version, the date follows (it does not) | `LegalConsent` |
| User accounts (`user_anonymization_service`, `excluded_identifier_service`, `user_view`, `delete_user`) | `app_user`, the references to it, hashed identifiers | edit the profile, anonymize, erase | a removal is several statements, each of which sees what is committed by then; two removals choosing each other; stale profile saves; an address compared in any case, under an index that is not | work has an active holder unless another request crossed the removal, references stay whole, a removed account stays removed | `AccountsAndAccess` |
| Access requests (`access_request_service`, `documents_service.request_document_access`) | `document_access` | ask, decide | decision against removal, change of responsible and second approver | a decision is final and signed; none pending of a removed account (there may be) | `AccountsAndAccess` |
| Search index (`document_index_service`, `index_documents`) | `document_content` with its search vector | index, re-index | runs that overtake each other; row and vector in two statements | the index is that of the newest version, or somebody failed | `IngestionTrail` |
| Audit trail (`audit_service`, `0002_triggers`) | `audit_log`, append-only | required and best-effort rows | rows written after the commit, failures swallowed; a trigger with one exception | rows are kept; a submission is shown unless its worker failed | `IngestionTrail`, `ActivityFeed` |
| Activity feed (`manager_activity_service`) | none | select rows, describe rows | one rule in SQL and in Python, over twenty kinds of rows | each row is described as the type it was selected for | `ActivityFeed` |
| Listing, detail, file access (`documents_service`, `file_service`) | none | reads | who may see what, decided in five places | they agree | `ReadingRules` |
| Search and summary (`document_search_service`, `..._summary_service`) | none | reads | restricted documents are results too | a summary is made of what its reader may read | `ReadingRules` |
| AI suggestions (`document_ai_service`) | `ai_suggestion` in the MongoDB record | suggest | two slow models between a read and a write; the form may be sent meanwhile | a suggestion fits the form; a discarded record stays discarded | `SuggestedForms` |
| Catalogue (`catalog_service`) | `active` of projects, disciplines, types, areas | list, switch | what was listed is switched off | as above | `SuggestedForms`, `RevisionLifecycle` |
| Seed (`seed`, `_seed_data`) | all tables | run, run again | rows matched by keys that people change | a second run changes nothing, and undoes nothing | `SeedRuns`, `SeedData` |
| Data set tools (`scripts/dataset`) | files | list, fetch, download, build, label | killed at any step, in a write too, told to do a part only, and run again | outputs have what the run was told to get, nothing is paid for twice, no more is lost than a line without its end | `DatasetCollection`, `AreaLabelling` |
| Administration site (`admin.py`) | all tables | edit | saves every column of a form | - | single effects: `SwitchType`, `SwitchEntry`, `ChangeResponsible`, `ChangeType`, `MoveAccount` |
| Classifier, HTTP plumbing and sessions, synthetic data | none, or written by one tool run alone | reads, numerical code | - | - | not modelled (section 5) |

The components meet in the tables: a registration creates the documents whose
revisions are then submitted and decided; archiving removes a document from
the queue of the reviewers; removing an account hands its documents, areas and
approvals to another manager and clears its consent; indexing follows each
registration, after the commit and outside the transaction, and an audit row
follows or accompanies each operation; a suggestion writes to the record that
a registration removes.

The hazards of this code, each at its line, are the list `hazards` of
`PROJECT.json`: it says which property would catch which hazard. Four have
none: the two whose history exists in a model but contradicts the
documentation without a run of its own (below), the row of a decision on a
revision, which is written last and may be missing, and the full-row save of
the administration site. Where the code does nothing against a hazard (two
removals that choose each other, a profile saved over a removal, an indexing run
that overtakes another), the model has the damage and a history variable that
names it, and the property says that there is no other.

## 2. The modules

| Module | What it is |
|---|---|
| `RevisionLifecycle` | submit, decide, archive, restore, by concurrent requests |
| `RevisionRegister` | what readers are promised of revisions: atomic submission, approval, rejection |
| `RevisionLifecycleProofs` | theorems about the first, including that it implements the second |
| `DocumentRegistration` | upload, create a document, create a revision, over three stores |
| `FilingRegister` | what readers are promised of the archive: a version appears at once, with its files, under the next number |
| `DocumentRegistrationProofs` | theorems about the first, including that it implements the second |
| `LegalConsent` | accept, revoke, publish, retire, remove and erase the account |
| `LegalConsentProofs` | theorems about it |
| `AccountsAndAccess` | edit, remove, erase accounts; ask for access and decide |
| `AccountsAndAccessProofs` | theorems about it |
| `ActivityFeed` | the rows of the audit log, the filters and the descriptions of the feed: pure operators |
| `IngestionTrail` | what follows a registration: index row, search vector, events; re-indexing; the append-only trigger. Extends `ActivityFeed` |
| `IngestionTrailProofs` | theorems about it |
| `ReadingRules` | who is shown what, by every route: pure operators over all small questions. Uses `ActivityFeed` for the feed |
| `SuggestedForms` | suggestions, the catalogue and the validation of the form |
| `SuggestedFormsProofs` | theorems about it |
| `DatasetCollection` | `listing`, `details`, `download`, `build_csv` over their files |
| `AreaLabelling` | `label_areas` with its cache |
| `SeedRuns` | the runs of `seed` over a used database, for any data |
| `SeedData` | the demonstration data of the repository, as operators |
| `SeedAndDataSetProofs` | theorems about the three modules of commands |
| `MCSupport` | the instance of the parts beside the core: each behaviour is one of one part, the others keep their initial state |
| `SupportProofs` | theorems about `ReadingRules` and `ActivityFeed`, beyond the questions that are listed, and about the parts together |
| other `MC...` | instances for TLC: model values, symmetry |

Common conventions. `pc[w]` (`step[w]`, `browser[b].step`) says where the
request of worker `w` stands, the arguments and the values it has read and still
uses are in `call`/`request`/`job` and `seen`; a step is the code between two
points where another request can change what it has read. `Fail(w)` is any
exception before the commit, or the death of the worker: the transaction is
rolled back and the locks go. A transaction that is open is not in the tables:
what it wrote shows in the step its worker is at, and reaches the tables in one
piece at its commit. Variables called history (`inherited`,
`crossed`, `late`, `raced`, `flaws`, `switched`, `listed`, `merged`) note what the
code does not, so that a property can say "unless".
Definitions preceded by "Faulty variant" are plausible bugs: they are not part
of any specification, and each property of a passing run is violated when one
of them takes the place of the definition it varies (`mutants` in
`PROJECT.json`).

### How actions correspond to the code

`RevisionLifecycle`:

| Action | Code |
|---|---|
| `FindRevisable`, `ReadLastVersion`, `InsertRevision`, `CommitSubmission`, `RefuseInsert` | `_revisable_document`; the aggregate over `version`; the INSERT under `uq_revision_document_version`; the commit; a clash |
| `FindRevision`, `LockDocument`, `ApproveRevision`, `RejectRevision`, `RefuseDecision` | the first SELECT of `decide_revision`; `select_for_update` on the document and what is read under it; the two outcomes; the guards that answer 403/409 |
| `FindToArchive`, `ArchiveDocument`, `FindToRestore`, `RestoreDocument`, `RefuseArchiving` | the view's SELECT, then the locked UPDATE whose filter PostgreSQL evaluates again |
| `HandOver`, `EraseAccount`, `SwitchType` | the document of an account that leaves gets another responsible; `delete_user_account`, with `_reassign_history`: the replacement takes its place in the revisions too, as author and as auditor, also where it already is the other of the two (`inherited`); a document type switched off in the administration site |

The erasure is a step of `RevisionRegister` too (`Erase`): what readers are
promised of the two names is that they are those of the submission and of the
decision, or of who inherited them.

`DocumentRegistration` has the steps of `create_document` and
`create_document_revision`: resolve each file (exists, not filed already), read
the highest number, insert (retrying over codes up to `CodeAttempts` times when
the index refuses), move file after file, commit, drop the MongoDB records.

`LegalConsent` has, for each request, the lock with the checks made under it,
the write, and the commit with the update of the user.

`AccountsAndAccess`: a profile update is the authentication with the checks of
the payload (`StartUpdate`) and the UPDATE of two columns (`SaveUpdate`). The
checks compare addresses in any case and hold no lock; the unique index compares
letter by letter: two updates that overlap may store one address in two spellings
(`raced`). A removal chooses the replacement (`StartRemoval`) and is then taken
statement by statement, as READ COMMITTED runs it: the documents
(`TakeDocuments`), the areas (`TakeAreas`), the pending requests (`TakeRequests`),
and the account with the commit (`FinishRemoval`). Each statement finds the rows
that are committed when it runs and waits for those that another removal or a
decision has locked; a row that comes to the account later is missed (`late`),
stays with it, and counts as `crossed`. An erasure (`StartErasure`,
`FinishErasure`) cannot miss a row: the foreign keys, checked at the commit, refuse
to let the account go, so that the one that commits is one step.
A request for access reads
who may read (`StartAccessRequest`) and calls get_or_create
(`FileAccessRequest`); a decision finds the row (`StartDecision`), locks it and
looks again at the document (`LockRequest`), and writes (`Decide`).
`ChangeState` archives, restores or withdraws documents under them.

`IngestionTrail`: after `CommitVersion` a worker reads the newest revision
(`ReadRevision`), saves the row (`SaveContent`), computes the vector from the
row (`SaveVector`), appends the event of the indexing and of the submission
(`TellIndexing`, `TellSubmission`). `FailIndexing` and `FailToTell` are the
swallowed exceptions, after which the code goes on. `StartCommand` is
`index_documents`, with or without `--missing-only`.

`SuggestedForms`: `AskForSuggestion` finds the file, `PredictLabels` or
`SkipClassification` reads the record, `MatchLabel` queries one table of the
catalogue, `WriteTexts` is the language model, `SaveSuggestion` the
`update_one`. `SendForm` is a form without `Errors`. A label is matched with the
codes of the catalogue in any case; the form sends an area as its acronym, which
is turned to upper case and looked up as it is stored (`AreasFound`): an area that
is not stored in upper case is suggested and refused, or taken for another one
whose acronym is.

`ReadingRules`: `ListShows` and `SearchShows` have the `description`, which the
listing and the search give to everybody, and the highlighted fragments, which
the search takes from the text for readers only; `RoutesAgree` says that the
routes agree on everything else.

`DatasetCollection` and `AreaLabelling` have one action per item of a command
and per kind of kill in the middle of a write (`Tear...`): the line is cut, and
every later command that reads the file raises, or it is whole but for its end,
and the next line that is written makes one unreadable line of the two
(`StillRead`, `MergeIntoLastLine`; the two answers of such a line are `merged`). A command of the
collection goes through a list: `queue` is the set of the positions that are
left of it, `Taking` takes the lowest, and a CSV is the set of its rows, each
with the line it was made of; `Before` is the order in which `sorted` gives the
lines to `build_rows`. The options that make a command do a part of its work are
the choice of where its list ends: `--max-pages` (`StartListing`), `--per-group`
and `--limit` of `details` (`StartDetails`: any sample), `--limit` of `download`
(`StartDownload`); an exit code of 0 then speaks of that part. `--fsc` is the
search whose answer `SiteList` is, `--output` the file. `build_rows` skips what has
no public part, no label (`Mapped`), no file, too little text or none
(`LongEnough`, `PdfTexts`), and the documents it has seen. `SeedRuns` has the
whole of a run as one action, since it is one transaction (`Seed`: `MaySeed` is
the conjunction of everything that raises, `Seeded` what it commits), and what
people may do between two runs: rename, move, remove and erase accounts, give
documents another responsible or type, submit revisions whether others are
pending or not, approve any that is not older than the current one, reject any.
An erasure notes the revisions whose author or auditor it replaced by the other
(`inherited`). Archiving touches no column the seed or its rules look at. The rows of `_seed_data` are constants of it,
constrained by what `_seed_data.py` says of its own rows (`SeedAssumption`);
`MCSupport` gives them the values of `SeedData`, which are those of the
repository. An account is `<<key, n>>`, the n-th creation for an e-mail, so that
a second account for an address whose first owner was renamed is another one.

## 3. What is checked

| Run | Question | Bounds |
|---|---|---|
| `lifecycle_safety` | Do numbering, the single current revision, finality and the four-eyes rule survive every interleaving, and do the requests and the erasures implement `RevisionRegister`? | 1 document, 3 versions, 2 workers, 2 users who both review |
| `lifecycle_liveness` | Does every request answer? | 1 document, 2 versions, 2 workers |
| `archived_changed` | Is an archived document left alone? **No.** | 2 versions |
| `registration_files` | Do committed rows have their bytes, once, under numbers and paths of their own, with packages, shared uploads, collisions and crashes? | 1 project, 2 codes, 2 versions, 3 uploads, 2 contents, packages of 1 or 2, 2 workers, 2 attempts |
| `registration_numbers` | Is `FilingRegister` implemented, and do retries and waits end? | 2 codes, 2 versions, 1 file, 2 attempts |
| `uploads_lost` | Can an upload whose registration failed be tried again? **Not always.** | 1 version, 2 files, no crash |
| `consent_evidence` | Is consent kept as evidence, once in force, on published versions only? | 2 users, 1 document with 2 versions, 3 acceptances, 2 workers |
| `consent_date` | Does the date of the user follow the acceptances? **No.** | 1 user, 2 workers |
| `accounts_removal` | Do work, references, addresses and decisions stay in order over removals that cross each other and everything else? | 2 auditors, 1 administrator, 2 areas, 1 document, 1 contested address, 2 workers |
| `removed_requests` | Has a removed account no pending request? **It may have.** | as above, 1 worker |
| `support` | The parts beside the core: do index and trail keep up, do the routes agree, do suggestions fit the form, are the files of the tools whole, does a second seed change nothing? | see below |
| `labeling_aborted` | Does a run of `label_areas` that gives up say why? **No.** | 3 rows, 4 attempts |

**Why the bounds are enough.** The races here are between two requests: what
one has read, what the other commits. Two workers give every pair of requests
at every pair of steps, and the sequences before and after (a worker serves any
number of requests, one after the other). Different documents share no row that
a decision or a submission writes, so one document is the general case; three
versions give an obsolete, a current and a pending revision at once. In a
package of two files the move of the second can fail after the first. Three
acceptances give a revoked, an older and a newer one of one user, or two users.
Three users are a removed one, a replacement and a third whom a second removal
chooses; two areas make a replacement who already manages one. `FewRequests`, a
constraint of that run, leaves two requests for access pending at a time, or one
decided: a removal takes the requests of one user, and a decision locks one row.
`QuietWhileUnlisted`, another, serves one request at a time while the document is
archived or withdrawn, which only the guards of that request look at. The bounds
`MaxVersion`, `MaxSequence` are the ranges of the columns (`smallint`, the width
of the code), made small; `MaxFiles` and `MaxAcceptances` only bound the model.

In `support`: two versions of one document are what two indexing runs can
confuse; one account and three rows of the log (two events of one version, one of
the other) are enough for an actor who is erased while their row is on its way, and three kinds
of failures and races of five come together at most (`MaxFlaws`); the collection
has three identifiers, two of one document, of which two have a public part, two a
label and two a text that is long enough (one has all three);
the labelling has three rows, two of one text, two versions of the criteria and
two attempts; the seed has three changes, out of nine kinds, between its runs, on
two accounts (a manager who audits, an author who answers for documents) and
two documents; the forms have two browsers, one entry per field of which a
discipline is switched, and texts that are missing or too long;
the rules of reading are asked every question with up to three revisions,
results or readers of each kind, without any steps. `MaxAttempts` and
`MaxUnreachable` are 2 here and have the values of the code, 4 and 3, in
`labeling_aborted`. Workers and browsers are interchangeable in all modules,
contents, uploads and users where no constant tells them apart: those are the
symmetry sets. The liveness runs use no symmetry.

`CHECK_DEADLOCK FALSE` stands in the runs of `LegalConsent` (once every account
is removed and every version retired there is nothing left to do) and of
`MCSupport` (questions take no step, and the bounded edits run out).

**Fairness.** Only `Proceed(w)`, the steps with which the code carries a request
on, is strongly fair, for each worker: a statement that waits for nothing runs,
and PostgreSQL serves the waiters of a row lock or an index entry in the order
of their arrival, so a request that can proceed again and again does. Nothing is
assumed of arrivals, failures, operators or hand-overs.

### Disagreements with the documentation

With a run each:

1. `archived_changed`: `archived_at` is checked before the lock and not after
   it. A pending revision of a document archived in between is decided, and a
   submission under way adds a revision (README.md:464, :487).
2. `uploads_lost`: `create_document` moves each file as its row is inserted;
   when a later file fails, the rows are rolled back and the files moved before
   stay in the storage, without a row and without the temporary file
   (`test_document_creation_service.py:518` shows a package of one file).
3. `consent_date`: two requests of one user each write the date they computed
   before the other committed (README.md:442).
4. `removed_requests`: `resolve_user` does not look at `is_active`, so a request
   for access filed with the id of a removed account is pending and can be
   approved (README.md:509).
5. `labeling_aborted`: an attempt that cannot connect marks its row even if the
   next attempt succeeds, so a run can be given up although every row it tried
   has its label (`label_areas.py:222`).

In a model, without a run:

- `DocumentRegistration` has the history in which two requests find no equal
  SHA-256 and both commit the same bytes (README.md:390): the search precedes
  the transaction and no constraint backs it.
- `LegalConsent` has the history in which an acceptance under way writes the
  date back to an account anonymized meanwhile (README.md:507).
- `ReadingRules` has the listing and the search give `description` to everybody,
  while README.md:479 and `docs/architecture/README.md:166` reserve it to
  readers.
- `AccountsAndAccess` has the histories in which a document that is handed over,
  or a request for access that is filed, between two statements of a removal
  stays with the removed account, and in which two overlapping updates store one
  address in two spellings.
- `RevisionLifecycle` and `SeedRuns` have the erasure of an author or auditor that
  leaves both names of a revision to one person.

Found on the way, by reading:

- The table of README.md for `POST /documents` calls `document_type` a code
  ("`DWG`"); `validate_payload` takes an id, and answers `required` to a code.
- The form turns area acronyms to upper case before it looks them up, the
  suggestion compares them in any case: an area whose acronym were stored in
  lower case is suggested and then refused, or filed under another one
  (`SuggestedForms` has such an area, and the property names it).
- `docs/architecture/README.md:170` puts the audit row in the transaction of
  its operation; most views log after the commit and swallow the failure.
  README.md:393 names the row `DOCUMENT_CREATED`; the view writes
  `DOC_SUBMIT_SUCCESS`, with the version that is the newest when it logs. The
  event of an indexing that could extract no text is a SUCCESS. A row whose
  actor is erased meanwhile fails on its foreign key and is swallowed.
- `index_documents --missing-only` never repairs a row left without its vector,
  or one that an overtaken run wrote.
- An odd page of the public site counts as page 1 of 1, so that a partial
  listing replaces a whole one; a PDF that was cut short counts as downloaded;
  a torn line makes every later command raise until somebody removes it.
- The seeded AK-1500 document has an obsolete revision without a successor, and
  some seeded auditors manage none of the areas of the document they audited.
  After an account was removed `seed` always fails (its e-mail is excluded);
  after one was renamed it makes a second one and gives it the area; after a
  change of responsible it may raise; after a change of type to one without
  sample files it raises a KeyError. It sets areas and tags of the documents
  back in any case.

## 4. What is proved

Every property that a passing run checks, but for the two that speak of
fairness, is a theorem, for every value of the constants.
The proofs assume what the modules state of their constants (`...Assumption`),
which TLC evaluates in each run, and nothing else.

### Revision lifecycle

`RevisionLifecycleProofs` holds for any documents, users, reviewers, workers
and largest version, under `ConstantsAssumption` of `RevisionLifecycle` alone
(a version number exists, reviewers are users, managers are reviewers, NULL is
nobody).

| Theorem | Statement |
|---|---|
| `TypeCorrect` | `TypeOK` always holds: arguments and read values fit the step |
| `Invariance` | `IInv` always holds |
| `RegisterIsSound` | contiguous versions, one current, every obsolete one has a newer current one |
| `AuditorsAreIndependent` | the auditor of a decided revision is a reviewer other than its author, unless an erasure after the decision replaced one of the two |
| `LocksSuffice` | what a decision or an insertion read under its locks is still true when it writes |
| `DecisionsAreFinal`, `CurrentNeverRegresses`, `DecisionsAreIndependent` | the three action properties of the run: a decision is final and its auditor changes only in the step that erases them, the current revision only moves forward, nobody decides on their own revision or document |
| `LifecycleImplementsRegister` | `RevisionLifecycle` implements `RevisionRegister` |

The argument. None of the table properties is inductive: that an approval
leaves one current revision depends on the revision it read as current, and
that a submission takes the next number on a number read long before. `IInv`
therefore adds what requests under way know: `DecisionReadsStayTrue` (a worker
at `locked` holds the lock and its reads equal the tables),
`InsertedVersionIsNext` (an uncommitted revision has the next number, and no
other one has it), `RequestsReferToRows` (rows are never deleted). The proof
that the reads stay true uses that all writers of a document's status,
responsible or archive columns wait for its lock, and that a commit of a
submission does so through its foreign key; the index gives the uniqueness of
uncommitted numbers. The lemmas `CommitEffect`, `ApproveEffect` and
`RejectEffect` say what the three writing steps do to the tables, once; each
conjunct of `IInv` then has a lemma of its own, and the refinement maps these
three steps to `Submit`, `Approve`, `Reject`, an erasure to `Erase`, and all others
to `HandOver` or a stutter. An erasure rewrites columns that a decision has read;
it waits for the locks of the document and of the revisions that name the account
(`HoldsRowOf`), so that the reads stay true over it.

### Accounts and access

`AccountsAndAccessProofs` holds for any users, areas, documents, addresses and
workers, under `AccountsAssumption` alone (roles and areas are those of the
code, no user manages two areas to begin with, NULL is neither a user nor an
address).

| Theorem | Statement |
|---|---|
| `TypeCorrect`, `Invariance` | `TypeOK` and `IInv` always hold |
| `WorkHasAnOwner` | a document or an area is with an inactive account only if somebody was about to give it work when its removal committed, or the work came after the statement that moves it on |
| `RemovedDataStaysGone` | a removed account has an address again only if a profile update was under way |
| `ReferencesStayWhole` | no document, area or decision refers to an erased account |
| `TablesAreSound` | addresses are unique in any case unless two updates to one overlapped, nobody manages two areas, a row is decided exactly if it names who decided |
| `DecisionsAreFinal`, `RemovalsAreFinal`, `RemovalsAreComplete` | the action properties: a decision is not changed but by the erasure of the requester, nobody comes back, an erasure leaves nothing behind and a removal only what came after the statement that looks for it |

The argument. What a request holds may be stale, so nothing can be said of the
account it read but this: it is active, or its removal crossed the request.
That is `HeldAccounts`, for the session of a profile update and the replacement
of a removal; with it `WorkIsOwned` and `RemovedDataIsGone` are inductive, and
without it the step that writes a stale account breaks them.
`ReplacementIsAnother` (nobody is handed to themselves) makes
`ReferencesExist` follow for the step of an erasure. For a removal, `TakenRows`
says that what its statements have found is still the user's and that no other
removal has found it too, and `NothingElse` that it is all there is unless a row
was missed: with both, `WorkIsOwned` and `RemovalIsComplete` follow at the
commit. `UpdatesUnderWay` says of two updates to one address that they are noted
as long as one of them has not saved,
and `LockedRequests` (the row of a decision is pending and locked once) makes
decisions final: the deletion of the pending requests waits for that lock.

### Document registration

`DocumentRegistrationProofs` holds for any projects, uploads, contents, packages
and requests, and any width of the columns.

| Theorem | Statement |
|---|---|
| `InvariantHolds` | `IInv` always holds |
| `NumbersHold` | sequences and versions are contiguous, one request at a time is about to commit a number, each new attempt is at a higher code |
| `BytesHold` | every committed file row has its bytes under its path |
| `FiledOnce` | no upload is filed twice |
| `RecordsOutlive` | no step removes the record of an upload that is not filed |
| `RegistrationImplementsFiling` | the requests implement `FilingRegister` |

The argument. A commit makes rows visible whose files were moved, one by one,
long before; the invariant follows the files meanwhile. `RequestsAreInStep`
says what a request has behind it at each step, `MovedFilesArePlaced` that the
files it has moved are under the path of its number and no longer waiting,
`MovedFilesAreOwn` that no other request and no committed version has them:
a move takes the file away, so who has moved it is alone with it. That two
requests do not write under one path is `PathsHaveOneWriter`: the index makes
the second wait, before its first move. `DiscardedAreFiled` makes the records
outlive their files over a crash after the commit. A file left under a number
that was never committed is overwritten by the next request with that number;
it is in no row, so no theorem speaks of it. The refinement maps `Commit` to
the step of the register, which files the contents at the paths of the rows,
and everything else to a stutter; that each move leaves the contents of the
rows alone is the lemma it rests on.

### Legal consent

`LegalConsentProofs` holds for any users, legal documents, versions and
requests.

| Theorem | Statement |
|---|---|
| `InvariantHolds` | `IInv` always holds |
| `RowsSound` | the date of a user is that of a committed acceptance of their own |
| `AtMostOneInForce`, `IndexNotNeeded` | one acceptance in force per user and version, and the unique index never has to see to it |
| `EvidenceKept` | no step takes back a signature or a revocation, before the erasure |
| `OnlyPublishedIsSigned` | an acceptance appears on a published version only |

The argument. `EditionsAreHeld` (a request past the checks holds its version
alone, and the version is published) carries the two theorems about
the version; `NumbersAreFresh` (the row of an acceptance under way is nobody
else's) those about the rows; `ReadDatesRemain` (the date a revocation computed
is still of a committed row of the user, or none) the date. The proof found
that an earlier model let a request be stopped by a lock of its own; the
locks now name the requests they stand against.

### Index and trail

`IngestionTrailProofs` is about `TrailSpec`: any workers, documents, versions
and accounts, and a trail of any bounded length.

| Theorem | Statement |
|---|---|
| `TrailInvariantHolds` | `TrailInv` always holds |
| `IndexKeptUp` | the index is of the newest version once nobody is at the document, unless a run failed, read nothing or was overtaken |
| `VectorHolds` | the vector is of the text of its row, unless a run stopped between the two |
| `SubmissionsShown` | every version is in the feed of the areas of its document, under its own number unless it was revised before it was told or its row failed |
| `EventsKept` | no step rewrites or drops a row |

The argument. `IndexCatchesUp` says of each document that is behind who will
catch up: a worker with a version that is not newer than what it read, or the
failure of one. Whether a worker that saves late harms depends on another
having read since, which is the `overlap` flaw; `JobsAreInStep` has what each
worker read. `SubmissionsAreTold` says the same of the rows: a version is told,
or in the hands of the worker that will tell it, or that worker failed. The
last theorem about the feed then goes through the chain of tests of
`describe_entry`.

### Suggestions

`SuggestedFormsProofs` is about `FormsSpec`, for any catalogue and any number of
browsers: `FormsInvariantHolds`, `SuggestionsFit` (no form is refused for what
was suggested, unless the entry was switched since or is an area whose acronym
is not stored in upper case), `DiscardedStay` (a late
suggestion does not bring back a record). What is shown was matched, cut and
kept three steps earlier, so `FormsInv` says from the moment of the match that
what is suggested is on offer or was switched (`SuggestedAreOnOffer`), and that
the texts are cut (`TextsAreShort`).

### Seed and data set tools

`SeedAndDataSetProofs` is about `LabelSpec` and `CollectSpec`, for any input and
any number of runs, failed, killed or complete, and about `SeedSpec`, for any
data under `SeedAssumption` and any number of changes and runs.

| Theorem | Statement |
|---|---|
| `LabelInvariantHolds`, `LabelsHold` | labels are of their rows and criteria, 0 means that no row is left out, answers are asked for once and kept over kills, but for those of one line that a kill left without its end |
| `CollectInvariantHolds`, `OutputsHold` | each output has, once, what its run was told to get: the pages, the records of the sample, the files within the limit, a row for every document of which one can be made |
| `WorkIsKept` | no step takes back what was fetched, but for a record whose line a kill left without its end |
| `SeedInvariantHolds`, `RulesHold` | versions are sequential, one of a document at most is approved, a decision has an auditor, who is not the author unless an erasure replaced one of the two by the other |
| `SeedingIsIdempotent` | where a run passes, the next one passes and changes nothing |
| `SeedingKeepsWork` | no run changes a row it finds |

The argument. For the labelling, `KnownIsTheCache` ties what a run has in memory
to its file, the answers of a merged line included, and `CacheIsOfItsKeys` the file to keys asked for once. For the
collection the invariant says where in its list a command is: what it has
listed begins the list of the site (`ListingsBeginTheSite`), and the positions
left in `queue` are those whose record or file is missing (`ListingGoesOn`,
`DetailsGoOn`, `DownloadsGoOn`), so that a command that ends with 0 has left
none behind. The first row of a document exists because an order on finitely
many lines has a first element (`WellFoundedInduction`).

For the seed, idempotence is about one database and not about a history: after
`Seeded`, no user is missing (`NobodyIsMissing`), so that the next run finds the
same account for each key (`NoAccountAgain`), and with the same accounts each
table is its own seeded form (`NothingAgain`) and each check is the same check
(`MayRunAgain`). It needs of the invariant only that the number of an account is
not used twice, which `AccountsFit` says, and that the log is not empty after a
run (`EventsAreCounted`), which needs the sets of rows to be finite. The rules
of the rows are an invariant because the versions of the data are created
together and never deleted (`VersionsAreThere`): without it, a run could add an
approved version 1 beside a version 2 that was approved since. What an erasure
does to the two columns that name the account is one function put over each
table (`RevisionsInPlace`, `AccessesInPlace`).

### Reading rules, feed, and the parts together

`SupportProofs` holds for documents with any number of revisions, for searches
with any number of results and for rows about anything, of anybody.

| Theorem | Statement |
|---|---|
| `RoutesAgreeOnEveryDocument`, `RoutesHold` | the routes agree on who reads a document and on every field they show but the description, for every document; the questions of the run are instances |
| `SummaryOfAnySearch`, `SummaryHolds` | no restricted result is given to the model, the results given are the most relevant ones, each that matched is given or named where there is room for all, the summary points at one that was given; the searches of the run are instances |
| `SelectionIsDescription`, `FeedHolds` | a row of any kind the system writes is selected under the type it is described as, and no other; those of the run are instances |

The first comes down to one condition (`ReadsIfGranted`). The second unfolds
`Describe`, the first of eighteen tests that holds, into a chain
(`DescribedByChain`), and compares it with the filters kind by kind. That the
results given are the first ones rests on the running sum of `_fit_budget` not
falling (`SizesGrow`). The sum is a recursive function; that there is one
(`SizesExist`) and that it grows are inductions over one set each (`InductionTo`,
from the least element of a set of naturals).

`SupportTypesHold` is about the specification of `MCSupport`: each of its
behaviours is one of the specification of every part (`PartsRunTheirSpecs`), so
what is proved of a part holds where they run together.

### What stays model-checked

- `RequestsAnswer` and `RegistrationsAnswer`: TLAPS does not reason about
  fairness and `ENABLED`.
- The mutants, the runs that expect a violation, and the values of the
  constants: that the data of the repository obey `SeedAssumption` and pass a
  first run is TLC's to say.

## 5. What is left out, and assumed

- Formats, roles and headers are a refusal of the request (`Fail` or the absence
  of the starting action): they change no state. In `LegalConsent` this
  includes the answers to the clauses of a version. The form of a document is
  in `SuggestedForms`, with one area and its files named.
- A required audit row that cannot be written is a `Fail`. The row of a decision
  on a revision is written like that of a submission, and not followed.
- `DocumentRegistration` has one discipline and one document type per project,
  so that a code is a project and a sequence; the extension of a stored file is
  not part of its path.
- Temporary files of abandoned uploads are never removed by the code; the
  model does not count them.
- A transaction ends when its worker does. A worker whose database connection
  is lost but which keeps moving files is not modelled.
- Dates are the order of the INSERTs that produced them
  (`db_default=Now()` is the time of the statement).
- A text of the index is named by the version it was read from; the ranking of
  results, the wording of answers and what a classifier predicts are any
  outcome of their type.
- An erasure is one step of `RevisionLifecycle` and `AccountsAndAccess`, at its
  commit: a row that names the account and that one of its statements missed makes
  the foreign key refuse it, which is a `Fail`. In `RevisionLifecycle` and
  `SeedRuns` a removal is a step too: the first looks at one document, and nothing
  runs beside the seed.
- `create_new_revision`, which no view calls, is not modelled.
- No code of the repository publishes or retires a version of a legal document:
  `Publish` and `Retire` stand for an operator who updates the row.

Not modelled: the text classifier (training and prediction are numerical code
without a protocol), routing, settings, sessions and probes (configuration), the
generated schema migrations but for the triggers and constraints that are guards
here, the synthetic data, the split and the evaluation of the data set tools
(each computes one file from another), the filters a user may add to a list or
a feed (they only narrow it), pages of a list, and the full-row save of the
administration site: a form is open for as long as a person likes and its save
undoes any write in between, so no property of a table it may rewrite would
survive; the models are those of a system in which such forms are not saved
over the work of others.

## 6. What could follow

1. The composition of `RevisionLifecycle` with `AccountsAndAccess`, which now
   meet in one action each (`HandOver`), and of `DocumentRegistration` with
   `IngestionTrail` (`CommitVersion`).
2. The form of the administration site as a step with a stale copy of a row,
   once the code says what such a save may overwrite.

## 7. How to run

    tlc -workers 2 -config RevisionLifecycle_safety.cfg MCRevisionLifecycle
    tlapm RevisionLifecycleProofs.tla

and so for the other modules named `...Proofs`.

`PROJECT.json` lists every run with its module and configuration, the mutants,
the map from definitions to source lines, the findings, the hazards and the
theorems. The longest runs, `accounts_removal`, `registration_files` and
`support`, take two to four minutes with two workers.
