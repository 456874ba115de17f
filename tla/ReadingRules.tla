----------------------------- MODULE ReadingRules ------------------------------
(***************************************************************************)
(* Who is shown what: the listing, the detail, the search, the summary of  *)
(* a search, the files and the queue of the reviewers each decide by       *)
(* themselves, in Python or in SQL, which documents exist for a viewer and *)
(* how much of them.  The operators below are those decisions, over every  *)
(* document and viewer that differ in what the decisions look at.          *)
(***************************************************************************)
EXTENDS ActivityFeed
LOCAL INSTANCE Integers
LOCAL INSTANCE Sequences

Statuses == {"PENDING", "APPROVED", "REJECTED", "OBSOLETE"}

\* areas: "live" for an active area, "closed" for one that is not; statuses:
\* those of the revisions by version.
DocumentRecords ==
    [archived : BOOLEAN, typeActive : BOOLEAN, areas : SUBSET {"live", "closed"},
     statuses : UNION {[1..n -> Statuses] : n \in 1..2}]

\* known: there is a session (of an active account) or, with DEBUG, a user_id.
Viewers ==
    [known : BOOLEAN, role : {"AUTHOR", "VIEWER", "AUDITOR", "ADMIN"}, responsible : BOOLEAN,
     grant : {"NONE", "PENDING", "APPROVED", "REJECTED"}]

IsReviewer(v) == v.known /\ v.role \in {"AUDITOR", "ADMIN"}
--------------------------------------------------------------------------------
\* get_document_detail, request_document_access.

\* _get_document_or_none, and _get_document_for_file.
Exists(d) == d.typeActive /\ ~d.archived

NewestStatus(d) == d.statuses[Len(d.statuses)]

\* Faulty variant: any request opens the document.
StatusByRequest(d, v) ==
    IF ~v.known THEN "PENDING"
    ELSE IF v.responsible \/ v.grant # "NONE" THEN "APPROVED"
    ELSE IF NewestStatus(d) # "APPROVED" THEN "IN_REVIEW" ELSE "PENDING"

\* _compute_access_status.
AccessStatus(d, v) ==
    IF ~v.known THEN "PENDING"
    ELSE IF v.responsible \/ v.grant = "APPROVED" THEN "APPROVED"
    ELSE IF NewestStatus(d) # "APPROVED" THEN "IN_REVIEW" ELSE "PENDING"

CanView(d, v) == AccessStatus(d, v) = "APPROVED"

\* _serialize_document_detail and _serialize_revision; nothing for a 404.
DetailFields(d, v) ==
    IF ~Exists(d) THEN {}
    ELSE {"metadata"} \cup (IF CanView(d, v) THEN {"description", "change_description", "files"} ELSE {})

RequestAccess(d, v) ==
    IF ~Exists(d) THEN "DocumentNotFound"
    ELSE IF ~v.known THEN "MissingUser"
    ELSE IF CanView(d, v) THEN "AlreadyHasAccess"
    ELSE IF v.grant = "NONE" THEN "Created" ELSE v.grant

\* get_document_file_for_view, for a file of version i whose bytes are there.
FileView(d, v, i) ==
    IF ~Exists(d) THEN "FileNotFound"
    ELSE IF ~v.known THEN "MissingUser"
    ELSE IF CanView(d, v) \/ (d.statuses[i] = "PENDING" /\ IsReviewer(v)) THEN "bytes" ELSE "AccessDenied"

\* pending_revisions: the versions a reviewer finds in the queue, and what it
\* shows of their document.
Queue(d) == {i \in DOMAIN d.statuses : Exists(d) /\ d.statuses[i] = "PENDING"}

QueueShows(d, v) ==
    IF IsReviewer(v) /\ Queue(d) # {} THEN {"metadata", "change_description", "files"} ELSE {}
--------------------------------------------------------------------------------
\* filter_documents: the live listing and the archived one.

Listed(d, archived) ==
    /\ d.typeActive
    /\ d.archived = archived
    /\ "live" \in d.areas \/ d.areas = {}

\* serialize_document: the description too, whoever asks.
ListShows(d, archived) == IF Listed(d, archived) THEN {"metadata", "description"} ELSE {}

\* search_documents: hit says whether a term is in the metadata and in the
\* indexed text.
Hits == [metadata : BOOLEAN, content : BOOLEAN]

Found(d, hit) == Listed(d, FALSE) /\ (hit.metadata \/ hit.content)

\* _can_read, in SQL.
SqlCanRead(v) == v.known /\ (v.responsible \/ v.grant = "APPROVED")

\* What a result of the search shows: what the listing does, with the terms
\* marked in title and description, and of the text what a reader may see.
SearchShows(d, v, hit) ==
    IF ~Found(d, hit) THEN {}
    ELSE ListShows(d, FALSE)
         \cup (IF SqlCanRead(v) THEN {"thematic_tags"} ELSE {})
         \cup (IF hit.content /\ SqlCanRead(v) THEN {"fragments"} ELSE {})
--------------------------------------------------------------------------------
\* summarize_search_results over the results of the first page.  A result is
\* [match, readable, size]: the text matched, the viewer may read it, and how
\* long its entry is.  hasText: there was a term; without one the results come
\* from the listing and carry no content_match.
Results == UNION {[1..n -> [match : BOOLEAN, readable : BOOLEAN, size : 1..2]] : n \in 0..3}

Restricted(rs, hasText) == {i \in DOMAIN rs : hasText /\ rs[i].match /\ ~rs[i].readable}

\* Faulty variant: the restricted results are only counted.
EveryCandidate(rs, hasText) == DOMAIN rs

\* The results that may be given to the model, in the order of their relevance.
Candidates(rs, hasText) == DOMAIN rs \ Restricted(rs, hasText)

\* The size of those of ids among the first n results.
SizeUpTo(rs, ids) ==
    LET used[n \in 0..Len(rs)] ==
            IF n = 0 THEN 0 ELSE used[n - 1] + (IF n \in ids THEN rs[n].size ELSE 0)
    IN  used

\* _fit_budget: the entries before the first that does not fit.
Fitting(rs, ids, budget) == {i \in ids : SizeUpTo(rs, ids)[i] <= budget}

\* The entries the language model is given, and which of them carry text.
Entries(rs, hasText, budget) == Fitting(rs, Candidates(rs, hasText), budget)
WithText(rs, ids) == {i \in ids : rs[i].readable}

\* The most relevant result: the answer of the model if it is one of the
\* entries, else the first entry of a search with a term, else none (0).
MostRelevant(rs, hasText, ids, answer) ==
    IF ids = {} THEN 0
    ELSE IF answer \in ids THEN answer
    ELSE IF hasText THEN CHOOSE i \in ids : \A j \in ids : i <= j ELSE 0
--------------------------------------------------------------------------------
\* One question to the rules: a document and a viewer, a search to summarise,
\* or a row of the trail to show.
Questions ==
    [document : DocumentRecords, viewer : Viewers]
    \cup [results : Results, hasText : BOOLEAN, budget : {0, 3, 6}, answer : 0..3]
    \cup [row : Written]

VARIABLE question

ReadInit == question \in Questions

Asks(of) == of \in DOMAIN question
--------------------------------------------------------------------------------
\* What is the readers' alone: the files, the text of a document and whatever is
\* taken from it, and why it was changed.  The description is not among them:
\* the detail keeps it to readers, the lists and the search show it to everybody.
ReadersOnly == {"change_description", "files", "thematic_tags", "fragments"}

\* One answer to "may this viewer read it": the detail, the request for access,
\* the files of decided versions and, for documents the search finds, the SQL of
\* the search never disagree.  A decided grant is final for request-access.
ReadersAgree(d, v) ==
    LET reads == "files" \in DetailFields(d, v)
    IN  /\ reads <=> RequestAccess(d, v) = "AlreadyHasAccess"
        /\ reads <=> Exists(d) /\ SqlCanRead(v)
        /\ \A i \in DOMAIN d.statuses :
             d.statuses[i] # "PENDING" => (reads <=> FileView(d, v, i) = "bytes")
        /\ \A hit \in Hits : SearchShows(d, v, hit) \cap ReadersOnly # {} => reads

\* Every revision in the queue can be opened by every reviewer who is shown it,
\* and nobody else gets the files of what they cannot read.
QueueCanBeInspected(d, v) ==
    \A i \in DOMAIN d.statuses :
        /\ i \in Queue(d) /\ QueueShows(d, v) # {} => FileView(d, v, i) = "bytes"
        /\ FileView(d, v, i) = "bytes" =>
             CanView(d, v) \/ (i \in Queue(d) /\ "files" \in QueueShows(d, v))

\* What a list or a search offers can be opened: a document of the live list has
\* a detail that is not refused, one of the archived list has none, and a
\* document of closed areas only is offered by neither.  Of what a reader does
\* not share with everybody, the description alone is shown beyond the detail.
ListedCanBeOpened(d, v) ==
    LET offered(hit) == ListShows(d, FALSE) \cup SearchShows(d, v, hit)
    IN  /\ Listed(d, FALSE) => DetailFields(d, v) # {}
        /\ Listed(d, TRUE) => DetailFields(d, v) = {}
        /\ \A hit \in Hits :
             /\ d.areas = {"closed"} => offered(hit) = {}
             /\ ~CanView(d, v) => offered(hit) \ DetailFields(d, v) \subseteq {"description"}

\* The routes agree on who reads a document, on what can be opened, and on every
\* field but one: the description, which the listing and the search give to
\* everybody who finds the document and the detail to its readers.
RoutesAgree ==
    Asks("document") =>
        LET d == question.document
            v == question.viewer
        IN  ReadersAgree(d, v) /\ QueueCanBeInspected(d, v) /\ ListedCanBeOpened(d, v)

\* A result whose text matched is given to the model with its text or named as
\* restricted, never both and, where all fit, always one of them; no result is
\* given in the place of a more relevant one; and the summary points at one that
\* was given.
SummaryKeepsTo(rs, hasText, budget, answer) ==
    LET restricted == Restricted(rs, hasText)
        candidates == Candidates(rs, hasText)
        ids == Entries(rs, hasText, budget)
        best == MostRelevant(rs, hasText, ids, answer)
    IN  /\ ids \cap restricted = {}
        /\ \A i \in ids : \A j \in candidates : j < i => j \in ids
        /\ hasText /\ SizeUpTo(rs, candidates)[Len(rs)] <= budget =>
             \A i \in DOMAIN rs : rs[i].match => i \in WithText(rs, ids) \cup restricted
        /\ best # 0 => best \in ids

\* The summary is made of what the viewer may see.
SummaryKeepsToReadable ==
    Asks("results") =>
        SummaryKeepsTo(question.results, question.hasText, question.budget, question.answer)

\* A row of audit_log is selected under exactly one filter of the feed, and
\* described as an event of that type: nothing is shown twice, nothing asked for
\* as one type comes back as another, and no row of the filters is undescribed.
SelectedAsDescribed ==
    Asks("row") =>
        LET type == Describe(question.row).type
        IN  TypesOf(question.row) = IF type = NoKey THEN {} ELSE {type}
================================================================================
