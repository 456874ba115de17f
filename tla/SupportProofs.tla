----------------------------- MODULE SupportProofs -----------------------------
(***************************************************************************)
(* Proofs about the pure rules of reading and of the feed: the routes      *)
(* agree on every document and viewer, however many revisions there are,   *)
(* a summary of any search keeps to what the viewer may read, and every    *)
(* row the system writes is selected as what it is shown as.  Last, what   *)
(* is proved of each part beside the core holds where they run together.   *)
(***************************************************************************)
EXTENDS MCSupport, IngestionTrailProofs, SeedAndDataSetProofs, SuggestedFormsProofs

\* Documents of any number of revisions; DocumentRecords has those of one or two.
AnyDocument ==
    [archived : BOOLEAN, typeActive : BOOLEAN, areas : SUBSET {"live", "closed"},
     statuses : Seq(Statuses)]

\* What each route lets the viewer read comes down to one condition.
LEMMA ReadsIfGranted ==
    ASSUME NEW d \in AnyDocument, NEW v \in Viewers
    PROVE  /\ CanView(d, v) <=> SqlCanRead(v)
           /\ "files" \in DetailFields(d, v) <=> Exists(d) /\ SqlCanRead(v)
           /\ RequestAccess(d, v) = "AlreadyHasAccess" <=> Exists(d) /\ SqlCanRead(v)
<1>1. v.known \in BOOLEAN /\ v.responsible \in BOOLEAN
      /\ v.grant \in {"NONE", "PENDING", "APPROVED", "REJECTED"}
  BY DEF Viewers
<1>2. CanView(d, v) <=> SqlCanRead(v)
  BY <1>1 DEF CanView, AccessStatus, SqlCanRead
<1>3. "files" \in DetailFields(d, v) <=> Exists(d) /\ SqlCanRead(v)
  BY <1>2 DEF DetailFields
<1>4. RequestAccess(d, v) = "AlreadyHasAccess" <=> Exists(d) /\ SqlCanRead(v)
  BY <1>1, <1>2 DEF RequestAccess, SqlCanRead
<1> QED BY <1>2, <1>3, <1>4

\* The files of a revision are those of a reader, or of a reviewer while it is pending.
LEMMA FilesAreSeen ==
    ASSUME NEW d \in AnyDocument, NEW v \in Viewers, NEW i \in DOMAIN d.statuses
    PROVE  FileView(d, v, i) = "bytes" <=>
             Exists(d) /\ (SqlCanRead(v) \/ (d.statuses[i] = "PENDING" /\ IsReviewer(v)))
<1>1. CanView(d, v) <=> SqlCanRead(v)
  BY ReadsIfGranted
<1>2. SqlCanRead(v) \/ IsReviewer(v) => v.known
  BY DEF SqlCanRead, IsReviewer
<1> QED BY <1>1, <1>2 DEF FileView

\* For a document of any number of revisions and any viewer: the detail, the
\* request for access, the files and the search agree on who reads, a reviewer
\* can open what is in the queue and nobody else can, and what is listed can be
\* opened and shows no more than its detail but the description.
THEOREM RoutesAgreeOnEveryDocument ==
    \A d \in AnyDocument, v \in Viewers :
        ReadersAgree(d, v) /\ QueueCanBeInspected(d, v) /\ ListedCanBeOpened(d, v)
<1> SUFFICES ASSUME NEW d \in AnyDocument, NEW v \in Viewers
             PROVE  ReadersAgree(d, v) /\ QueueCanBeInspected(d, v) /\ ListedCanBeOpened(d, v)
  OBVIOUS
<1>1. Listed(d, FALSE) => Exists(d)
  BY DEF Listed, Exists
<1>2. ReadersAgree(d, v)
  <2>1. \A i \in DOMAIN d.statuses : d.statuses[i] # "PENDING" =>
            ("files" \in DetailFields(d, v) <=> FileView(d, v, i) = "bytes")
    BY ReadsIfGranted, FilesAreSeen
  <2>2. \A hit \in Hits :
          SearchShows(d, v, hit) \cap ReadersOnly # {} => "files" \in DetailFields(d, v)
    BY <1>1, ReadsIfGranted DEF SearchShows, ListShows, Found, ReadersOnly
  <2> QED BY <2>1, <2>2, ReadsIfGranted DEF ReadersAgree
<1>3. QueueCanBeInspected(d, v)
  BY ReadsIfGranted, FilesAreSeen DEF QueueCanBeInspected, QueueShows, Queue
<1>4. ListedCanBeOpened(d, v)
  <2>1. Listed(d, FALSE) => DetailFields(d, v) # {}
    BY <1>1 DEF DetailFields
  <2>2. Listed(d, TRUE) => DetailFields(d, v) = {}
    BY DEF Listed, Exists, DetailFields
  <2>3. ASSUME NEW hit \in Hits, d.areas = {"closed"}
        PROVE  ListShows(d, FALSE) \cup SearchShows(d, v, hit) = {}
    BY <2>3 DEF Listed, ListShows, Found, SearchShows
  <2>4. ASSUME NEW hit \in Hits, ~CanView(d, v)
        PROVE  (ListShows(d, FALSE) \cup SearchShows(d, v, hit)) \ DetailFields(d, v)
                 \subseteq {"description"}
    <3>1. ~SqlCanRead(v)
      BY <2>4, ReadsIfGranted
    <3>2. ListShows(d, FALSE) \cup SearchShows(d, v, hit) \subseteq {"metadata", "description"}
      BY <3>1 DEF ListShows, SearchShows
    <3>3. Listed(d, FALSE) => "metadata" \in DetailFields(d, v)
      BY <1>1 DEF DetailFields
    <3>4. ~Listed(d, FALSE) => ListShows(d, FALSE) \cup SearchShows(d, v, hit) = {}
      BY DEF ListShows, SearchShows, Found
    <3> QED BY <3>2, <3>3, <3>4
  <2> QED BY <2>1, <2>2, <2>3, <2>4 DEF ListedCanBeOpened
<1> QED BY <1>2, <1>3, <1>4

LEMMA RecordsAreDocuments == DocumentRecords \subseteq AnyDocument
<1> SUFFICES ASSUME NEW d \in DocumentRecords PROVE d \in AnyDocument
  OBVIOUS
<1>1. PICK n \in 1..2 : d.statuses \in [1..n -> Statuses]
  BY DEF DocumentRecords
<1>2. d.statuses \in Seq(Statuses)
  BY <1>1
<1> QED BY <1>2 DEF DocumentRecords, AnyDocument

\* The rules agree on every question the run asks of them.
THEOREM RoutesHold == ReadInit => RoutesAgree
<1> SUFFICES ASSUME ReadInit, Asks("document")
             PROVE  LET d == question.document
                        v == question.viewer
                    IN  ReadersAgree(d, v) /\ QueueCanBeInspected(d, v) /\ ListedCanBeOpened(d, v)
  BY DEF RoutesAgree
<1>1. question \in [document : DocumentRecords, viewer : Viewers]
  BY DEF ReadInit, Questions, Asks
<1>2. question.document \in DocumentRecords /\ question.viewer \in Viewers
  BY <1>1
<1> QED BY <1>2, RecordsAreDocuments, RoutesAgreeOnEveryDocument
--------------------------------------------------------------------------------
(* The activity feed. *)

\* The first of the tests of describe_entry that holds decides the type.
LEMMA FirstTest ==
    ASSUME NEW r, NEW n \in 1..18,
           Descriptions(r)[n][1], \A j \in 1..n - 1 : ~Descriptions(r)[j][1]
    PROVE  Describe(r).type = Descriptions(r)[n][2]
<1> DEFINE First(i) == Descriptions(r)[i][1] /\ \A j \in 1..i - 1 : ~Descriptions(r)[j][1]
           first == CHOOSE i \in DOMAIN Descriptions(r) : First(i)
<1>1. DOMAIN Descriptions(r) = 1..18
  BY DEF Descriptions
<1>2. ASSUME NEW i \in 1..18, First(i)
      PROVE  i = n
  <2>1. ~(n < i) /\ ~(i < n)
    BY <1>2
  <2> QED BY <2>1
<1>3. first = n
  BY <1>1, <1>2, Zenon
<1> QED BY <1>3 DEF Describe

\* describe_entry as the chain of tests it is, as far as the type goes.
Chain(r) ==
    IF r.action = "DOC_UPLOAD_SUCCESS" /\ r.extraction = "FAILURE"
      THEN "INGESTION_FAILURE"
    ELSE IF r.action = "DOC_UPLOAD_SUCCESS"
      THEN "UPLOAD"
    ELSE IF r.action = "DOC_UPLOAD_DUPLICATE"
      THEN "UPLOAD"
    ELSE IF r.event = "AI_CLASSIFICATION" /\ r.status = "FAILURE"
      THEN "INGESTION_FAILURE"
    ELSE IF r.event = "AI_CLASSIFICATION" /\ r.status = "SUCCESS"
      THEN "UPLOAD"
    ELSE IF r.event = "AI_CLASSIFICATION"
      THEN "UPLOAD"
    ELSE IF r.event = "CONTENT_INDEXED" /\ r.status = "FAILURE"
      THEN "INGESTION_FAILURE"
    ELSE IF r.event = "CONTENT_INDEXED"
      THEN "UPLOAD"
    ELSE IF r.action = "DOC_SUBMIT_SUCCESS" \/ (r.action = "CREATE" /\ r.entity = "document")
      THEN "UPLOAD"
    ELSE IF r.action = "DOC_REVISION_CREATED" \/ (r.action = "CREATE" /\ r.entity = "revision")
      THEN "REVISION"
    ELSE IF r.event \in RevisionDecisions \/ (r.action = "UPDATE" /\ r.entity = "revision")
      THEN "MODERATION"
    ELSE IF r.event \in AccessDecisions \/ (r.action = "UPDATE" /\ r.entity = "document_access")
      THEN "MODERATION"
    ELSE IF r.event \in ArchivingEvents \/ (r.action = "DELETE" /\ r.entity = "document")
      THEN "MODERATION"
    ELSE IF \/ r.action = "DOC_ACCESS_REQUESTED"
            \/ r.action = "CREATE" /\ r.entity = "document_access"
      THEN "ACCESS"
    ELSE IF r.event = "DOCUMENT_ACCESS_DENIED"
      THEN "ACCESS"
    ELSE IF r.action = "DOC_DOWNLOAD"
      THEN "ACCESS"
    ELSE IF r.action = "READ" /\ r.entity = "document"
      THEN "ACCESS"
    ELSE NoKey

\* None of the first n - 1 tests holds.
Past(r, n) == \A j \in 1..n - 1 : ~Descriptions(r)[j][1]

LEMMA NextTest ==
    ASSUME NEW r, NEW n \in 1..18, Past(r, n)
    PROVE  /\ Descriptions(r)[n][1] => Describe(r).type = Descriptions(r)[n][2]
           /\ ~Descriptions(r)[n][1] => Past(r, n + 1)
<1>1. Descriptions(r)[n][1] => Describe(r).type = Descriptions(r)[n][2]
  BY FirstTest DEF Past
<1>2. \A j \in 1..(n + 1) - 1 : j = n \/ j \in 1..n - 1
  OBVIOUS
<1> QED BY <1>1, <1>2 DEF Past

\* The tests, and the types they lead to.
LEMMA Tests ==
    ASSUME NEW r
    PROVE  LET line == Descriptions(r) IN
           /\ (line[1][1] <=> (r.action = "DOC_UPLOAD_SUCCESS" /\ r.extraction = "FAILURE"))
           /\ (line[2][1] <=> (r.action = "DOC_UPLOAD_SUCCESS"))
           /\ (line[3][1] <=> (r.action = "DOC_UPLOAD_DUPLICATE"))
           /\ (line[4][1] <=> (r.event = "AI_CLASSIFICATION" /\ r.status = "FAILURE"))
           /\ (line[5][1] <=> (r.event = "AI_CLASSIFICATION" /\ r.status = "SUCCESS"))
           /\ (line[6][1] <=> (r.event = "AI_CLASSIFICATION"))
           /\ (line[7][1] <=> (r.event = "CONTENT_INDEXED" /\ r.status = "FAILURE"))
           /\ (line[8][1] <=> (r.event = "CONTENT_INDEXED"))
           /\ (line[9][1] <=> (r.action = "DOC_SUBMIT_SUCCESS"
                                \/ (r.action = "CREATE" /\ r.entity = "document")))
           /\ (line[10][1] <=> (r.action = "DOC_REVISION_CREATED"
                                \/ (r.action = "CREATE" /\ r.entity = "revision")))
           /\ (line[11][1] <=> (r.event \in RevisionDecisions
                                \/ (r.action = "UPDATE" /\ r.entity = "revision")))
           /\ (line[12][1] <=> (r.event \in AccessDecisions
                                \/ (r.action = "UPDATE" /\ r.entity = "document_access")))
           /\ (line[13][1] <=> (r.event \in ArchivingEvents
                                \/ (r.action = "DELETE" /\ r.entity = "document")))
           /\ (line[14][1] <=> (r.action = "DOC_ACCESS_REQUESTED"
                                \/ (r.action = "CREATE" /\ r.entity = "document_access")))
           /\ (line[15][1] <=> (r.event = "DOCUMENT_ACCESS_DENIED"))
           /\ (line[16][1] <=> (r.action = "DOC_DOWNLOAD"))
           /\ (line[17][1] <=> (r.action = "READ" /\ r.entity = "document"))
           /\ line[18][1]
BY DEF Descriptions

LEMMA TypesOfTests ==
    ASSUME NEW r
    PROVE  LET line == Descriptions(r) IN
           /\ line[1][2] = "INGESTION_FAILURE"
           /\ line[2][2] = "UPLOAD"
           /\ line[3][2] = "UPLOAD"
           /\ line[4][2] = "INGESTION_FAILURE"
           /\ line[5][2] = "UPLOAD"
           /\ line[6][2] = "UPLOAD"
           /\ line[7][2] = "INGESTION_FAILURE"
           /\ line[8][2] = "UPLOAD"
           /\ line[9][2] = "UPLOAD"
           /\ line[10][2] = "REVISION"
           /\ line[11][2] = "MODERATION"
           /\ line[12][2] = "MODERATION"
           /\ line[13][2] = "MODERATION"
           /\ line[14][2] = "ACCESS"
           /\ line[15][2] = "ACCESS"
           /\ line[16][2] = "ACCESS"
           /\ line[17][2] = "ACCESS"
           /\ line[18][2] = NoKey
BY DEF Descriptions

LEMMA DescribedByChain == ASSUME NEW r PROVE Describe(r).type = Chain(r)
<1> DEFINE type == Describe(r).type
<1>0. Past(r, 1)
  BY DEF Past
<1> DEFINE line(n) == Descriptions(r)[n]
<1>next. \A n \in 1..18 : Past(r, n) =>
            IF line(n)[1] THEN type = line(n)[2] ELSE Past(r, n + 1)
  BY NextTest
<1> HIDE DEF type
<1>1. Past(r, 1) =>
        IF r.action = "DOC_UPLOAD_SUCCESS" /\ r.extraction = "FAILURE"
        THEN type = "INGESTION_FAILURE" ELSE Past(r, 2)
  BY <1>next, Tests, TypesOfTests
<1>2. Past(r, 2) =>
        IF r.action = "DOC_UPLOAD_SUCCESS"
        THEN type = "UPLOAD" ELSE Past(r, 3)
  BY <1>next, Tests, TypesOfTests
<1>3. Past(r, 3) =>
        IF r.action = "DOC_UPLOAD_DUPLICATE"
        THEN type = "UPLOAD" ELSE Past(r, 4)
  BY <1>next, Tests, TypesOfTests
<1>4. Past(r, 4) =>
        IF r.event = "AI_CLASSIFICATION" /\ r.status = "FAILURE"
        THEN type = "INGESTION_FAILURE" ELSE Past(r, 5)
  BY <1>next, Tests, TypesOfTests
<1>5. Past(r, 5) =>
        IF r.event = "AI_CLASSIFICATION" /\ r.status = "SUCCESS"
        THEN type = "UPLOAD" ELSE Past(r, 6)
  BY <1>next, Tests, TypesOfTests
<1>6. Past(r, 6) =>
        IF r.event = "AI_CLASSIFICATION"
        THEN type = "UPLOAD" ELSE Past(r, 7)
  BY <1>next, Tests, TypesOfTests
<1>7. Past(r, 7) =>
        IF r.event = "CONTENT_INDEXED" /\ r.status = "FAILURE"
        THEN type = "INGESTION_FAILURE" ELSE Past(r, 8)
  BY <1>next, Tests, TypesOfTests
<1>8. Past(r, 8) =>
        IF r.event = "CONTENT_INDEXED"
        THEN type = "UPLOAD" ELSE Past(r, 9)
  BY <1>next, Tests, TypesOfTests
<1>9. Past(r, 9) =>
        IF r.action = "DOC_SUBMIT_SUCCESS" \/ (r.action = "CREATE" /\ r.entity = "document")
        THEN type = "UPLOAD" ELSE Past(r, 10)
  BY <1>next, Tests, TypesOfTests
<1>10. Past(r, 10) =>
        IF r.action = "DOC_REVISION_CREATED" \/ (r.action = "CREATE" /\ r.entity = "revision")
        THEN type = "REVISION" ELSE Past(r, 11)
  BY <1>next, Tests, TypesOfTests
<1>11. Past(r, 11) =>
        IF r.event \in RevisionDecisions \/ (r.action = "UPDATE" /\ r.entity = "revision")
        THEN type = "MODERATION" ELSE Past(r, 12)
  BY <1>next, Tests, TypesOfTests
<1>12. Past(r, 12) =>
        IF r.event \in AccessDecisions \/ (r.action = "UPDATE" /\ r.entity = "document_access")
        THEN type = "MODERATION" ELSE Past(r, 13)
  BY <1>next, Tests, TypesOfTests
<1>13. Past(r, 13) =>
        IF r.event \in ArchivingEvents \/ (r.action = "DELETE" /\ r.entity = "document")
        THEN type = "MODERATION" ELSE Past(r, 14)
  BY <1>next, Tests, TypesOfTests
<1>14. Past(r, 14) =>
        IF \/ r.action = "DOC_ACCESS_REQUESTED"
           \/ r.action = "CREATE" /\ r.entity = "document_access"
        THEN type = "ACCESS" ELSE Past(r, 15)
  BY <1>next, Tests, TypesOfTests
<1>15. Past(r, 15) =>
        IF r.event = "DOCUMENT_ACCESS_DENIED"
        THEN type = "ACCESS" ELSE Past(r, 16)
  BY <1>next, Tests, TypesOfTests
<1>16. Past(r, 16) =>
        IF r.action = "DOC_DOWNLOAD"
        THEN type = "ACCESS" ELSE Past(r, 17)
  BY <1>next, Tests, TypesOfTests
<1>17. Past(r, 17) =>
        IF r.action = "READ" /\ r.entity = "document"
        THEN type = "ACCESS" ELSE Past(r, 18)
  BY <1>next, Tests, TypesOfTests
<1>18. Past(r, 18) => type = NoKey
  BY <1>next, Tests, TypesOfTests
<1> QED BY <1>0, <1>1, <1>2, <1>3, <1>4, <1>5, <1>6, <1>7, <1>8, <1>9,
           <1>10, <1>11, <1>12, <1>13, <1>14, <1>15, <1>16, <1>17, <1>18 DEF Chain, type

LEMMA Filters ==
    ASSUME NEW r
    PROVE  /\ TypesOf(r) \subseteq EventTypes
           /\ "UPLOAD" \in TypesOf(r) <=> IsUploadEvent(r)
           /\ "REVISION" \in TypesOf(r) <=> IsRevisionEvent(r)
           /\ "INGESTION_FAILURE" \in TypesOf(r) <=> IsIngestionFailure(r)
           /\ "MODERATION" \in TypesOf(r) <=> IsModerationEvent(r)
           /\ "ACCESS" \in TypesOf(r) <=> IsAccessEvent(r)
BY DEF TypesOf, EventTypes

\* The rows the system writes, by the columns the feed looks at: whatever they
\* are about, whoever they are of, and whatever else is in their record.
Writes(r, actions, entities, events) ==
    r.action \in actions /\ r.entity \in entities /\ r.event \in events

IsWritten(r) ==
    \/ /\ Writes(r, {"DOC_UPLOAD_SUCCESS"}, {"temp_upload"}, {NoKey})
       /\ r.extraction \in {NoKey, "SUCCESS", "EMPTY", "SKIPPED", "FAILURE"}
    \/ /\ Writes(r, {"UPDATE"}, {"temp_upload"}, {"AI_CLASSIFICATION"})
       /\ r.status \in {"SUCCESS", "SKIPPED", "FAILURE"}
    \/ /\ Writes(r, {"UPDATE"}, {"document"}, {"CONTENT_INDEXED"})
       /\ r.status \in {"SUCCESS", "FAILURE"}
    \/ Writes(r, {"DOC_UPLOAD_DUPLICATE", "DOC_SUBMIT_SUCCESS", "DOC_REVISION_CREATED",
                  "DOC_ACCESS_REQUESTED"}, {"document"}, {NoKey})
    \/ Writes(r, {"UPDATE"}, {"revision"}, RevisionDecisions)
    \/ Writes(r, {"UPDATE"}, {"document_access"}, AccessDecisions)
    \/ Writes(r, {"DELETE"}, {"document"}, {"DOCUMENT_ARCHIVED"})
    \/ Writes(r, {"UPDATE"}, {"document"}, {"DOCUMENT_RESTORED"})
    \/ Writes(r, {"READ"}, {"document"}, {"DOCUMENT_ACCESS_DENIED"})
    \/ Writes(r, {"CREATE", "READ", "DELETE"}, {"document"}, {NoKey})
    \/ Writes(r, {"CREATE", "UPDATE"}, {"revision", "document_access"}, {NoKey})
    \/ Writes(r, {"LOGIN", "UPDATE", "DELETE"}, {"app_user"}, {NoKey})

\* Every row is selected under the type it is then described as, and under no
\* other: TYPE_FILTERS, in SQL, and describe_entry, in Python, are one rule.
THEOREM SelectionIsDescription ==
    \A r : IsWritten(r) =>
        TypesOf(r) = IF Describe(r).type = NoKey THEN {} ELSE {Describe(r).type}
<1> SUFFICES ASSUME NEW r, IsWritten(r)
             PROVE  TypesOf(r) = IF Chain(r) = NoKey THEN {} ELSE {Chain(r)}
  BY DescribedByChain
<1> USE FeedAssumption, Filters DEF EventTypes, Writes, IsUploadEvent, IsRevisionEvent,
        IsIngestionFailure, IsModerationEvent, IsAccessEvent, RevisionDecisions,
        AccessDecisions, ArchivingEvents, Chain
<1>1. CASE /\ Writes(r, {"DOC_UPLOAD_SUCCESS"}, {"temp_upload"}, {NoKey})
           /\ r.extraction \in {NoKey, "SUCCESS", "EMPTY", "SKIPPED", "FAILURE"}
  BY <1>1
<1>2. CASE /\ Writes(r, {"UPDATE"}, {"temp_upload"}, {"AI_CLASSIFICATION"})
           /\ r.status \in {"SUCCESS", "SKIPPED", "FAILURE"}
  BY <1>2
<1>3. CASE /\ Writes(r, {"UPDATE"}, {"document"}, {"CONTENT_INDEXED"})
           /\ r.status \in {"SUCCESS", "FAILURE"}
  BY <1>3
<1>4. CASE Writes(r, {"DOC_UPLOAD_DUPLICATE", "DOC_SUBMIT_SUCCESS", "DOC_REVISION_CREATED",
                      "DOC_ACCESS_REQUESTED"}, {"document"}, {NoKey})
  BY <1>4
<1>5. CASE Writes(r, {"UPDATE"}, {"revision"}, RevisionDecisions)
  BY <1>5
<1>6. CASE Writes(r, {"UPDATE"}, {"document_access"}, AccessDecisions)
  BY <1>6
<1>7. CASE Writes(r, {"DELETE"}, {"document"}, {"DOCUMENT_ARCHIVED"})
  BY <1>7
<1>8. CASE Writes(r, {"UPDATE"}, {"document"}, {"DOCUMENT_RESTORED"})
  BY <1>8
<1>9. CASE Writes(r, {"READ"}, {"document"}, {"DOCUMENT_ACCESS_DENIED"})
  BY <1>9
<1>10. CASE Writes(r, {"CREATE", "READ", "DELETE"}, {"document"}, {NoKey})
  BY <1>10
<1>11. CASE Writes(r, {"CREATE", "UPDATE"}, {"revision", "document_access"}, {NoKey})
  BY <1>11
<1>12. CASE Writes(r, {"LOGIN", "UPDATE", "DELETE"}, {"app_user"}, {NoKey})
  BY <1>12
<1> QED BY <1>1, <1>2, <1>3, <1>4, <1>5, <1>6, <1>7, <1>8, <1>9, <1>10, <1>11, <1>12 DEF IsWritten

LEMMA RowsAreWritten == \A r \in Written : IsWritten(r)
<1> USE DEF IsWritten, Writes, Plain
<1>1. \A user, x : x \in {NoKey, "SUCCESS", "EMPTY", "SKIPPED", "FAILURE"} =>
            IsWritten(Uploaded(user, x))
  BY DEF Uploaded
<1>2. \A user, s : s \in {"SUCCESS", "SKIPPED", "FAILURE"} => IsWritten(Classified(user, s))
  BY DEF Classified
<1>3. \A d, user, s, v : s \in {"SUCCESS", "FAILURE"} => IsWritten(Indexed(d, user, s, v))
  BY DEF Indexed
<1>4. \A d, user, verdict : /\ IsWritten(RevisionDecided(d, user, verdict))
                            /\ IsWritten(AccessDecided(d, user, verdict))
  BY DEF RevisionDecided, AccessDecided, RevisionDecisions, AccessDecisions
<1>5. \A d, user, v : /\ IsWritten(DuplicateRefused(d, user))
                      /\ IsWritten(Submitted(d, user, v))
                      /\ IsWritten(RevisionCreated(d, user, v))
                      /\ IsWritten(AccessRequested(d, user))
  BY DEF DuplicateRefused, Submitted, RevisionCreated, AccessRequested
<1>6. \A d, user : /\ IsWritten(AccessDenied(d, user))
                   /\ IsWritten(DocumentArchived(d, user))
                   /\ IsWritten(DocumentRestored(d, user))
  BY DEF AccessDenied, DocumentArchived, DocumentRestored
<1>7. \A r \in SeedRows \cup AccountRows : IsWritten(r)
  BY DEF SeedRows, AccountRows
<1> HIDE DEF IsWritten
<1> QED BY <1>1, <1>2, <1>3, <1>4, <1>5, <1>6, <1>7 DEF Written

\* The rows the run asks about are rows of that kind.
THEOREM FeedHolds == ReadInit => SelectedAsDescribed
<1> SUFFICES ASSUME ReadInit, Asks("row")
             PROVE  LET type == Describe(question.row).type
                    IN  TypesOf(question.row) = IF type = NoKey THEN {} ELSE {type}
  BY DEF SelectedAsDescribed
<1>1. question \in [row : Written]
  BY DEF ReadInit, Questions, Asks
<1>2. IsWritten(question.row)
  BY <1>1, RowsAreWritten
<1> QED BY <1>2, SelectionIsDescription
--------------------------------------------------------------------------------
(* The summary of a search. *)

\* The results of a page of any length.
AnyResults == Seq([match : BOOLEAN, readable : BOOLEAN, size : Nat])

LEMMA InductionTo ==
    ASSUME NEW T \in SUBSET Nat, 0 \in T, \A n \in Nat : n \in T => n + 1 \in T
    PROVE  \A n \in Nat : n \in T
<1> SUFFICES ASSUME NEW m \in Nat, m \notin T PROVE FALSE
  OBVIOUS
<1> DEFINE Out == Nat \ T
<1>1. PICK n \in Out : \A y \in Out : n <= y
  <2>1. Out \in SUBSET Nat /\ Out # {}
    OBVIOUS
  <2> HIDE DEF Out
  <2> QED BY <2>1, LeastOf
<1>2. n # 0 /\ n - 1 \in Nat /\ n - 1 \notin Out
  BY <1>1
<1>3. n - 1 \in T
  BY <1>2
<1> QED BY <1>1, <1>3

\* What SizeUpTo says of a function.
IsSize(used, rs, ids, m) ==
    used = [n \in 0..m |-> IF n = 0 THEN 0 ELSE used[n - 1] + (IF n \in ids THEN rs[n].size ELSE 0)]

\* There is such a function: the running sum of _fit_budget.
LEMMA SizesExist ==
    ASSUME NEW rs \in AnyResults, NEW ids \in SUBSET (DOMAIN rs)
    PROVE  \A m \in Nat : \E used : IsSize(used, rs, ids, m)
<1> DEFINE T == {m \in Nat : \E used : IsSize(used, rs, ids, m)}
<1>1. 0 \in T
  <2>1. IsSize([n \in 0..0 |-> 0], rs, ids, 0)
    BY DEF IsSize
  <2> QED BY <2>1
<1>2. ASSUME NEW m \in Nat, m \in T PROVE m + 1 \in T
  <2>1. PICK used : IsSize(used, rs, ids, m)
    BY <1>2
  <2> DEFINE next == [n \in 0..m + 1 |-> IF n = m + 1 THEN used[m] + (IF n \in ids THEN rs[n].size ELSE 0)
                                         ELSE used[n]]
  <2>2. ASSUME NEW n \in 0..m + 1
        PROVE  next[n] = IF n = 0 THEN 0 ELSE next[n - 1] + (IF n \in ids THEN rs[n].size ELSE 0)
    <3>1. CASE n = m + 1
      BY <3>1
    <3>2. CASE n \in 0..m
      <4>1. used[n] = IF n = 0 THEN 0 ELSE used[n - 1] + (IF n \in ids THEN rs[n].size ELSE 0)
        BY <2>1, <3>2 DEF IsSize
      <4> QED BY <3>2, <4>1
    <3> QED BY <3>1, <3>2
  <2>3. IsSize(next, rs, ids, m + 1)
    <3>1. next = [n \in 0..m + 1 |-> next[n]]
      OBVIOUS
    <3> HIDE DEF next
    <3> QED BY <2>2, <3>1 DEF IsSize
  <2> QED BY <2>3
<1> HIDE DEF T
<1>3. T \in SUBSET Nat
  BY DEF T
<1>4. \A m \in Nat : m \in T
  BY <1>1, <1>2, <1>3, InductionTo
<1> QED BY <1>4 DEF T

LEMMA SizeUpToIsSize ==
    ASSUME NEW rs \in AnyResults, NEW ids \in SUBSET (DOMAIN rs)
    PROVE  IsSize(SizeUpTo(rs, ids), rs, ids, Len(rs))
<1>1. Len(rs) \in Nat
  BY DEF AnyResults
<1>2. \E used : IsSize(used, rs, ids, Len(rs))
  BY <1>1, SizesExist
<1>3. SizeUpTo(rs, ids) = CHOOSE used : IsSize(used, rs, ids, Len(rs))
  BY DEF SizeUpTo, IsSize
<1> QED BY <1>2, <1>3

LEMMA ResultsAreTyped ==
    ASSUME NEW rs \in AnyResults
    PROVE  /\ Len(rs) \in Nat /\ DOMAIN rs = 1..Len(rs)
           /\ \A n \in DOMAIN rs : /\ rs[n].match \in BOOLEAN /\ rs[n].readable \in BOOLEAN
                                   /\ rs[n].size \in Nat
<1> DEFINE R == [match : BOOLEAN, readable : BOOLEAN, size : Nat]
<1>1. Len(rs) \in Nat /\ DOMAIN rs = 1..Len(rs) /\ \A n \in DOMAIN rs : rs[n] \in R
  <2>1. rs \in Seq(R)
    BY DEF AnyResults
  <2> HIDE DEF R
  <2> QED BY <2>1
<1>2. ASSUME NEW n \in DOMAIN rs
      PROVE  rs[n].match \in BOOLEAN /\ rs[n].readable \in BOOLEAN /\ rs[n].size \in Nat
  <2>1. rs[n] \in [match : BOOLEAN, readable : BOOLEAN, size : Nat]
    BY <1>1
  <2> QED BY <2>1
<1> QED BY <1>1, <1>2

\* A longer prefix is not smaller.
LEMMA SizesGrow ==
    ASSUME NEW rs \in AnyResults, NEW ids \in SUBSET (DOMAIN rs)
    PROVE  \A n \in 0..Len(rs) :
             /\ SizeUpTo(rs, ids)[n] \in Nat
             /\ \A k \in 0..n : SizeUpTo(rs, ids)[k] <= SizeUpTo(rs, ids)[n]
<1> DEFINE used == SizeUpTo(rs, ids)
           Grown(n) == \A k \in 0..n : used[k] \in Nat /\ used[k] <= used[n]
           T == {n \in Nat : n \in 0..Len(rs) => Grown(n)}
<1>1. Len(rs) \in Nat /\ DOMAIN rs = 1..Len(rs) /\ \A n \in DOMAIN rs : rs[n].size \in Nat
  BY ResultsAreTyped
<1>2. used[0] = 0 /\ \A n \in 1..Len(rs) :
        used[n] = used[n - 1] + (IF n \in ids THEN rs[n].size ELSE 0)
  BY <1>1, SizeUpToIsSize DEF IsSize
<1> HIDE DEF used
<1>3. 0 \in T
  BY <1>2
<1>4. ASSUME NEW n \in Nat, n \in T PROVE n + 1 \in T
  <2> SUFFICES ASSUME n + 1 \in 0..Len(rs) PROVE Grown(n + 1)
    OBVIOUS
  <2>1. Grown(n)
    BY <1>4
  <2>2. used[n + 1] = used[n] + (IF n + 1 \in ids THEN rs[n + 1].size ELSE 0)
    BY <1>2
  <2>3. used[n] \in Nat /\ used[n + 1] \in Nat /\ used[n] <= used[n + 1]
    BY <1>1, <2>1, <2>2
  <2>4. ASSUME NEW k \in 0..n PROVE used[k] \in Nat /\ used[k] <= used[n]
    BY <2>1
  <2> QED BY <2>3, <2>4
<1>5. T \in SUBSET Nat
  OBVIOUS
<1> HIDE DEF T
<1>6. \A n \in Nat : n \in T
  BY <1>3, <1>4, <1>5, InductionTo
<1> QED BY <1>6 DEF T, used

\* The summary of any search, of any number of results of any size and under any
\* budget, is made of what the viewer may see: no restricted result is given to the
\* model, the results that are given are the first ones, and where there is room for
\* all, each result whose text matched is given with its text or named as restricted.
THEOREM SummaryOfAnySearch ==
    \A rs \in AnyResults, hasText \in BOOLEAN, budget \in Nat, answer \in Nat :
        SummaryKeepsTo(rs, hasText, budget, answer)
<1> SUFFICES ASSUME NEW rs \in AnyResults, NEW hasText \in BOOLEAN, NEW budget \in Nat,
                    NEW answer \in Nat
             PROVE  SummaryKeepsTo(rs, hasText, budget, answer)
  OBVIOUS
<1> DEFINE restricted == Restricted(rs, hasText)
           candidates == Candidates(rs, hasText)
           ids == Entries(rs, hasText, budget)
           size == SizeUpTo(rs, candidates)
           best == MostRelevant(rs, hasText, ids, answer)
<1>1. Len(rs) \in Nat /\ DOMAIN rs = 1..Len(rs)
  BY ResultsAreTyped
<1>2. candidates \in SUBSET (DOMAIN rs) /\ candidates \cap restricted = {}
  BY DEF Candidates
<1>3. ids = {i \in candidates : size[i] <= budget}
  BY DEF Entries, Fitting
<1>4. \A n \in 0..Len(rs) : size[n] \in Nat /\ \A k \in 0..n : size[k] <= size[n]
  BY <1>2, SizesGrow
<1> HIDE DEF ids, size, candidates
<1>5. ids \subseteq candidates
  BY <1>3
<1>6. ASSUME NEW i \in ids, NEW j \in candidates, j < i PROVE j \in ids
  <2>1. i \in 0..Len(rs) /\ j \in 0..i
    BY <1>1, <1>2, <1>5, <1>6
  <2>2. size[j] <= size[i] /\ size[i] <= budget /\ size[i] \in Nat /\ size[j] \in Nat
    BY <1>1, <1>3, <1>4, <2>1
  <2> QED BY <1>3, <2>2
<1>7. ASSUME hasText, size[Len(rs)] <= budget, NEW i \in DOMAIN rs, rs[i].match
      PROVE  i \in WithText(rs, ids) \cup restricted
  <2> SUFFICES ASSUME i \notin restricted PROVE i \in WithText(rs, ids)
    OBVIOUS
  <2>1. i \in candidates /\ rs[i].readable
    BY <1>7 DEF candidates, Candidates, Restricted
  <2>2. i \in 0..Len(rs) /\ Len(rs) \in 0..Len(rs)
    BY <1>1
  <2>3. size[i] <= size[Len(rs)] /\ size[i] \in Nat /\ size[Len(rs)] \in Nat
    BY <1>4, <2>2
  <2>4. i \in ids
    BY <1>3, <1>7, <2>1, <2>3
  <2> QED BY <2>1, <2>4 DEF WithText
<1>8. ASSUME best # 0 PROVE best \in ids
  <2>1. CASE answer \in ids
    BY <2>1 DEF MostRelevant
  <2>2. CASE answer \notin ids
    <3>1. ids # {} /\ hasText /\ best = CHOOSE i \in ids : \A j \in ids : i <= j
      BY <1>8, <2>2 DEF MostRelevant
    <3>2. ids \in SUBSET Nat
      BY <1>1, <1>2, <1>5
    <3>3. \E i \in ids : \A j \in ids : i <= j
      BY <3>1, <3>2, LeastOf
    <3> HIDE DEF best
    <3> QED BY <3>1, <3>3
  <2> QED BY <2>1, <2>2
<1>9. ids \cap restricted = {}
  BY <1>2, <1>5
<1> QED BY <1>6, <1>7, <1>8, <1>9 DEF SummaryKeepsTo, ids, size, candidates

\* The searches the run asks about are instances.
THEOREM SummaryHolds == ReadInit => SummaryKeepsToReadable
<1> SUFFICES ASSUME ReadInit, Asks("results")
             PROVE  SummaryKeepsTo(question.results, question.hasText, question.budget, question.answer)
  BY DEF SummaryKeepsToReadable
<1>1. question \in [results : Results, hasText : BOOLEAN, budget : {0, 3, 6}, answer : 0..3]
  BY DEF ReadInit, Questions, Asks
<1>2. question.results \in AnyResults
  <2>1. PICK n \in 0..3 :
          question.results \in [1..n -> [match : BOOLEAN, readable : BOOLEAN, size : 1..2]]
    BY <1>1 DEF Results
  <2>2. \A i \in 1..n : question.results[i] \in [match : BOOLEAN, readable : BOOLEAN, size : Nat]
    <3> SUFFICES ASSUME NEW i \in 1..n
                 PROVE  question.results[i] \in [match : BOOLEAN, readable : BOOLEAN, size : Nat]
      OBVIOUS
    <3>1. question.results[i] \in [match : BOOLEAN, readable : BOOLEAN, size : 1..2]
      BY <2>1
    <3> QED BY <3>1
  <2>3. question.results \in [1..n -> [match : BOOLEAN, readable : BOOLEAN, size : Nat]]
    BY <2>1, <2>2
  <2> DEFINE R == [match : BOOLEAN, readable : BOOLEAN, size : Nat]
  <2>4. question.results \in Seq(R)
    <3>1. n \in Nat /\ question.results \in [1..n -> R]
      BY <2>3
    <3> HIDE DEF R
    <3> QED BY <3>1
  <2> QED BY <2>4 DEF AnyResults
<1>3. question.hasText \in BOOLEAN /\ question.budget \in Nat /\ question.answer \in Nat
  BY <1>1
<1> QED BY <1>2, <1>3, SummaryOfAnySearch
--------------------------------------------------------------------------------
(* The parts where they run together. *)

\* Each behaviour of the small instances is one of each part.
LEMMA PartsRunTheirSpecs ==
    Spec => TrailSpec /\ CollectSpec /\ LabelSpec /\ SeedSpec /\ FormsSpec
<1> DEFINE allVars == <<part, question, trailVars, collectVars, labelVars, seedVars, formVars>>
<1>1. Init => TrailInit /\ CollectInit /\ LabelInit /\ SeedInit /\ FormsInit
  BY DEF Init
<1>2. [Next]_allVars => /\ [TrailNext]_trailVars /\ [CollectNext]_collectVars
                        /\ [LabelNext]_labelVars /\ [SeedNext]_seedVars /\ [FormsNext]_formVars
  BY DEF Next, Trail, Collect, Label, SeedAgain, Form
<1> QED BY <1>1, <1>2, PTL DEF Spec, TrailSpec, CollectSpec, LabelSpec, SeedSpec, FormsSpec

\* The variables of every part keep their types.
THEOREM SupportTypesHold == Spec => []SupportTypeOK
<1>1. TrailInv => TrailTypeOK
  BY DEF TrailInv
<1>2. CollectInv => CollectTypeOK
  BY DEF CollectInv
<1>3. LabelInv => LabelTypeOK
  BY DEF LabelInv
<1>4. SeedInv => SeedTypeOK
  BY DEF SeedInv
<1>5. FormsInv => FormsTypeOK
  BY DEF FormsInv
<1>6. TrailTypeOK /\ CollectTypeOK /\ LabelTypeOK /\ SeedTypeOK /\ FormsTypeOK => SupportTypeOK
  BY DEF SupportTypeOK
<1> QED BY <1>1, <1>2, <1>3, <1>4, <1>5, <1>6, PartsRunTheirSpecs, TrailInvariantHolds,
           CollectInvariantHolds, LabelInvariantHolds, SeedInvariantHolds, FormsInvariantHolds, PTL
================================================================================
