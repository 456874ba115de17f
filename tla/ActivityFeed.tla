----------------------------- MODULE ActivityFeed ------------------------------
(***************************************************************************)
(* The activity feed of a manager: which rows of audit_log a query selects *)
(* (TYPE_FILTERS, area_scope, in SQL) and how each row is then described   *)
(* (describe_entry, in Python).  The two are written separately and have   *)
(* to agree on every row some part of the system writes; the constructors  *)
(* below are the calls of audit_service in the views and the commands.     *)
(*                                                                         *)
(* A row is [action, entity, id, user, event, status, extraction, version];*)
(* NoKey stands for a NULL column or a key the JSON record lacks.          *)
(***************************************************************************)
LOCAL INSTANCE Integers
LOCAL INSTANCE Sequences

CONSTANT NoKey  \* a model value, neither a string nor an identifier

\* A row with an action, an entity, its id, a user and nothing in the record.
Plain(action, entity, id, user) ==
    [action |-> action, entity |-> entity, id |-> id, user |-> user, event |-> NoKey,
     status |-> NoKey, extraction |-> NoKey, version |-> 0]

Uploaded(user, extraction) ==
    [Plain("DOC_UPLOAD_SUCCESS", "temp_upload", NoKey, user) EXCEPT !.extraction = extraction]

Classified(user, status) ==
    [Plain("UPDATE", "temp_upload", NoKey, user) EXCEPT
        !.event = "AI_CLASSIFICATION", !.status = status]

DuplicateRefused(d, user) == Plain("DOC_UPLOAD_DUPLICATE", "document", d, user)

Submitted(d, user, version) ==
    [Plain("DOC_SUBMIT_SUCCESS", "document", d, user) EXCEPT !.version = version]

RevisionCreated(d, user, version) ==
    [Plain("DOC_REVISION_CREATED", "document", d, user) EXCEPT !.version = version]

Indexed(d, user, status, version) ==
    [Plain("UPDATE", "document", d, user) EXCEPT
        !.event = "CONTENT_INDEXED", !.status = status, !.version = version]

AccessRequested(d, user) == Plain("DOC_ACCESS_REQUESTED", "document", d, user)

AccessDenied(d, user) ==
    [Plain("READ", "document", d, user) EXCEPT !.event = "DOCUMENT_ACCESS_DENIED"]

RevisionDecided(r, user, verdict) ==
    [Plain("UPDATE", "revision", r, user) EXCEPT !.event =
        IF verdict = "APPROVED" THEN "REVISION_APPROVED" ELSE "REVISION_REJECTED"]

AccessDecided(a, user, verdict) ==
    [Plain("UPDATE", "document_access", a, user) EXCEPT !.event =
        IF verdict = "APPROVED" THEN "ACCESS_APPROVED" ELSE "ACCESS_REJECTED"]

DocumentArchived(d, user) ==
    [Plain("DELETE", "document", d, user) EXCEPT !.event = "DOCUMENT_ARCHIVED"]

DocumentRestored(d, user) ==
    [Plain("UPDATE", "document", d, user) EXCEPT !.event = "DOCUMENT_RESTORED"]

\* _seed_audit_log: rows without an event.
SeedRows ==
    {Plain(action, "document", 1, "ana") : action \in {"CREATE", "READ", "DELETE"}}
    \cup {Plain("CREATE", entity, 1, "ana") : entity \in {"revision", "document_access"}}
    \cup {[Plain("UPDATE", entity, 1, "ana") EXCEPT !.status = verdict] :
            entity \in {"revision", "document_access"}, verdict \in {"APPROVED", "REJECTED"}}
    \cup {Plain("LOGIN", "app_user", 1, "ana")}

\* Rows about accounts and legal terms, which are not events of the feed.
AccountRows == {Plain(action, "app_user", 1, "ana") : action \in {"UPDATE", "DELETE"}}

\* One row of each kind the system writes.
Written ==
    {Uploaded("ana", x) : x \in {NoKey, "SUCCESS", "EMPTY", "SKIPPED", "FAILURE"}}
    \cup {Classified("ana", s) : s \in {"SUCCESS", "SKIPPED", "FAILURE"}}
    \cup {Indexed(1, "ana", s, 1) : s \in {"SUCCESS", "FAILURE"}}
    \cup {RevisionDecided(1, "ana", v) : v \in {"APPROVED", "REJECTED"}}
    \cup {AccessDecided(1, "ana", v) : v \in {"APPROVED", "REJECTED"}}
    \cup {DuplicateRefused(1, "ana"), Submitted(1, "ana", 1), RevisionCreated(1, "ana", 2),
          AccessRequested(1, "ana"), AccessDenied(1, "ana"),
          DocumentArchived(1, "ana"), DocumentRestored(1, "ana")}
    \cup SeedRows \cup AccountRows
--------------------------------------------------------------------------------
EventTypes == {"UPLOAD", "REVISION", "INGESTION_FAILURE", "MODERATION", "ACCESS"}
RevisionDecisions == {"REVISION_APPROVED", "REVISION_REJECTED"}
AccessDecisions == {"ACCESS_APPROVED", "ACCESS_REJECTED"}
ArchivingEvents == {"DOCUMENT_ARCHIVED", "DOCUMENT_RESTORED"}

\* NULL is not one of the values the filters and the descriptions look for.
ASSUME FeedAssumption ==
    NoKey \notin {"AI_CLASSIFICATION", "CONTENT_INDEXED", "DOCUMENT_ACCESS_DENIED",
                  "SUCCESS", "EMPTY", "SKIPPED", "FAILURE"}
               \cup RevisionDecisions \cup AccessDecisions \cup ArchivingEvents \cup EventTypes

IsUploadEvent(r) ==
    \/ r.action = "DOC_UPLOAD_SUCCESS" /\ r.extraction \in {NoKey, "SUCCESS", "EMPTY", "SKIPPED"}
    \/ r.action \in {"DOC_UPLOAD_DUPLICATE", "DOC_SUBMIT_SUCCESS"}
    \/ r.action = "CREATE" /\ r.entity = "document"
    \/ r.entity = "temp_upload" /\ r.event = "AI_CLASSIFICATION" /\ r.status \in {"SUCCESS", "SKIPPED"}
    \/ r.event = "CONTENT_INDEXED" /\ r.status = "SUCCESS"

IsRevisionEvent(r) ==
    \/ r.action = "DOC_REVISION_CREATED"
    \/ r.action = "CREATE" /\ r.entity = "revision"

IsIngestionFailure(r) ==
    \/ r.action = "DOC_UPLOAD_SUCCESS" /\ r.extraction = "FAILURE"
    \/ r.entity = "temp_upload" /\ r.event = "AI_CLASSIFICATION" /\ r.status = "FAILURE"
    \/ r.event = "CONTENT_INDEXED" /\ r.status = "FAILURE"

\* Faulty variant: an UPDATE or DELETE counts whatever its event.
IsAnyChange(r) ==
    \/ r.event \in RevisionDecisions \cup AccessDecisions \cup ArchivingEvents
    \/ r.action = "UPDATE" /\ r.entity \in {"revision", "document_access", "document"}
    \/ r.action = "DELETE" /\ r.entity = "document"

IsModerationEvent(r) ==
    \/ r.event \in RevisionDecisions \cup AccessDecisions \cup ArchivingEvents
    \/ r.action = "UPDATE" /\ r.entity \in {"revision", "document_access"} /\ r.event = NoKey
    \/ r.action = "DELETE" /\ r.entity = "document" /\ r.event = NoKey

IsAccessEvent(r) ==
    \/ r.action \in {"DOC_ACCESS_REQUESTED", "DOC_DOWNLOAD"}
    \/ r.event = "DOCUMENT_ACCESS_DENIED"
    \/ r.action = "READ" /\ r.entity = "document"
    \/ r.action = "CREATE" /\ r.entity = "document_access"

TypesOf(r) ==
    {t \in EventTypes :
        CASE t = "UPLOAD" -> IsUploadEvent(r)
          [] t = "REVISION" -> IsRevisionEvent(r)
          [] t = "INGESTION_FAILURE" -> IsIngestionFailure(r)
          [] t = "MODERATION" -> IsModerationEvent(r)
          [] t = "ACCESS" -> IsAccessEvent(r)}
--------------------------------------------------------------------------------
Outcome(r) == IF r.status = NoKey THEN "DECIDED" ELSE r.status

\* describe_entry is a chain of tests of which the first that holds decides:
\* <<test, type, event shown>>.  A decision shows the event of its row.
Descriptions(r) == <<
    <<r.action = "DOC_UPLOAD_SUCCESS" /\ r.extraction = "FAILURE",
        "INGESTION_FAILURE", "TEXT_EXTRACTION_FAILED">>,
    <<r.action = "DOC_UPLOAD_SUCCESS", "UPLOAD", "FILE_UPLOADED">>,
    <<r.action = "DOC_UPLOAD_DUPLICATE", "UPLOAD", "DUPLICATE_FILE_REFUSED">>,
    <<r.event = "AI_CLASSIFICATION" /\ r.status = "FAILURE",
        "INGESTION_FAILURE", "AI_CLASSIFICATION_FAILED">>,
    <<r.event = "AI_CLASSIFICATION" /\ r.status = "SUCCESS", "UPLOAD", "AI_CLASSIFICATION_DONE">>,
    <<r.event = "AI_CLASSIFICATION", "UPLOAD", "AI_CLASSIFICATION_SKIPPED">>,
    <<r.event = "CONTENT_INDEXED" /\ r.status = "FAILURE",
        "INGESTION_FAILURE", "CONTENT_INDEXING_FAILED">>,
    <<r.event = "CONTENT_INDEXED", "UPLOAD", "CONTENT_INDEXED">>,
    <<r.action = "DOC_SUBMIT_SUCCESS" \/ (r.action = "CREATE" /\ r.entity = "document"),
        "UPLOAD", "DOCUMENT_REGISTERED">>,
    <<r.action = "DOC_REVISION_CREATED" \/ (r.action = "CREATE" /\ r.entity = "revision"),
        "REVISION", "REVISION_SUBMITTED">>,
    <<r.event \in RevisionDecisions \/ (r.action = "UPDATE" /\ r.entity = "revision"),
        "MODERATION", IF r.event = NoKey THEN "REVISION_" \o Outcome(r) ELSE r.event>>,
    <<r.event \in AccessDecisions \/ (r.action = "UPDATE" /\ r.entity = "document_access"),
        "MODERATION", IF r.event = NoKey THEN "ACCESS_" \o Outcome(r) ELSE r.event>>,
    <<r.event \in ArchivingEvents \/ (r.action = "DELETE" /\ r.entity = "document"),
        "MODERATION", IF r.event = NoKey THEN "DOCUMENT_ARCHIVED" ELSE r.event>>,
    <<r.action = "DOC_ACCESS_REQUESTED" \/ (r.action = "CREATE" /\ r.entity = "document_access"),
        "ACCESS", "ACCESS_REQUESTED">>,
    <<r.event = "DOCUMENT_ACCESS_DENIED", "ACCESS", "DOCUMENT_ACCESS_DENIED">>,
    <<r.action = "DOC_DOWNLOAD", "ACCESS", "DOCUMENT_DOWNLOADED">>,
    <<r.action = "READ" /\ r.entity = "document", "ACCESS", "DOCUMENT_VIEWED">>,
    <<TRUE, NoKey, NoKey>> >>

Describe(r) ==
    LET lines == Descriptions(r)
        first == CHOOSE i \in DOMAIN lines : lines[i][1] /\ \A j \in 1..i - 1 : ~lines[j][1]
    IN  [type |-> lines[first][2], event |-> lines[first][3]]

\* area_scope: documents of the area, their revisions and access requests, and
\* temporary uploads of people of the area.  The areas of the document the row
\* points at, and the area of its user, are those of when the feed is read.
InScope(r, area, areasOfDocument, areaOfUser) ==
    \/ /\ r.entity \in {"document", "revision", "document_access"}
       /\ r.id # NoKey
       /\ area \in areasOfDocument
    \/ /\ r.entity = "temp_upload"
       /\ r.user # NoKey
       /\ area = areaOfUser
================================================================================
