---------------------------- MODULE IngestionTrail -----------------------------
(***************************************************************************)
(* What follows the commit of a registration or a revision: its text is    *)
(* put in the search index (index_document: read the newest revision, save *)
(* the row of document_content, then compute search_vector from the row)   *)
(* and the events are appended to audit_log, from which the managers'      *)
(* feed is made.  None of it is in the transaction of the registration;    *)
(* every statement commits by itself, any of them can fail, and the worker *)
(* can die in between.  The command index_documents runs the same steps,   *)
(* without events, next to the requests.                                   *)
(*                                                                         *)
(* A text is named by the version it was read from, 0 for no text.         *)
(***************************************************************************)
EXTENDS ActivityFeed, Integers, Sequences, FiniteSets

CONSTANTS
    Documents, People, Workers,
    LastVersion,    \* bound on the versions of a document
    LastRow,        \* bound on the rows of audit_log
    AreasOfDocument,  \* the areas of each document
    AreaOfPerson

ASSUME TrailAssumption ==
    /\ LastVersion \in Nat \ {0}
    /\ LastRow \in Nat
    /\ NoKey \notin Documents \cup People

VARIABLES
    newest,     \* newest[d]: the highest committed version, 0 before d exists
    index,      \* index[d]: the row of document_content; revision 0: no row
    trail,      \* audit_log, in the order of its ids
    erased,     \* the accounts whose row was deleted
    flaws,      \* history: <<what, document>> of a failure, a death or a race
    step,       \* step[w]
    job         \* job[w]: what the worker is at

table == <<newest, index, erased>>
trailVars == <<newest, index, trail, erased, flaws, step, job>>

NewJob(d, u, v) == [document |-> d, actor |-> u, version |-> v, read |-> 0, text |-> 0,
                    outcome |-> NoKey]
NoJob == NewJob(NoKey, NoKey, 0)
Versions == 1..LastVersion
Jobs == [document : Documents, actor : People \cup {NoKey}, version : 0..LastVersion,
         read : 0..LastVersion, text : 0..LastVersion, outcome : {NoKey, "SUCCESS", "FAILURE"}]

TrailTypeOK ==
    /\ newest \in [Documents -> 0..LastVersion]
    /\ index \in [Documents -> [revision : 0..LastVersion, content : 0..LastVersion,
                                vector : -1..LastVersion]]
    /\ Len(trail) <= LastRow
    /\ \A i \in DOMAIN trail :
         trail[i].id \in Documents /\ trail[i].user \in (People \ erased) \cup {NoKey}
    /\ erased \subseteq People
    /\ step \in [Workers -> {"free", "committed", "read", "saved", "indexed", "told"}]
    /\ job \in [Workers -> Jobs \cup {NoJob}]
    /\ \A w \in Workers : step[w] = "free" <=> job[w] = NoJob

TrailInit ==
    /\ newest = [d \in Documents |-> 0]
    /\ index = [d \in Documents |-> [revision |-> 0, content |-> 0, vector |-> -1]]
    /\ trail = <<>>
    /\ erased = {}
    /\ flaws = {}
    /\ step = [w \in Workers |-> "free"]
    /\ job = [w \in Workers |-> NoJob]
--------------------------------------------------------------------------------
At(w, s) == step[w] = s
Doc(w) == job[w].document
\* The command index_documents has no version of its own and writes no events.
IsCommand(w) == job[w].version = 0
Goto(w, s) == step' = [step EXCEPT ![w] = s]

\* Faulty variant: the job is kept.
ReleaseKeepingJob(w) == Goto(w, "free") /\ UNCHANGED job

Release(w) ==
    /\ Goto(w, "free")
    /\ job' = [job EXCEPT ![w] = NoJob]

Flaw(what, w) == flaws' = flaws \cup {<<what, Doc(w)>>}

\* A run that is between its reading and its saving.
Reading(d) == {w \in Workers : At(w, "read") /\ Doc(w) = d}

\* The transaction of create_document or create_document_revision has
\* committed for the account u.  A revision that comes before the registration was
\* told is noted.
CommitVersion(w, d, u) ==
    /\ At(w, "free")
    /\ newest[d] < LastVersion
    /\ u \notin erased
    /\ newest' = [newest EXCEPT ![d] = @ + 1]
    /\ job' = [job EXCEPT ![w] = NewJob(d, u, newest[d] + 1)]
    /\ Goto(w, "committed")
    /\ flaws' = IF \E o \in Workers : Doc(o) = d /\ job[o].version = 1
                THEN flaws \cup {<<"revised_early", d>>} ELSE flaws
    /\ UNCHANGED <<index, trail, erased>>

\* index_documents takes up a document; with --missing-only, one without a row.
StartCommand(w, d) ==
    /\ At(w, "free")
    /\ newest[d] > 0
    /\ job' = [job EXCEPT ![w] = NewJob(d, NoKey, 0)]
    /\ Goto(w, "committed")
    /\ UNCHANGED <<table, trail, flaws>>

\* A job that has read version v, with text t.
AsRead(j, v, t) == [j EXCEPT !.read = v, !.text = t]

\* Faulty variant: the revision just created is indexed.
ReadOwnRevision(w) ==
    LET v == IF IsCommand(w) THEN newest[Doc(w)] ELSE job[w].version
    IN  /\ At(w, "committed")
        /\ job' = [job EXCEPT ![w] = AsRead(@, v, v)]
        /\ Goto(w, "read")
        /\ UNCHANGED <<table, trail, flaws>>

\* index_document: the newest revision and the text of its files.  A file that
\* cannot be read gives an empty text, and no failure.
ReadRevision(w) ==
    LET v == newest[Doc(w)]
    IN  /\ At(w, "committed")
        /\ \/ job' = [job EXCEPT ![w] = AsRead(@, v, v)] /\ UNCHANGED flaws
           \/ job' = [job EXCEPT ![w] = AsRead(@, v, 0)] /\ Flaw("unread", w)
        /\ Goto(w, "read")
        /\ UNCHANGED <<table, trail>>

\* update_or_create of the row; search_vector keeps its value (-1: NULL).
SaveContent(w) ==
    LET d == Doc(w)
    IN  /\ At(w, "read")
        /\ index' = [index EXCEPT ![d] = [@ EXCEPT !.revision = job[w].read, !.content = job[w].text]]
        /\ flaws' = IF Reading(d) # {w} THEN flaws \cup {<<"overlap", d>>} ELSE flaws
        /\ Goto(w, "saved")
        /\ UNCHANGED <<newest, trail, erased, job>>

\* Faulty variant: the vector is computed from the text at hand.
SaveOwnVector(w) ==
    /\ At(w, "saved")
    /\ index' = [index EXCEPT ![Doc(w)].vector = job[w].text]
    /\ job' = [job EXCEPT ![w].outcome = "SUCCESS"]
    /\ Goto(w, "indexed")
    /\ UNCHANGED <<newest, erased, trail, flaws>>

\* The second UPDATE: search_vector from what the row holds now.
SaveVector(w) ==
    /\ At(w, "saved")
    /\ index' = [index EXCEPT ![Doc(w)].vector = index[Doc(w)].content]
    /\ job' = [job EXCEPT ![w].outcome = "SUCCESS"]
    /\ Goto(w, "indexed")
    /\ UNCHANGED <<newest, erased, trail, flaws>>

\* Faulty variant: the exception ends the request.
FailAndStop(w) ==
    /\ step[w] \in {"committed", "read", "saved"}
    /\ Release(w)
    /\ Flaw("index", w)
    /\ UNCHANGED <<table, trail>>

\* An exception in one of the three: index_document_safely and the command go on.
FailIndexing(w) ==
    /\ step[w] \in {"committed", "read", "saved"}
    /\ job' = [job EXCEPT ![w].outcome = "FAILURE"]
    /\ Goto(w, "indexed")
    /\ Flaw("index", w)
    /\ UNCHANGED <<table, trail>>

EndCommand(w) ==
    /\ At(w, "indexed")
    /\ IsCommand(w)
    /\ Release(w)
    /\ UNCHANGED <<table, trail, flaws>>
--------------------------------------------------------------------------------
\* audit_log.

\* An INSERT for the actor of the job; the foreign key refuses an account that was
\* deleted meanwhile, and the write has failed.
Log(w, row) ==
    /\ job[w].actor \notin erased
    /\ Len(trail) < LastRow
    /\ trail' = Append(trail, row)

\* record_document_indexed: the version is the one that was read, none after a
\* failure.  Its own failure is swallowed.
TellIndexing(w) ==
    LET j == job[w]
        version == IF j.outcome = "SUCCESS" THEN j.read ELSE 0
    IN  /\ At(w, "indexed")
        /\ ~IsCommand(w)
        /\ Log(w, Indexed(j.document, j.actor, j.outcome, version))
        /\ Goto(w, "told")
        /\ UNCHANGED <<table, flaws, job>>

\* log_document_submitted looks the newest revision up; the row of a revision
\* is written from the revision itself.
SubmissionRow(j) ==
    IF j.version = 1 THEN Submitted(j.document, j.actor, newest[j.document])
    ELSE RevisionCreated(j.document, j.actor, j.version)

TellSubmission(w) ==
    /\ At(w, "told")
    /\ Log(w, SubmissionRow(job[w]))
    /\ Release(w)
    /\ UNCHANGED <<table, flaws>>

\* A write of audit_log that fails is logged and forgotten (never_raises).
FailToTell(w) ==
    /\ \/ At(w, "indexed") /\ ~IsCommand(w) /\ Goto(w, "told") /\ UNCHANGED <<job, flaws>>
       \/ At(w, "told") /\ Release(w) /\ Flaw("submission", w)
    /\ UNCHANGED <<table, trail>>

\* The worker dies after the commit: nothing of what was left is done.
Die(w) ==
    /\ step[w] # "free"
    /\ Release(w)
    /\ flaws' = flaws \cup {<<what, Doc(w)>> : what \in
          (IF At(w, "indexed") \/ At(w, "told") THEN {} ELSE {"index"})
          \cup (IF IsCommand(w) THEN {} ELSE {"submission"})}
    /\ UNCHANGED <<table, trail>>

\* The trigger audit_log_append_only: the one change allowed.
MayChange(old, new) ==
    /\ old.user # NoKey
    /\ new.user = NoKey
    /\ new = [old EXCEPT !.user = NoKey]

\* Faulty variant: ON DELETE CASCADE, and a trigger that allows it.
CascadeErasure(u) == trail' = SelectSeq(trail, LAMBDA row : row.user # u)

\* ON DELETE SET NULL of audit_log.user_id, if the trigger lets every row pass.
ClearUser(u) ==
    LET cleared(row) == IF row.user = u THEN [row EXCEPT !.user = NoKey] ELSE row
    IN  /\ \A i \in DOMAIN trail :
             cleared(trail[i]) # trail[i] => MayChange(trail[i], cleared(trail[i]))
        /\ trail' = [i \in DOMAIN trail |-> cleared(trail[i])]

\* delete_user: the account goes, its events stay.
EraseAccount(u) ==
    /\ u \notin erased
    /\ erased' = erased \cup {u}
    /\ ClearUser(u)
    /\ UNCHANGED <<newest, index, flaws, step, job>>
--------------------------------------------------------------------------------
TrailNext ==
    \/ \E w \in Workers :
         \/ \E d \in Documents : StartCommand(w, d) \/ \E u \in People : CommitVersion(w, d, u)
         \/ ReadRevision(w) \/ SaveContent(w) \/ SaveVector(w)
         \/ FailIndexing(w) \/ EndCommand(w)
         \/ TellIndexing(w) \/ TellSubmission(w) \/ FailToTell(w) \/ Die(w)
    \/ \E u \in People : EraseAccount(u)

TrailSpec == TrailInit /\ [][TrailNext]_trailVars
--------------------------------------------------------------------------------
Quiet(d) == \A w \in Workers : Doc(w) # d
Flawed(d, what) == <<what, d>> \in flaws

\* The feed of a manager of the area.
Feed(area) ==
    {i \in DOMAIN trail :
        /\ InScope(trail[i], area, AreasOfDocument[trail[i].id], AreaOfPerson[trail[i].user])
        /\ TypesOf(trail[i]) # {}}

\* README, "Search": the index "is refreshed whenever a document or a new
\* revision is created".  When nothing runs, it holds the newest revision,
\* unless a run failed or two runs of the document overlapped: the one that read
\* the older revision may then have saved last.
IndexKeepsUp ==
    \A d \in Documents :
        Quiet(d) /\ newest[d] > 0 /\ ~Flawed(d, "index") /\ ~Flawed(d, "overlap") =>
            /\ index[d].revision = newest[d]
            /\ Flawed(d, "unread") \/ index[d].content = newest[d]

\* The vector of d is of the text of its row, when no run is between its two
\* statements and none stopped there.
VectorFits(d) ==
    /\ \A w \in Workers : Doc(w) = d => ~At(w, "saved")
    /\ ~Flawed(d, "index")
    => index[d].vector = (IF index[d].revision = 0 THEN -1 ELSE index[d].content)

\* What is found is what is shown: however runs overlap, search_vector is of the
\* text of the row once no run is between its two statements; only a run that
\* stopped there leaves the vector of another text.
VectorIsOfContent == \A d \in Documents : VectorFits(d)

\* Every version that was committed is an event of the feed of each area of its
\* document, whoever was erased since, unless its row could not be written.  A
\* registration is told with its own version unless it was revised before.
SubmissionsAreShown ==
    \A d \in Documents : Quiet(d) /\ ~Flawed(d, "submission") =>
        \A v \in 1..newest[d], area \in AreasOfDocument[d] :
            \E i \in Feed(area) :
                /\ trail[i].id = d
                /\ Describe(trail[i]).event =
                     IF v = 1 THEN "DOCUMENT_REGISTERED" ELSE "REVISION_SUBMITTED"
                /\ trail[i].version = v \/ (v = 1 /\ Flawed(d, "revised_early"))

\* What the steps keep true for the properties above to last.

\* A row of the trail is one of the three kinds that follow a commit, of a
\* person whose account is there, or of nobody.
TrailRows(users) ==
    {Indexed(d, u, s, v) :
        d \in Documents, u \in users, s \in {"SUCCESS", "FAILURE"}, v \in 0..LastVersion}
    \cup {Submitted(d, u, v) : d \in Documents, u \in users, v \in Versions}
    \cup {RevisionCreated(d, u, v) : d \in Documents, u \in users, v \in Versions}

RowsAreOfTheTrail == trail \in Seq(TrailRows((People \ erased) \cup {NoKey}))

\* What a worker has noted is of its document, and of what it has done so far.
JobInStep(w) ==
    LET j == job[w]
    IN  /\ newest[j.document] > 0
        /\ j.version <= newest[j.document]
        /\ j.version = 1 => newest[j.document] = 1 \/ Flawed(j.document, "revised_early")
        /\ At(w, "read") =>
             /\ j.read > 0
             /\ j.text = j.read \/ (j.text = 0 /\ Flawed(j.document, "unread"))
        /\ At(w, "saved") => index[j.document].revision > 0
        /\ At(w, "indexed") => j.outcome # NoKey
        /\ At(w, "told") => j.version > 0

JobsAreInStep == \A w \in Workers : step[w] # "free" => JobInStep(w)

\* A document whose row is behind has a run that is going to catch up, unless
\* something went wrong.
CatchesUp(d) ==
    newest[d] > 0 /\ ~Flawed(d, "index") /\ ~Flawed(d, "overlap") =>
        \/ \E w \in Workers : Doc(w) = d /\ At(w, "committed")
        \/ \E w \in Reading(d) : job[w].read = newest[d]
        \/ /\ Reading(d) = {}
           /\ index[d].revision = newest[d]
           /\ Flawed(d, "unread") \/ index[d].content = newest[d]

IndexCatchesUp == \A d \in Documents : CatchesUp(d)

\* Row i tells the commit of version v of d.
Tells(i, d, v) ==
    /\ trail[i].id = d
    /\ trail[i].action = IF v = 1 THEN "DOC_SUBMIT_SUCCESS" ELSE "DOC_REVISION_CREATED"
    /\ trail[i].version = v \/ (v = 1 /\ Flawed(d, "revised_early"))

\* Each committed version is told, or is what some worker has still to tell.
SubmissionsAreTold ==
    \A d \in Documents : ~Flawed(d, "submission") =>
        \A v \in 1..newest[d] :
            \/ \E w \in Workers : Doc(w) = d /\ job[w].version = v
            \/ \E i \in DOMAIN trail : Tells(i, d, v)

\* The invariant that carries the others from step to step.
TrailInv ==
    /\ TrailTypeOK /\ RowsAreOfTheTrail /\ JobsAreInStep
    /\ IndexCatchesUp /\ VectorIsOfContent /\ SubmissionsAreTold

\* Nothing of an event is ever lost or rewritten but the account it refers to.
EventsAreKept ==
    [][/\ Len(trail') >= Len(trail)
       /\ \A i \in DOMAIN trail : trail'[i] \in {trail[i], [trail[i] EXCEPT !.user = NoKey]}]_trailVars
================================================================================
