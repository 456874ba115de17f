------------------------- MODULE IngestionTrailProofs --------------------------
(***************************************************************************)
(* The invariant of the indexing and of the trail, and what follows from   *)
(* it for every number of workers, documents and versions: the index keeps *)
(* up, its vector is of its text, every submission is shown in the feed,   *)
(* and no event is rewritten.                                              *)
(***************************************************************************)
EXTENDS IngestionTrail, TLAPS

\* A worker that is at something has a document, and one that is not has none.
LEMMA JobFacts ==
    ASSUME TrailTypeOK, NEW w \in Workers
    PROVE  /\ step[w] # "free" => job[w] \in Jobs /\ Doc(w) \in Documents
           /\ step[w] = "free" => job[w] = NoJob /\ Doc(w) \notin Documents
           /\ job[w].version \in 0..LastVersion
BY TrailAssumption DEF TrailTypeOK, NoJob, NewJob, Jobs, Doc

\* One worker goes on, and the others stay where they were.
OnlyMoves(w) ==
    /\ step' \in [Workers -> {"free", "committed", "read", "saved", "indexed", "told"}]
    /\ job' \in [Workers -> Jobs \cup {NoJob}]
    /\ step'[w] = "free" <=> job'[w] = NoJob
    /\ \A o \in Workers \ {w} : step'[o] = step[o] /\ job'[o] = job[o]

LEMMA ReleaseMoves ==
    ASSUME TrailTypeOK, NEW w \in Workers, Release(w)
    PROVE  OnlyMoves(w) /\ step'[w] = "free" /\ job'[w] = NoJob
BY DEF Release, Goto, TrailTypeOK, OnlyMoves

\* The steps of one worker.
WorkerStep(w) ==
    \/ \E d \in Documents : StartCommand(w, d) \/ \E u \in People : CommitVersion(w, d, u)
    \/ ReadRevision(w) \/ SaveContent(w) \/ SaveVector(w)
    \/ FailIndexing(w) \/ EndCommand(w)
    \/ TellIndexing(w) \/ TellSubmission(w) \/ FailToTell(w) \/ Die(w)

LEMMA NewJobs ==
    ASSUME NEW d \in Documents, NEW u \in People \cup {NoKey}, NEW v \in 0..LastVersion
    PROVE  /\ NewJob(d, u, v) \in Jobs /\ NewJob(d, u, v) # NoJob
           /\ NewJob(d, u, v).document = d /\ NewJob(d, u, v).version = v
BY TrailAssumption DEF NewJob, NoJob, Jobs

\* What a worker does to its own place.
LEMMA Moves ==
    ASSUME TrailTypeOK, NEW w \in Workers, NEW j \in Jobs,
           NEW s \in {"committed", "read", "saved", "indexed", "told"},
           Goto(w, s), job' = [job EXCEPT ![w] = j]
    PROVE  OnlyMoves(w) /\ step'[w] = s /\ job'[w] = j
<1>1. /\ step \in [Workers -> {"free", "committed", "read", "saved", "indexed", "told"}]
      /\ job \in [Workers -> Jobs \cup {NoJob}]
  BY DEF TrailTypeOK
<1>2. j # NoJob
  BY TrailAssumption DEF NoJob, NewJob, Jobs
<1>3. QED
  BY <1>1, <1>2 DEF OnlyMoves, Goto

LEMMA CommandMoves ==
    ASSUME TrailTypeOK, NEW w \in Workers, NEW d \in Documents, StartCommand(w, d)
    PROVE  /\ OnlyMoves(w) /\ step[w] = "free" /\ step'[w] = "committed"
           /\ job'[w] \in Jobs /\ job'[w].document = d /\ job'[w].version = 0
<1> DEFINE j == NewJob(d, NoKey, 0)
<1>1. step[w] = "free" /\ Goto(w, "committed") /\ job' = [job EXCEPT ![w] = j]
  BY DEF StartCommand, At
<1>2. 0 \in 0..LastVersion
  BY TrailAssumption, FeedAssumption
<1>3. j \in Jobs /\ j.document = d /\ j.version = 0
  BY <1>2, NewJobs
<1> HIDE DEF j
<1>4. QED
  BY <1>1, <1>3, Moves

LEMMA CommitMoves ==
    ASSUME TrailTypeOK, NEW w \in Workers, NEW d \in Documents, NEW u \in People,
           CommitVersion(w, d, u)
    PROVE  /\ OnlyMoves(w) /\ step[w] = "free" /\ step'[w] = "committed"
           /\ job'[w] \in Jobs /\ job'[w].document = d
           /\ job'[w].version = newest[d] + 1
<1> DEFINE j == NewJob(d, u, newest[d] + 1)
<1>1. /\ step[w] = "free" /\ Goto(w, "committed") /\ job' = [job EXCEPT ![w] = j]
      /\ newest[d] < LastVersion
  BY DEF CommitVersion, At
<1>2. newest[d] \in 0..LastVersion
  BY DEF TrailTypeOK
<1>3. newest[d] + 1 \in 0..LastVersion
  BY <1>1, <1>2, TrailAssumption
<1>4. j \in Jobs /\ j.document = d /\ j.version = newest[d] + 1
  BY <1>3, NewJobs
<1> HIDE DEF j
<1>5. QED
  BY <1>1, <1>4, Moves

\* The document, the actor and the version of a job never change.
SameJob(w) ==
    /\ job'[w] \in Jobs
    /\ job'[w].document = job[w].document /\ job'[w].actor = job[w].actor
    /\ job'[w].version = job[w].version

LEMMA ReadJobs ==
    ASSUME NEW j \in Jobs, NEW v \in 0..LastVersion, NEW t \in 0..LastVersion
    PROVE  LET x == AsRead(j, v, t)
           IN  /\ x \in Jobs /\ x.read = v /\ x.text = t
               /\ x.document = j.document /\ x.actor = j.actor /\ x.version = j.version
BY DEF AsRead, Jobs

LEMMA IndexMoves ==
    ASSUME TrailTypeOK, NEW w \in Workers,
           ReadRevision(w) \/ SaveContent(w) \/ SaveVector(w) \/ FailIndexing(w)
    PROVE  OnlyMoves(w) /\ job[w] \in Jobs /\ SameJob(w) /\ step'[w] # "free"
<1>1. job[w] \in Jobs
  BY JobFacts DEF ReadRevision, SaveContent, SaveVector, FailIndexing, At
<1>2. ASSUME NEW j \in Jobs, NEW s \in {"read", "saved", "indexed"},
             job' = [job EXCEPT ![w] = j], Goto(w, s),
             j.document = job[w].document, j.actor = job[w].actor,
             j.version = job[w].version
      PROVE  OnlyMoves(w) /\ SameJob(w) /\ step'[w] # "free"
  BY <1>2, Moves DEF SameJob
<1>3. CASE ReadRevision(w)
  <2>1. newest[Doc(w)] \in 0..LastVersion /\ 0 \in 0..LastVersion
    BY <1>1, TrailAssumption DEF TrailTypeOK, Jobs, Doc
  <2>2. PICK v \in 0..LastVersion, t \in 0..LastVersion :
          job' = [job EXCEPT ![w] = AsRead(job[w], v, t)] /\ Goto(w, "read")
    BY <1>3, <2>1 DEF ReadRevision
  <2>3. PICK j : j = AsRead(job[w], v, t)
    OBVIOUS
  <2>4. /\ j \in Jobs /\ j.document = job[w].document /\ j.actor = job[w].actor
        /\ j.version = job[w].version
    BY <1>1, <2>3, ReadJobs
  <2>5. QED
    BY <1>1, <1>2, <2>2, <2>3, <2>4
<1>4. CASE SaveContent(w)
  <2>1. job' = [job EXCEPT ![w] = job[w]] /\ Goto(w, "saved")
    BY <1>4 DEF SaveContent, TrailTypeOK
  <2>2. QED
    BY <1>1, <1>2, <2>1
<1>5. CASE SaveVector(w) \/ FailIndexing(w)
  <2>1. PICK o \in {"SUCCESS", "FAILURE"} :
          job' = [job EXCEPT ![w] = [job[w] EXCEPT !.outcome = o]] /\ Goto(w, "indexed")
    BY <1>5 DEF SaveVector, FailIndexing
  <2>2. [job[w] EXCEPT !.outcome = o] \in Jobs
    BY <1>1 DEF Jobs
  <2>3. QED
    BY <1>1, <1>2, <2>1, <2>2 DEF Jobs
<1>6. QED
  BY <1>3, <1>4, <1>5

LEMMA TellMoves ==
    ASSUME TrailTypeOK, NEW w \in Workers,
           TellIndexing(w) \/ TellSubmission(w) \/ FailToTell(w) \/ EndCommand(w) \/ Die(w)
    PROVE  /\ OnlyMoves(w) /\ job[w] \in Jobs
           /\ \/ step'[w] = "free" /\ job'[w] = NoJob
              \/ step[w] = "indexed" /\ step'[w] = "told" /\ job'[w] = job[w] /\ ~IsCommand(w)
<1>1. job[w] \in Jobs
  BY JobFacts DEF TellIndexing, TellSubmission, FailToTell, EndCommand, Die, At
<1>2. CASE EndCommand(w) \/ Die(w) \/ TellSubmission(w)
  BY <1>1, <1>2, ReleaseMoves DEF EndCommand, Die, TellSubmission
<1>3. ASSUME step[w] = "indexed", Goto(w, "told"), UNCHANGED job
      PROVE  OnlyMoves(w) /\ step'[w] = "told" /\ job'[w] = job[w]
  BY <1>3 DEF Goto, TrailTypeOK, OnlyMoves
<1>4. CASE TellIndexing(w)
  BY <1>1, <1>3, <1>4 DEF TellIndexing, At
<1>5. CASE FailToTell(w)
  BY <1>1, <1>3, <1>5, ReleaseMoves DEF FailToTell, At
<1>6. QED
  BY <1>2, <1>4, <1>5

\* The rows of a trail, field by field.
TrailRow(action, d, u, event, status, version) ==
    [action |-> action, entity |-> "document", id |-> d, user |-> u, event |-> event,
     status |-> status, extraction |-> NoKey, version |-> version]

LEMMA SubmittedRow == \A d, u, v :
    Submitted(d, u, v) = TrailRow("DOC_SUBMIT_SUCCESS", d, u, NoKey, NoKey, v)
BY DEF Submitted, Plain, TrailRow

LEMMA CreatedRow == \A d, u, v :
    RevisionCreated(d, u, v) = TrailRow("DOC_REVISION_CREATED", d, u, NoKey, NoKey, v)
BY DEF RevisionCreated, Plain, TrailRow

LEMMA IndexedRow ==
    ASSUME NEW d, NEW u, NEW s, NEW v
    PROVE  Indexed(d, u, s, v) = TrailRow("UPDATE", d, u, "CONTENT_INDEXED", s, v)
<1>1. [Plain("UPDATE", "document", d, u) EXCEPT !.event = "CONTENT_INDEXED"]
        = TrailRow("UPDATE", d, u, "CONTENT_INDEXED", NoKey, 0)
  BY DEF Plain, TrailRow
<1>2. [TrailRow("UPDATE", d, u, "CONTENT_INDEXED", NoKey, 0) EXCEPT !.status = s]
        = TrailRow("UPDATE", d, u, "CONTENT_INDEXED", s, 0)
  BY DEF TrailRow
<1>3. [TrailRow("UPDATE", d, u, "CONTENT_INDEXED", s, 0) EXCEPT !.version = v]
        = TrailRow("UPDATE", d, u, "CONTENT_INDEXED", s, v)
  BY DEF TrailRow
<1>4. QED
  BY <1>1, <1>2, <1>3, Zenon DEF Indexed

LEMMA ClearedRow ==
    \A action, d, u, x, event, status, version :
        [TrailRow(action, d, u, event, status, version) EXCEPT !.user = x]
            = TrailRow(action, d, x, event, status, version)
BY DEF TrailRow

\* What a row says of its document and of its user.
LEMMA RowFacts ==
    ASSUME NEW users, NEW r \in TrailRows(users)
    PROVE  /\ r.id \in Documents /\ r.user \in users /\ r.entity = "document"
           /\ r.version \in 0..LastVersion
           /\ \A more : r.user \in more => r \in TrailRows(more)
           /\ \A more : \A x \in more : [r EXCEPT !.user = x] \in TrailRows(more)
<1>1. CASE \E d \in Documents, u \in users, s \in {"SUCCESS", "FAILURE"}, v \in 0..LastVersion :
             r = Indexed(d, u, s, v)
  <2>1. PICK d \in Documents, u \in users, s \in {"SUCCESS", "FAILURE"}, v \in 0..LastVersion :
          r = Indexed(d, u, s, v)
    BY <1>1
  <2>2. /\ r = TrailRow("UPDATE", d, u, "CONTENT_INDEXED", s, v)
        /\ r.id = d /\ r.user = u /\ r.entity = "document" /\ r.version = v
    BY <2>1, IndexedRow DEF TrailRow
  <2>3. \A more : \A x \in more : Indexed(d, x, s, v) \in TrailRows(more)
    BY DEF TrailRows
  <2>4. \A x : [r EXCEPT !.user = x] = Indexed(d, x, s, v)
    BY <2>2, IndexedRow, ClearedRow
  <2>5. ASSUME NEW more, r.user \in more
        PROVE  r \in TrailRows(more)
    BY <2>1, <2>2, <2>3, <2>5
  <2>6. ASSUME NEW more, NEW x \in more
        PROVE  [r EXCEPT !.user = x] \in TrailRows(more)
    BY <2>3, <2>4
  <2>7. r.version \in 0..LastVersion
    BY <2>2, TrailAssumption DEF Versions
  <2>8. QED
    BY <2>1, <2>2, <2>5, <2>6, <2>7, Zenon
<1>2. CASE \E d \in Documents, u \in users, v \in Versions : r = Submitted(d, u, v)
  <2>1. PICK d \in Documents, u \in users, v \in Versions : r = Submitted(d, u, v)
    BY <1>2
  <2>2. /\ r = TrailRow("DOC_SUBMIT_SUCCESS", d, u, NoKey, NoKey, v)
        /\ r.id = d /\ r.user = u /\ r.entity = "document" /\ r.version = v
    BY <2>1, SubmittedRow DEF TrailRow
  <2>3. \A more : \A x \in more : Submitted(d, x, v) \in TrailRows(more)
    BY DEF TrailRows
  <2>4. \A x : [r EXCEPT !.user = x] = Submitted(d, x, v)
    BY <2>2, SubmittedRow, ClearedRow
  <2>5. ASSUME NEW more, r.user \in more
        PROVE  r \in TrailRows(more)
    BY <2>1, <2>2, <2>3, <2>5
  <2>6. ASSUME NEW more, NEW x \in more
        PROVE  [r EXCEPT !.user = x] \in TrailRows(more)
    BY <2>3, <2>4
  <2>7. r.version \in 0..LastVersion
    BY <2>2, TrailAssumption DEF Versions
  <2>8. QED
    BY <2>1, <2>2, <2>5, <2>6, <2>7, Zenon
<1>3. CASE \E d \in Documents, u \in users, v \in Versions : r = RevisionCreated(d, u, v)
  <2>1. PICK d \in Documents, u \in users, v \in Versions : r = RevisionCreated(d, u, v)
    BY <1>3
  <2>2. /\ r = TrailRow("DOC_REVISION_CREATED", d, u, NoKey, NoKey, v)
        /\ r.id = d /\ r.user = u /\ r.entity = "document" /\ r.version = v
    BY <2>1, CreatedRow DEF TrailRow
  <2>3. \A more : \A x \in more : RevisionCreated(d, x, v) \in TrailRows(more)
    BY DEF TrailRows
  <2>4. \A x : [r EXCEPT !.user = x] = RevisionCreated(d, x, v)
    BY <2>2, CreatedRow, ClearedRow
  <2>5. ASSUME NEW more, r.user \in more
        PROVE  r \in TrailRows(more)
    BY <2>1, <2>2, <2>3, <2>5
  <2>6. ASSUME NEW more, NEW x \in more
        PROVE  [r EXCEPT !.user = x] \in TrailRows(more)
    BY <2>3, <2>4
  <2>7. r.version \in 0..LastVersion
    BY <2>2, TrailAssumption DEF Versions
  <2>8. QED
    BY <2>1, <2>2, <2>5, <2>6, <2>7, Zenon
<1>4. QED
  BY <1>1, <1>2, <1>3 DEF TrailRows

\* Who a row may refer to.
Actors == (People \ erased) \cup {NoKey}

LEMMA RowsAreTyped ==
    ASSUME RowsAreOfTheTrail
    PROVE  \A i \in DOMAIN trail : trail[i].id \in Documents /\ trail[i].user \in Actors
<1>1. \A i \in DOMAIN trail : trail[i] \in TrailRows(Actors)
  BY DEF RowsAreOfTheTrail, Actors
<1>2. QED
  BY <1>1, RowFacts

\* The erasure of an account clears it from the rows, and nothing else.
LEMMA ErasedRows ==
    ASSUME RowsAreOfTheTrail, NEW u \in People, EraseAccount(u)
    PROVE  /\ RowsAreOfTheTrail' /\ Len(trail') = Len(trail) /\ DOMAIN trail' = DOMAIN trail
           /\ \A i \in DOMAIN trail :
                trail'[i] = IF trail[i].user = u THEN [trail[i] EXCEPT !.user = NoKey]
                            ELSE trail[i]
<1>1. \A i \in DOMAIN trail :
        trail'[i] = IF trail[i].user = u THEN [trail[i] EXCEPT !.user = NoKey] ELSE trail[i]
  BY DEF EraseAccount, ClearUser
<1>2. DOMAIN trail = 1..Len(trail) /\ Len(trail) \in Nat
  BY DEF RowsAreOfTheTrail
<1>3. trail' = [i \in 1..Len(trail) |-> trail'[i]]
  BY <1>2 DEF EraseAccount, ClearUser
<1>4. ASSUME NEW i \in DOMAIN trail
      PROVE  trail'[i] \in TrailRows(Actors')
  <2>1. trail[i] \in TrailRows(Actors)
    BY DEF RowsAreOfTheTrail, Actors
  <2>2. NoKey \in Actors' /\ Actors' = Actors \ {u}
    BY TrailAssumption DEF Actors, EraseAccount
  <2>3. CASE trail[i].user = u
    <3>1. [trail[i] EXCEPT !.user = NoKey] \in TrailRows(Actors')
      BY <2>1, <2>2, RowFacts
    <3>2. QED
      BY <1>1, <2>3, <3>1
  <2>4. CASE trail[i].user # u
    <3>1. trail[i].user \in Actors'
      BY <2>1, <2>2, <2>4, RowFacts
    <3>2. QED
      BY <1>1, <2>1, <2>4, <3>1, RowFacts
  <2>5. QED
    BY <2>3, <2>4
<1>5. trail' \in Seq(TrailRows(Actors'))
  BY <1>2, <1>3, <1>4
<1>6. Len(trail') = Len(trail) /\ DOMAIN trail' = DOMAIN trail
  BY <1>2, <1>3
<1>7. QED
  BY <1>1, <1>5, <1>6 DEF RowsAreOfTheTrail, Actors

\* A row that is written comes last, and the others stay.
LEMMA LoggedRow ==
    ASSUME RowsAreOfTheTrail, NEW w \in Workers, NEW row \in TrailRows(Actors),
           Log(w, row), erased' = erased
    PROVE  /\ RowsAreOfTheTrail' /\ Len(trail') = Len(trail) + 1 /\ Len(trail') <= LastRow
           /\ DOMAIN trail = 1..Len(trail) /\ DOMAIN trail' = 1..Len(trail) + 1
           /\ trail'[Len(trail) + 1] = row
           /\ \A i \in DOMAIN trail : trail'[i] = trail[i]
<1>1. trail \in Seq(TrailRows(Actors)) /\ trail' = Append(trail, row) /\ Len(trail) < LastRow
  BY DEF RowsAreOfTheTrail, Actors, Log
<1>2. trail' \in Seq(TrailRows(Actors)) /\ Actors' = Actors
  BY <1>1 DEF Actors
<1>3. Len(trail) \in Nat /\ LastRow \in Nat
  BY <1>1, TrailAssumption
<1>4. QED
  BY <1>1, <1>2, <1>3 DEF RowsAreOfTheTrail, Actors

\* The types of the tables are kept by a step that keeps those of the workers.
TablesTyped ==
    /\ newest \in [Documents -> 0..LastVersion]
    /\ index \in [Documents -> [revision : 0..LastVersion, content : 0..LastVersion,
                                vector : -1..LastVersion]]
    /\ Len(trail) <= LastRow
    /\ erased \subseteq People

LEMMA MovedType ==
    ASSUME TrailTypeOK, NEW w \in Workers, OnlyMoves(w), TablesTyped', RowsAreOfTheTrail'
    PROVE  TrailTypeOK'
<1>1. \A i \in DOMAIN trail' :
        trail'[i].id \in Documents /\ trail'[i].user \in ((People \ erased) \cup {NoKey})'
  <2>1. \A i \in DOMAIN trail' : trail'[i] \in TrailRows((People \ erased') \cup {NoKey})
    BY DEF RowsAreOfTheTrail
  <2>2. QED
    BY <2>1, RowFacts
<1>2. \A o \in Workers : step'[o] = "free" <=> job'[o] = NoJob
  BY DEF TrailTypeOK, OnlyMoves
<1>3. QED
  BY <1>1, <1>2 DEF TrailTypeOK, TablesTyped, OnlyMoves

LEMMA KeptTables ==
    ASSUME TrailTypeOK, RowsAreOfTheTrail, UNCHANGED <<table, trail>>
    PROVE  TablesTyped' /\ RowsAreOfTheTrail'
BY DEF TrailTypeOK, RowsAreOfTheTrail, TablesTyped, table

\* The rows that are told are rows of the trail.
LEMMA IndexingIsTold ==
    ASSUME TrailTypeOK, RowsAreOfTheTrail, JobsAreInStep, NEW w \in Workers, TellIndexing(w)
    PROVE  \E s \in {"SUCCESS", "FAILURE"}, v \in 0..LastVersion :
             /\ Log(w, Indexed(Doc(w), job[w].actor, s, v))
             /\ Indexed(Doc(w), job[w].actor, s, v) \in TrailRows(Actors)
<1> DEFINE v == IF job[w].outcome = "SUCCESS" THEN job[w].read ELSE 0
<1>1. /\ Log(w, Indexed(Doc(w), job[w].actor, job[w].outcome, v))
      /\ step[w] = "indexed"
  BY DEF TellIndexing, Doc, At
<1>2. job[w] \in Jobs /\ Doc(w) \in Documents
  BY <1>1, JobFacts
<1>3. job[w].outcome # NoKey
  BY <1>1 DEF JobsAreInStep, JobInStep, At
<1>4. job[w].outcome \in {"SUCCESS", "FAILURE"} /\ v \in 0..LastVersion
  BY <1>2, <1>3, TrailAssumption DEF Jobs
<1>5. job[w].actor \in Actors
  BY <1>1, <1>2 DEF Jobs, Log, Actors
<1>6. Indexed(Doc(w), job[w].actor, job[w].outcome, v) \in TrailRows(Actors)
  BY <1>2, <1>4, <1>5 DEF TrailRows
<1> HIDE DEF v
<1>7. QED
  BY <1>1, <1>4, <1>6

LEMMA SubmissionIsTold ==
    ASSUME TrailTypeOK, RowsAreOfTheTrail, JobsAreInStep, NEW w \in Workers, TellSubmission(w)
    PROVE  /\ Log(w, SubmissionRow(job[w])) /\ SubmissionRow(job[w]) \in TrailRows(Actors)
           /\ job[w].version \in Versions /\ Doc(w) \in Documents
<1>1. Log(w, SubmissionRow(job[w])) /\ step[w] = "told"
  BY DEF TellSubmission, At
<1>2. job[w] \in Jobs /\ Doc(w) \in Documents
  BY <1>1, JobFacts
<1>3. job[w].version > 0 /\ newest[Doc(w)] > 0
  BY <1>1 DEF JobsAreInStep, JobInStep, At, Doc
<1>4. job[w].version \in Versions /\ newest[Doc(w)] \in Versions
  <2>1. newest[Doc(w)] \in 0..LastVersion /\ job[w].version \in 0..LastVersion
    BY <1>2 DEF TrailTypeOK, Jobs
  <2>2. QED
    BY <1>3, <2>1, TrailAssumption DEF Versions
<1>5. job[w].actor \in Actors
  BY <1>1, <1>2 DEF Jobs, Log, Actors
<1>6. SubmissionRow(job[w]) \in TrailRows(Actors)
  BY <1>2, <1>4, <1>5 DEF TrailRows, SubmissionRow, Doc
<1>7. QED
  BY <1>1, <1>2, <1>4, <1>6

LEMMA WorkerType ==
    ASSUME TrailTypeOK, RowsAreOfTheTrail, JobsAreInStep, NEW w \in Workers, WorkerStep(w)
    PROVE  TrailTypeOK' /\ RowsAreOfTheTrail' /\ OnlyMoves(w)
<1>1. ASSUME NEW d \in Documents, StartCommand(w, d)
      PROVE  TrailTypeOK' /\ RowsAreOfTheTrail' /\ OnlyMoves(w)
  BY <1>1, CommandMoves, KeptTables, MovedType DEF StartCommand
<1>2. ASSUME NEW d \in Documents, NEW u \in People, CommitVersion(w, d, u)
      PROVE  TrailTypeOK' /\ RowsAreOfTheTrail' /\ OnlyMoves(w)
  <2>1. newest[d] < LastVersion /\ newest' = [newest EXCEPT ![d] = @ + 1]
        /\ UNCHANGED <<index, trail, erased>>
    BY <1>2 DEF CommitVersion
  <2>2. newest \in [Documents -> 0..LastVersion]
    BY DEF TrailTypeOK
  <2>3. newest' \in [Documents -> 0..LastVersion]
    BY <2>1, <2>2, TrailAssumption
  <2>4. TablesTyped' /\ RowsAreOfTheTrail'
    BY <2>1, <2>3 DEF TablesTyped, TrailTypeOK, RowsAreOfTheTrail
  <2>5. QED
    BY <1>2, <2>4, CommitMoves, MovedType
<1>3. CASE ReadRevision(w) \/ FailIndexing(w)
  BY <1>3, IndexMoves, KeptTables, MovedType DEF ReadRevision, FailIndexing
<1>4. CASE SaveContent(w) \/ SaveVector(w)
  <2> DEFINE Cell == [revision : 0..LastVersion, content : 0..LastVersion,
                      vector : -1..LastVersion]
  <2>1. OnlyMoves(w) /\ job[w] \in Jobs /\ Doc(w) \in Documents
    BY <1>4, IndexMoves DEF Jobs, Doc
  <2>2. index \in [Documents -> Cell] /\ index[Doc(w)] \in Cell
    BY <2>1 DEF TrailTypeOK
  <2>3. ASSUME SaveContent(w)
        PROVE  index' \in [Documents -> Cell]
    <3>1. [index[Doc(w)] EXCEPT !.revision = job[w].read, !.content = job[w].text] \in Cell
      BY <2>1, <2>2 DEF Jobs
    <3>2. index' = [index EXCEPT ![Doc(w)] =
             [index[Doc(w)] EXCEPT !.revision = job[w].read, !.content = job[w].text]]
      BY <2>3 DEF SaveContent
    <3> HIDE DEF Cell
    <3>3. QED
      BY <2>2, <3>1, <3>2
  <2>4. ASSUME SaveVector(w)
        PROVE  index' \in [Documents -> Cell]
    <3>1. [index[Doc(w)] EXCEPT !.vector = index[Doc(w)].content] \in Cell
      BY <2>2, TrailAssumption
    <3>2. index' = [index EXCEPT ![Doc(w)] =
             [index[Doc(w)] EXCEPT !.vector = index[Doc(w)].content]]
      BY <2>4 DEF SaveVector
    <3> HIDE DEF Cell
    <3>3. QED
      BY <2>2, <3>1, <3>2
  <2>5. index' \in [Documents -> Cell]
    BY <1>4, <2>3, <2>4
  <2>6. UNCHANGED <<newest, erased, trail>>
    BY <1>4 DEF SaveContent, SaveVector
  <2>7. TablesTyped' /\ RowsAreOfTheTrail'
    BY <2>5, <2>6 DEF TablesTyped, TrailTypeOK, RowsAreOfTheTrail
  <2>8. QED
    BY <2>1, <2>7, MovedType
<1>5. CASE EndCommand(w) \/ FailToTell(w) \/ Die(w)
  BY <1>5, TellMoves, KeptTables, MovedType DEF EndCommand, FailToTell, Die
<1>6. CASE TellIndexing(w) \/ TellSubmission(w)
  <2>1. UNCHANGED table
    BY <1>6 DEF TellIndexing, TellSubmission
  <2>2. PICK row \in TrailRows(Actors) : Log(w, row)
    BY <1>6, IndexingIsTold, SubmissionIsTold
  <2>3. RowsAreOfTheTrail' /\ Len(trail') <= LastRow
    BY <2>1, <2>2, LoggedRow DEF table
  <2>4. TablesTyped'
    BY <2>1, <2>3 DEF TablesTyped, TrailTypeOK, table
  <2>5. QED
    BY <1>6, <2>3, <2>4, TellMoves, MovedType
<1>7. QED
  BY <1>1, <1>2, <1>3, <1>4, <1>5, <1>6 DEF WorkerStep

LEMMA ErasureType ==
    ASSUME TrailTypeOK, RowsAreOfTheTrail, NEW u \in People, EraseAccount(u)
    PROVE  TrailTypeOK' /\ RowsAreOfTheTrail'
<1>1. RowsAreOfTheTrail' /\ Len(trail') = Len(trail)
  BY ErasedRows
<1>2. \A i \in DOMAIN trail' :
        trail'[i].id \in Documents /\ trail'[i].user \in ((People \ erased) \cup {NoKey})'
  <2>1. \A i \in DOMAIN trail' : trail'[i] \in TrailRows((People \ erased') \cup {NoKey})
    BY <1>1 DEF RowsAreOfTheTrail
  <2>2. QED
    BY <2>1, RowFacts
<1>3. erased' \subseteq People /\ UNCHANGED <<newest, index, step, job>>
  BY DEF EraseAccount, TrailTypeOK
<1>4. QED
  BY <1>1, <1>2, <1>3 DEF TrailTypeOK

\* What went wrong stays noted.
LEMMA FlawsRemain ==
    ASSUME [TrailNext]_trailVars
    PROVE  flaws \subseteq flaws'
<1>1. ASSUME NEW w \in Workers, NEW d \in Documents, NEW u \in People, CommitVersion(w, d, u)
      PROVE  flaws \subseteq flaws'
  BY <1>1 DEF CommitVersion
<1>2. ASSUME NEW w \in Workers, NEW d \in Documents, StartCommand(w, d)
      PROVE  flaws \subseteq flaws'
  BY <1>2 DEF StartCommand
<1>3. ASSUME NEW w \in Workers, SaveContent(w)
      PROVE  flaws \subseteq flaws'
  BY <1>3 DEF SaveContent
<1>4. ASSUME NEW w \in Workers,
             ReadRevision(w) \/ FailIndexing(w) \/ FailToTell(w)
      PROVE  flaws \subseteq flaws'
  BY <1>4 DEF ReadRevision, FailIndexing, FailToTell, Flaw
<1>5. ASSUME NEW w \in Workers, Die(w)
      PROVE  flaws \subseteq flaws'
  BY <1>5 DEF Die
<1>6. ASSUME NEW w \in Workers,
             SaveVector(w) \/ EndCommand(w) \/ TellIndexing(w) \/ TellSubmission(w)
      PROVE  flaws \subseteq flaws'
  BY <1>6 DEF SaveVector, EndCommand, TellIndexing, TellSubmission
<1>7. ASSUME NEW u \in People, EraseAccount(u)
      PROVE  flaws \subseteq flaws'
  BY <1>7 DEF EraseAccount
<1>8. CASE UNCHANGED trailVars
  BY <1>8 DEF trailVars
<1>9. QED
  BY <1>1, <1>2, <1>3, <1>4, <1>5, <1>6, <1>7, <1>8 DEF TrailNext

LEMMA FlawedRemains ==
    ASSUME [TrailNext]_trailVars, NEW d, NEW what, Flawed(d, what)
    PROVE  Flawed(d, what)'
BY FlawsRemain DEF Flawed

\* A step of one worker is a step.
LEMMA WorkerStepIsNext == \A w \in Workers : WorkerStep(w) => TrailNext
BY DEF WorkerStep, TrailNext

\* The others stay in step while no version is committed.
LEMMA OthersInStep ==
    ASSUME TrailTypeOK, JobsAreInStep, NEW w \in Workers, WorkerStep(w), OnlyMoves(w),
           newest' = newest,
           \A d \in Documents : index[d].revision > 0 => index'[d].revision > 0,
           NEW o \in Workers, o # w, step[o] # "free"
    PROVE  JobInStep(o)'
<1>1. JobInStep(o) /\ Doc(o) \in Documents
  BY JobFacts DEF JobsAreInStep
<1>2. step'[o] = step[o] /\ job'[o] = job[o]
  BY DEF OnlyMoves
<1>3. \A d, what : Flawed(d, what) => Flawed(d, what)'
  BY FlawedRemains, WorkerStepIsNext
<1>4. QED
  BY <1>1, <1>2, <1>3 DEF JobInStep, At, Doc

LEMMA CommitInStep ==
    ASSUME TrailTypeOK, JobsAreInStep, NEW w \in Workers, NEW d \in Documents,
           NEW u \in People, CommitVersion(w, d, u)
    PROVE  JobsAreInStep'
<1>1. /\ OnlyMoves(w) /\ step'[w] = "committed"
      /\ job'[w].document = d /\ job'[w].version = newest[d] + 1
  BY CommitMoves
<1>2. /\ newest \in [Documents -> 0..LastVersion] /\ UNCHANGED index
      /\ newest' = [newest EXCEPT ![d] = @ + 1]
  BY DEF CommitVersion, TrailTypeOK
<1>3. JobInStep(w)'
  BY <1>1, <1>2, TrailAssumption DEF JobInStep, At
<1>4. ASSUME NEW o \in Workers, o # w, step[o] # "free"
      PROVE  JobInStep(o)'
  <2>1. JobInStep(o) /\ Doc(o) \in Documents /\ job[o].version \in 0..LastVersion
    BY <1>4, JobFacts DEF JobsAreInStep
  <2>2. step'[o] = step[o] /\ job'[o] = job[o]
    BY <1>1, <1>4 DEF OnlyMoves
  <2>3. \A x, what : Flawed(x, what) => Flawed(x, what)'
    BY FlawedRemains DEF TrailNext
  <2>4. Doc(o) = d /\ job[o].version = 1 => Flawed(d, "revised_early")'
    BY DEF CommitVersion, Flawed
  <2>5. newest[Doc(o)] <= newest'[Doc(o)] /\ (Doc(o) # d => newest'[Doc(o)] = newest[Doc(o)])
    BY <1>2, <2>1, TrailAssumption
  <2>6. newest[Doc(o)] \in Nat /\ newest'[Doc(o)] \in Nat
    BY <1>2, <2>1, TrailAssumption
  <2>7. QED
    BY <1>2, <2>1, <2>2, <2>3, <2>4, <2>5, <2>6 DEF JobInStep, At, Doc
<1>5. QED
  BY <1>1, <1>3, <1>4 DEF JobsAreInStep, OnlyMoves

LEMMA WorkerInStep ==
    ASSUME TrailTypeOK, RowsAreOfTheTrail, JobsAreInStep, NEW w \in Workers, WorkerStep(w)
    PROVE  JobsAreInStep'
<1>1. TrailTypeOK' /\ OnlyMoves(w)
  BY WorkerType
<1>2. ASSUME newest' = newest, step'[w] # "free" => JobInStep(w)',
             \A d \in Documents : index[d].revision > 0 => index'[d].revision > 0
      PROVE  JobsAreInStep'
  BY <1>1, <1>2, OthersInStep DEF JobsAreInStep, OnlyMoves
<1>3. ASSUME NEW d \in Documents, StartCommand(w, d)
      PROVE  JobsAreInStep'
  <2>1. /\ UNCHANGED <<newest, index>> /\ newest[d] > 0 /\ step'[w] = "committed"
        /\ job'[w].document = d /\ job'[w].version = 0
    BY <1>3, CommandMoves DEF StartCommand, table
  <2>2. newest[d] \in Nat
    BY TrailAssumption DEF TrailTypeOK
  <2>3. JobInStep(w)'
    BY <2>1, <2>2 DEF JobInStep, At
  <2>4. QED
    BY <1>2, <2>1, <2>3
<1>4. ASSUME NEW d \in Documents, NEW u \in People, CommitVersion(w, d, u)
      PROVE  JobsAreInStep'
  BY <1>4, CommitInStep
<1>5. CASE ReadRevision(w) \/ SaveContent(w) \/ SaveVector(w) \/ FailIndexing(w)
  <2>1. /\ job[w] \in Jobs /\ SameJob(w) /\ step[w] # "free" /\ Doc(w) \in Documents
        /\ newest' = newest
    BY <1>5, IndexMoves, JobFacts
       DEF ReadRevision, SaveContent, SaveVector, FailIndexing, At, table
  <2>2. JobInStep(w)
    BY <2>1 DEF JobsAreInStep
  <2>3. \A x, what : Flawed(x, what) => Flawed(x, what)'
    BY FlawedRemains, WorkerStepIsNext
  <2>4. PICK d \in Documents : d = Doc(w)
    BY <2>1
  <2>5. /\ newest[d] > 0 /\ job[w].version <= newest[d]
        /\ job[w].version = 1 => newest[d] = 1 \/ Flawed(d, "revised_early")'
        /\ job'[w].document = d /\ job[w].document = d /\ job'[w].version = job[w].version
    BY <2>1, <2>2, <2>3, <2>4 DEF JobInStep, SameJob, Doc
  <2>6. CASE ReadRevision(w)
    <3>1. step'[w] = "read" /\ UNCHANGED index
      BY <1>1, <2>6 DEF ReadRevision, Goto, TrailTypeOK, table
    <3>2. /\ job'[w].read = newest[d]
          /\ \/ job'[w].text = newest[d]
             \/ job'[w].text = 0 /\ Flawed(d, "unread")'
      <4>1. newest[d] \in 0..LastVersion /\ 0 \in 0..LastVersion
        BY <2>1, TrailAssumption DEF TrailTypeOK
      <4>2. \/ job' = [job EXCEPT ![w] = AsRead(job[w], newest[d], newest[d])]
            \/ /\ job' = [job EXCEPT ![w] = AsRead(job[w], newest[d], 0)]
               /\ Flawed(d, "unread")'
        BY <2>6, <2>4 DEF ReadRevision, Flaw, Flawed
      <4>3. job \in [Workers -> Jobs \cup {NoJob}]
        BY DEF TrailTypeOK
      <4>4. PICK j : j = job[w] /\ j \in Jobs
        BY <2>1
      <4>5. PICK v \in 0..LastVersion : v = newest[d]
        BY <4>1
      <4>6. \/ job'[w] = AsRead(j, v, v)
            \/ job'[w] = AsRead(j, v, 0) /\ Flawed(d, "unread")'
        BY <4>2, <4>3, <4>4, <4>5
      <4>7. /\ AsRead(j, v, v).read = v /\ AsRead(j, v, v).text = v
            /\ AsRead(j, v, 0).read = v /\ AsRead(j, v, 0).text = 0
        BY <4>4 DEF AsRead, Jobs
      <4>8. QED
        BY <4>5, <4>6, <4>7
    <3>3. JobInStep(w)'
      BY <2>1, <2>5, <3>1, <3>2 DEF JobInStep, At
    <3>4. QED
      BY <1>2, <2>1, <3>1, <3>3
  <2>7. CASE SaveContent(w)
    <3>1. step'[w] = "saved" /\ step[w] = "read" /\ job' = job
      BY <1>1, <2>7 DEF SaveContent, Goto, TrailTypeOK, At
    <3>2. job[w].read > 0
      BY <2>2, <3>1 DEF JobInStep, At
    <3>3. /\ index'[d].revision = job[w].read
          /\ \A x \in Documents \ {d} : index'[x] = index[x]
      BY <2>1, <2>7, <2>4 DEF SaveContent, TrailTypeOK
    <3>4. JobInStep(w)'
      BY <2>1, <2>5, <3>1, <3>2, <3>3 DEF JobInStep, At
    <3>5. QED
      BY <1>2, <2>1, <3>2, <3>3, <3>4
  <2>8. CASE SaveVector(w)
    <3>1. step'[w] = "indexed" /\ job' = [job EXCEPT ![w] = [job[w] EXCEPT !.outcome = "SUCCESS"]]
      BY <1>1, <2>8 DEF SaveVector, Goto, TrailTypeOK
    <3>2. step'[w] = "indexed" /\ job'[w].outcome # NoKey
      <4>1. job'[w].outcome = "SUCCESS"
        BY <2>1, <3>1 DEF TrailTypeOK, Jobs
      <4>2. "SUCCESS" # NoKey
        BY TrailAssumption, FeedAssumption
      <4>3. QED
        BY <3>1, <4>1, <4>2
    <3>3. \A x \in Documents : index'[x].revision = index[x].revision
      BY <2>1, <2>8 DEF SaveVector, TrailTypeOK
    <3>4. JobInStep(w)'
      BY <2>1, <2>5, <3>2 DEF JobInStep, At, Flawed
    <3>5. QED
      BY <1>2, <2>1, <3>3, <3>4
  <2>9. CASE FailIndexing(w)
    <3>1. /\ step'[w] = "indexed" /\ UNCHANGED index
          /\ job' = [job EXCEPT ![w] = [job[w] EXCEPT !.outcome = "FAILURE"]]
      BY <1>1, <2>9 DEF FailIndexing, Goto, TrailTypeOK, table
    <3>2. step'[w] = "indexed" /\ job'[w].outcome # NoKey
      <4>1. job'[w].outcome = "FAILURE"
        BY <2>1, <3>1 DEF TrailTypeOK, Jobs
      <4>2. "FAILURE" # NoKey
        BY TrailAssumption, FeedAssumption
      <4>3. QED
        BY <3>1, <4>1, <4>2
    <3>3. JobInStep(w)'
      BY <2>1, <2>5, <3>2 DEF JobInStep, At, Flawed
    <3>4. QED
      BY <1>2, <2>1, <3>1, <3>3
  <2>10. QED
    BY <1>5, <2>6, <2>7, <2>8, <2>9
<1>6. CASE TellIndexing(w) \/ TellSubmission(w) \/ FailToTell(w) \/ EndCommand(w) \/ Die(w)
  <2>1. UNCHANGED <<newest, index>>
    BY <1>6 DEF TellIndexing, TellSubmission, FailToTell, EndCommand, Die, table
  <2>2. ASSUME step'[w] # "free"
        PROVE  JobInStep(w)'
    <3>1. /\ job[w] \in Jobs /\ step[w] = "indexed" /\ step'[w] = "told"
          /\ job'[w] = job[w] /\ ~IsCommand(w) /\ Doc(w) \in Documents
      BY <1>6, <2>2, TellMoves, JobFacts
    <3>2. JobInStep(w) /\ job[w].version \in 0..LastVersion /\ job[w].version # 0
      BY <3>1 DEF JobsAreInStep, Jobs, IsCommand
    <3>3. \A d, what : Flawed(d, what) => Flawed(d, what)'
      BY FlawedRemains, WorkerStepIsNext
    <3>4. QED
      BY <2>1, <3>1, <3>2, <3>3, TrailAssumption DEF JobInStep, At
  <2>3. QED
    BY <1>2, <2>1, <2>2
<1>7. QED
  BY <1>3, <1>4, <1>5, <1>6 DEF WorkerStep

\* The row of a document is written by SaveContent and SaveVector only.
LEMMA RowsOfOthers ==
    ASSUME TrailTypeOK, NEW w \in Workers, WorkerStep(w), NEW d \in Documents
    PROVE  /\ SaveContent(w) /\ Doc(w) = d =>
                /\ index'[d].revision = job[w].read /\ index'[d].content = job[w].text
                /\ index'[d].vector = index[d].vector
           /\ SaveVector(w) /\ Doc(w) = d =>
                /\ index'[d].vector = index[d].content
                /\ index'[d].revision = index[d].revision
                /\ index'[d].content = index[d].content
           /\ ~((SaveContent(w) \/ SaveVector(w)) /\ Doc(w) = d) => index'[d] = index[d]
<1>1. index \in [Documents -> [revision : 0..LastVersion, content : 0..LastVersion,
                               vector : -1..LastVersion]]
  BY DEF TrailTypeOK
<1>2. ASSUME SaveContent(w)
      PROVE  index' = [index EXCEPT ![Doc(w)] =
                         [index[Doc(w)] EXCEPT !.revision = job[w].read, !.content = job[w].text]]
  BY <1>2 DEF SaveContent
<1>3. ASSUME SaveVector(w)
      PROVE  index' = [index EXCEPT ![Doc(w)] =
                         [index[Doc(w)] EXCEPT !.vector = index[Doc(w)].content]]
  BY <1>3 DEF SaveVector
<1>4. ~SaveContent(w) /\ ~SaveVector(w) => index' = index
  BY DEF WorkerStep, StartCommand, CommitVersion, ReadRevision, FailIndexing, EndCommand,
         TellIndexing, TellSubmission, FailToTell, Die, table
<1>5. CASE SaveContent(w) /\ Doc(w) = d
  <2>1. index'[d] = [index[d] EXCEPT !.revision = job[w].read, !.content = job[w].text]
    BY <1>1, <1>2, <1>5
  <2>2. ~SaveVector(w)
    BY <1>5 DEF SaveContent, SaveVector, At
  <2>3. QED
    BY <1>1, <1>5, <2>1, <2>2
<1>6. CASE SaveVector(w) /\ Doc(w) = d
  <2>1. index'[d] = [index[d] EXCEPT !.vector = index[d].content]
    BY <1>1, <1>3, <1>6
  <2>2. ~SaveContent(w)
    BY <1>6 DEF SaveContent, SaveVector, At
  <2>3. QED
    BY <1>1, <1>6, <2>1, <2>2
<1>7. CASE ~((SaveContent(w) \/ SaveVector(w)) /\ Doc(w) = d)
  BY <1>1, <1>2, <1>3, <1>4, <1>7
<1>8. QED
  BY <1>5, <1>6, <1>7

\* Nothing happens to a document at which the worker is neither before nor after.
LEMMA NotItsDocument ==
    ASSUME TrailTypeOK, RowsAreOfTheTrail, JobsAreInStep, NEW w \in Workers, WorkerStep(w),
           NEW d \in Documents, Doc(w) # d, Doc(w)' # d
    PROVE  /\ newest'[d] = newest[d] /\ index'[d] = index[d]
           /\ \A o \in Workers : Doc(o)' = d <=> Doc(o) = d
           /\ \A o \in Workers : Doc(o) = d => step'[o] = step[o] /\ job'[o] = job[o]
<1>1. OnlyMoves(w)
  BY WorkerType
<1>2. newest'[d] = newest[d]
  <2>1. ASSUME NEW x \in Documents, NEW u \in People, CommitVersion(w, x, u)
        PROVE  newest'[d] = newest[d]
    <3>1. x # d
      BY <2>1, CommitMoves DEF Doc
    <3>2. QED
      BY <2>1, <3>1 DEF CommitVersion, TrailTypeOK
  <2>2. (\A x \in Documents, u \in People : ~CommitVersion(w, x, u)) => newest' = newest
    BY DEF WorkerStep, StartCommand, SaveContent, SaveVector, ReadRevision, FailIndexing,
           EndCommand, TellIndexing, TellSubmission, FailToTell, Die, table
  <2>3. QED
    BY <2>1, <2>2
<1>3. index'[d] = index[d]
  BY RowsOfOthers
<1>4. QED
  BY <1>1, <1>2, <1>3 DEF OnlyMoves, Doc

\* A step that neither starts nor ends a reading of the document.
LEMMA StillCatchesUp ==
    ASSUME NEW d \in Documents, CatchesUp(d), newest'[d] = newest[d],
           index'[d].revision = index[d].revision, index'[d].content = index[d].content,
           flaws \subseteq flaws',
           \A o \in Workers : /\ Doc(o)' = d /\ At(o, "committed")' <=> Doc(o) = d /\ At(o, "committed")
                              /\ Doc(o)' = d /\ At(o, "read")' <=> Doc(o) = d /\ At(o, "read")
                              /\ Doc(o) = d /\ At(o, "read") => job'[o].read = job[o].read
    PROVE  CatchesUp(d)'
<1>1. Reading(d)' = Reading(d)
  BY DEF Reading
<1>2. \A o \in Reading(d) : o \in Workers /\ job'[o].read = job[o].read
  BY DEF Reading
<1>3. \A what : Flawed(d, what) => Flawed(d, what)'
  BY DEF Flawed
<1>4. ASSUME newest[d] > 0, ~Flawed(d, "index"), ~Flawed(d, "overlap")
      PROVE  \/ \E w \in Workers : Doc(w)' = d /\ At(w, "committed")'
             \/ \E w \in Reading(d)' : job'[w].read = newest'[d]
             \/ /\ Reading(d)' = {}
                /\ index'[d].revision = newest'[d]
                /\ Flawed(d, "unread")' \/ index'[d].content = newest'[d]
  <2>1. CASE \E w \in Workers : Doc(w) = d /\ At(w, "committed")
    BY <2>1
  <2>2. CASE \E w \in Reading(d) : job[w].read = newest[d]
    BY <1>1, <1>2, <2>2
  <2>3. CASE /\ Reading(d) = {}
             /\ index[d].revision = newest[d]
             /\ Flawed(d, "unread") \/ index[d].content = newest[d]
    BY <1>1, <1>3, <2>3
  <2>4. QED
    BY <1>4, <2>1, <2>2, <2>3 DEF CatchesUp
<1>5. QED
  BY <1>3, <1>4 DEF CatchesUp

\* The save of the one run that reads, or of one of several.
LEMMA SaveCatchesUp ==
    ASSUME TrailTypeOK, RowsAreOfTheTrail, JobsAreInStep, NEW w \in Workers, SaveContent(w),
           NEW d \in Documents, Doc(w) = d, CatchesUp(d)
    PROVE  CatchesUp(d)'
<1>1. OnlyMoves(w) /\ WorkerStep(w)
  BY IndexMoves DEF WorkerStep
<1>2. /\ step[w] = "read" /\ step'[w] = "saved" /\ job' = job /\ newest' = newest
      /\ Doc(w)' = d /\ w \in Reading(d)
  BY <1>1 DEF SaveContent, At, Goto, TrailTypeOK, Doc, Reading
<1>3. flaws \subseteq flaws' /\ \A what : Flawed(d, what) => Flawed(d, what)'
  BY <1>1, FlawsRemain, WorkerStepIsNext DEF Flawed
<1>4. CASE Reading(d) # {w}
  <2>1. Flawed(d, "overlap")'
    BY <1>4 DEF SaveContent, Flawed
  <2>2. QED
    BY <2>1 DEF CatchesUp
<1>5. CASE Reading(d) = {w}
  <2>1. Reading(d)' = {}
    BY <1>1, <1>2, <1>5 DEF Reading, OnlyMoves, Doc, At
  <2>2. index'[d].revision = job[w].read /\ index'[d].content = job[w].text
    BY <1>1, RowsOfOthers
  <2>3. job[w].text = job[w].read \/ Flawed(d, "unread")
    BY <1>2 DEF JobsAreInStep, JobInStep, At, Doc
  <2>4. ASSUME newest[d] > 0, ~Flawed(d, "index"), ~Flawed(d, "overlap")
        PROVE  \/ \E o \in Workers : Doc(o)' = d /\ At(o, "committed")'
               \/ /\ Reading(d)' = {} /\ index'[d].revision = newest'[d]
                  /\ Flawed(d, "unread")' \/ index'[d].content = newest'[d]
    <3>1. CASE \E o \in Workers : Doc(o) = d /\ At(o, "committed")
      <4>1. PICK o \in Workers : Doc(o) = d /\ At(o, "committed")
        BY <3>1
      <4>2. o # w
        BY <1>2, <4>1 DEF At
      <4>3. Doc(o)' = d /\ At(o, "committed")'
        BY <1>1, <4>1, <4>2 DEF OnlyMoves, Doc, At
      <4>4. QED
        BY <4>3
    <3>2. CASE \E o \in Reading(d) : job[o].read = newest[d]
      <4>1. job[w].read = newest[d]
        BY <1>5, <3>2
      <4>2. QED
        BY <1>2, <1>3, <2>1, <2>2, <2>3, <4>1
    <3>3. QED
      BY <1>2, <2>4, <3>1, <3>2 DEF CatchesUp
  <2>5. QED
    BY <1>2, <1>3, <2>4 DEF CatchesUp
<1>6. QED
  BY <1>4, <1>5

LEMMA WorkerCatchesUp ==
    ASSUME TrailTypeOK, RowsAreOfTheTrail, JobsAreInStep, NEW w \in Workers, WorkerStep(w),
           NEW d \in Documents, CatchesUp(d)
    PROVE  CatchesUp(d)'
<1>1. OnlyMoves(w) /\ flaws \subseteq flaws'
  BY WorkerType, FlawsRemain, WorkerStepIsNext
<1>2. \A o \in Workers : o # w =>
        /\ Doc(o)' = d /\ At(o, "committed")' <=> Doc(o) = d /\ At(o, "committed")
        /\ Doc(o)' = d /\ At(o, "read")' <=> Doc(o) = d /\ At(o, "read")
        /\ job'[o].read = job[o].read
  BY <1>1 DEF OnlyMoves, Doc, At
<1>3. CASE Doc(w) # d /\ Doc(w)' # d
  <2>1. /\ newest'[d] = newest[d] /\ index'[d] = index[d]
    BY <1>3, NotItsDocument
  <2>2. QED
    BY <1>1, <1>2, <1>3, <2>1, StillCatchesUp
<1>4. ASSUME NEW x \in Documents, StartCommand(w, x) \/ \E u \in People : CommitVersion(w, x, u),
             Doc(w)' = d
      PROVE  CatchesUp(d)'
  <2>1. step'[w] = "committed"
    BY <1>4, CommandMoves, CommitMoves
  <2>2. QED
    BY <1>4, <2>1 DEF CatchesUp, At
<1>5. CASE ReadRevision(w) /\ Doc(w) = d
  <2>1. SameJob(w) /\ step'[w] = "read" /\ newest' = newest
    BY <1>5, IndexMoves DEF ReadRevision, Goto, TrailTypeOK, table
  <2>2. Doc(w)' = d
    BY <1>5, <2>1 DEF SameJob, Doc
  <2>3. job'[w].read = newest[d]
    <3>1. newest[d] \in 0..LastVersion /\ 0 \in 0..LastVersion /\ job[w] \in Jobs
      BY <1>5, IndexMoves, TrailAssumption DEF TrailTypeOK
    <3>2. PICK v \in 0..LastVersion, t \in 0..LastVersion :
            v = newest[d] /\ job' = [job EXCEPT ![w] = AsRead(job[w], v, t)]
      BY <1>5, <3>1 DEF ReadRevision
    <3>3. PICK j \in Jobs : j = job[w]
      BY <3>1
    <3>4. job'[w] = AsRead(j, v, t)
      BY <3>2, <3>3 DEF TrailTypeOK
    <3>5. AsRead(j, v, t).read = v
      BY DEF AsRead, Jobs
    <3>6. QED
      BY <3>2, <3>4, <3>5
  <2>4. w \in Reading(d)'
    BY <2>1, <2>2 DEF Reading, At
  <2>5. QED
    BY <2>1, <2>3, <2>4 DEF CatchesUp
<1>6. CASE SaveContent(w) /\ Doc(w) = d
  BY <1>6, SaveCatchesUp
<1>7. ASSUME step[w] \notin {"committed", "read"}, step'[w] \notin {"committed", "read"},
             newest' = newest, ~SaveContent(w)
      PROVE  CatchesUp(d)'
  <2>1. index'[d].revision = index[d].revision /\ index'[d].content = index[d].content
    BY <1>7, RowsOfOthers
  <2>2. QED
    BY <1>1, <1>2, <1>7, <2>1, StillCatchesUp DEF At
<1>8. CASE SaveVector(w)
  <2>1. step[w] = "saved" /\ step'[w] = "indexed" /\ newest' = newest /\ ~SaveContent(w)
    BY <1>8 DEF SaveVector, SaveContent, At, Goto, TrailTypeOK
  <2>2. QED
    BY <1>7, <2>1
<1>9. CASE FailIndexing(w) /\ Doc(w) = d
  <2>1. Flawed(d, "index")'
    BY <1>9 DEF FailIndexing, Flaw, Flawed
  <2>2. QED
    BY <2>1 DEF CatchesUp
<1>10. CASE EndCommand(w) \/ TellIndexing(w) \/ TellSubmission(w) \/ FailToTell(w)
  <2>1. /\ step[w] \in {"indexed", "told"} /\ newest' = newest /\ ~SaveContent(w)
    BY <1>10 DEF EndCommand, TellIndexing, TellSubmission, FailToTell, SaveContent, At, table
  <2>2. step'[w] \in {"free", "told"}
    BY <1>10, TellMoves
  <2>3. QED
    BY <1>7, <2>1, <2>2
<1>11. CASE Die(w) /\ Doc(w) = d
  <2>1. CASE step[w] \in {"indexed", "told"}
    <3>1. step'[w] \in {"free", "told"}
      BY <1>11, TellMoves
    <3>2. newest' = newest /\ ~SaveContent(w)
      BY <1>11, <2>1 DEF Die, SaveContent, At, table
    <3>3. QED
      BY <1>7, <2>1, <3>1, <3>2
  <2>2. CASE step[w] \notin {"indexed", "told"}
    <3>1. <<"index", d>> \in flaws'
      BY <1>11, <2>2 DEF Die, At
    <3>2. QED
      BY <3>1 DEF CatchesUp, Flawed
  <2>3. QED
    BY <2>1, <2>2
<1>12. QED
  <2>1. ASSUME NEW x \in Documents,
               StartCommand(w, x) \/ \E u \in People : CommitVersion(w, x, u)
        PROVE  Doc(w) # d
    <3>1. step[w] = "free"
      BY <2>1 DEF StartCommand, CommitVersion, At
    <3>2. QED
      BY <3>1, JobFacts
  <2>2. ASSUME ReadRevision(w) \/ SaveContent(w) \/ FailIndexing(w)
        PROVE  Doc(w)' = Doc(w)
    BY <2>2, IndexMoves DEF SameJob, Doc
  <2>3. ASSUME Die(w)
        PROVE  Doc(w)' # d
    BY <2>3, TrailAssumption DEF Die, Release, Doc, NoJob, NewJob, TrailTypeOK
  <2>4. ASSUME NEW x \in Documents,
               StartCommand(w, x) \/ \E u \in People : CommitVersion(w, x, u)
        PROVE  CatchesUp(d)'
    BY <1>3, <1>4, <2>1, <2>4
  <2>5. CASE ReadRevision(w) \/ SaveContent(w) \/ FailIndexing(w)
    BY <1>3, <1>5, <1>6, <1>9, <2>2, <2>5
  <2>6. CASE Die(w)
    BY <1>3, <1>11, <2>3, <2>6
  <2>7. QED
    BY <1>8, <1>10, <2>4, <2>5, <2>6 DEF WorkerStep

LEMMA WorkerVector ==
    ASSUME TrailTypeOK, RowsAreOfTheTrail, JobsAreInStep, NEW w \in Workers, WorkerStep(w),
           NEW d \in Documents, VectorFits(d)
    PROVE  VectorFits(d)'
<1>1. OnlyMoves(w) /\ flaws \subseteq flaws'
  BY WorkerType, FlawsRemain, WorkerStepIsNext
<1>2. ASSUME index'[d] = index[d], ~(Doc(w) = d /\ step[w] = "saved")
      PROVE  VectorFits(d)'
  <2>1. \A o \in Workers \ {w} : Doc(o)' = Doc(o) /\ step'[o] = step[o]
    BY <1>1 DEF OnlyMoves, Doc
  <2>2. ASSUME \A o \in Workers : Doc(o)' = d => ~At(o, "saved")'
        PROVE  \A o \in Workers : Doc(o) = d => ~At(o, "saved")
    BY <1>2, <2>1, <2>2 DEF At
  <2>3. Flawed(d, "index") => Flawed(d, "index")'
    BY <1>1 DEF Flawed
  <2>4. QED
    BY <1>2, <2>2, <2>3 DEF VectorFits
<1>3. CASE Doc(w) = d /\ SaveContent(w)
  <2>1. Doc(w)' = d /\ At(w, "saved")'
    BY <1>1, <1>3 DEF SaveContent, Goto, At, Doc, TrailTypeOK
  <2>2. QED
    BY <2>1 DEF VectorFits
<1>4. CASE Doc(w) = d /\ SaveVector(w)
  <2>1. /\ index'[d].vector = index[d].content /\ index'[d].revision = index[d].revision
        /\ index'[d].content = index[d].content
    BY <1>4, RowsOfOthers
  <2>2. index[d].revision > 0 /\ index[d].revision \in 0..LastVersion
    BY <1>4 DEF JobsAreInStep, JobInStep, SaveVector, At, Doc, TrailTypeOK
  <2>3. QED
    BY <2>1, <2>2, TrailAssumption DEF VectorFits
<1>5. CASE Doc(w) = d /\ step[w] = "saved" /\ ~SaveContent(w) /\ ~SaveVector(w)
  <2>1. FailIndexing(w) \/ Die(w)
    BY <1>5 DEF WorkerStep, StartCommand, CommitVersion, ReadRevision, EndCommand,
                TellIndexing, TellSubmission, FailToTell, At
  <2>2. <<"index", d>> \in flaws'
    BY <1>5, <2>1 DEF FailIndexing, Flaw, Die, At
  <2>3. QED
    BY <2>2 DEF VectorFits, Flawed
<1>6. CASE ~(Doc(w) = d /\ (SaveContent(w) \/ SaveVector(w)))
  BY <1>2, <1>5, <1>6, RowsOfOthers
<1>7. QED
  BY <1>3, <1>4, <1>6

\* What remains to be told of one document.
ToldOf(d) ==
    ~Flawed(d, "submission") =>
        \A v \in 1..newest[d] :
            \/ \E w \in Workers : Doc(w) = d /\ job[w].version = v
            \/ \E i \in DOMAIN trail : Tells(i, d, v)

\* A version that was told remains so.
LEMMA ToldRemains ==
    ASSUME [TrailNext]_trailVars, TrailTypeOK, RowsAreOfTheTrail, JobsAreInStep,
           NEW d, NEW v, NEW i \in DOMAIN trail, Tells(i, d, v)
    PROVE  i \in DOMAIN trail' /\ Tells(i, d, v)'
<1>1. Flawed(d, "revised_early") => Flawed(d, "revised_early")'
  BY FlawedRemains
<1>2. /\ i \in DOMAIN trail'
      /\ trail'[i].id = trail[i].id /\ trail'[i].action = trail[i].action
      /\ trail'[i].version = trail[i].version
  <2>1. ASSUME NEW w \in Workers, TellIndexing(w) \/ TellSubmission(w)
        PROVE  i \in DOMAIN trail' /\ trail'[i] = trail[i]
    <3>1. PICK row \in TrailRows(Actors) : Log(w, row)
      BY <2>1, IndexingIsTold, SubmissionIsTold
    <3>2. erased' = erased
      BY <2>1 DEF TellIndexing, TellSubmission, table
    <3>3. /\ DOMAIN trail = 1..Len(trail) /\ DOMAIN trail' = 1..Len(trail) + 1
          /\ \A j \in DOMAIN trail : trail'[j] = trail[j]
      BY <3>1, <3>2, LoggedRow
    <3>4. Len(trail) \in Nat
      BY DEF RowsAreOfTheTrail
    <3>5. QED
      BY <3>3, <3>4
  <2>2. ASSUME NEW u \in People, EraseAccount(u)
        PROVE  /\ i \in DOMAIN trail'
               /\ trail'[i].id = trail[i].id /\ trail'[i].action = trail[i].action
               /\ trail'[i].version = trail[i].version
    <3>1. /\ DOMAIN trail' = DOMAIN trail
          /\ trail'[i] = IF trail[i].user = u THEN [trail[i] EXCEPT !.user = NoKey] ELSE trail[i]
      BY <2>2, ErasedRows
    <3>2. QED
      BY <3>1
  <2>3. ASSUME ~(\E w \in Workers : TellIndexing(w) \/ TellSubmission(w)),
               ~(\E u \in People : EraseAccount(u))
        PROVE  trail' = trail
    BY <2>3 DEF TrailNext, StartCommand, CommitVersion, ReadRevision, SaveContent, SaveVector,
       FailIndexing, EndCommand, FailToTell, Die, table, trailVars
  <2>4. QED
    BY <2>1, <2>2, <2>3
<1>3. QED
  BY <1>1, <1>2 DEF Tells

\* The row that is written tells the version of the worker.
LEMMA RowTells ==
    ASSUME TrailTypeOK, RowsAreOfTheTrail, JobsAreInStep, NEW w \in Workers, TellSubmission(w),
           NEW d \in Documents, Doc(w) = d, NEW v \in Nat, job[w].version = v
    PROVE  \E i \in DOMAIN trail' : Tells(i, d, v)'
<1>1. /\ Log(w, SubmissionRow(job[w])) /\ SubmissionRow(job[w]) \in TrailRows(Actors)
      /\ UNCHANGED <<erased, flaws>> /\ step[w] = "told"
  BY SubmissionIsTold DEF TellSubmission, table, At
<1>2. PICK row : row = SubmissionRow(job[w])
  OBVIOUS
<1>3. /\ DOMAIN trail' = 1..Len(trail) + 1 /\ trail'[Len(trail) + 1] = row
      /\ Len(trail) \in Nat
  BY <1>1, <1>2, LoggedRow DEF RowsAreOfTheTrail
<1>4. v = 1 => newest[d] = 1 \/ Flawed(d, "revised_early")
  BY <1>1 DEF JobsAreInStep, JobInStep, Doc
<1>5. /\ row.id = d
      /\ row.action = IF v = 1 THEN "DOC_SUBMIT_SUCCESS" ELSE "DOC_REVISION_CREATED"
      /\ row.version = IF v = 1 THEN newest[d] ELSE v
  <2>1. row = IF v = 1 THEN Submitted(d, job[w].actor, newest[d])
              ELSE RevisionCreated(d, job[w].actor, v)
    BY <1>2 DEF SubmissionRow, Doc
  <2>2. CASE v = 1
    <3>1. row = TrailRow("DOC_SUBMIT_SUCCESS", d, job[w].actor, NoKey, NoKey, newest[d])
      BY <2>1, <2>2, SubmittedRow
    <3>2. QED
      BY <2>2, <3>1 DEF TrailRow
  <2>3. CASE v # 1
    <3>1. row = TrailRow("DOC_REVISION_CREATED", d, job[w].actor, NoKey, NoKey, v)
      BY <2>1, <2>3, CreatedRow
    <3>2. QED
      BY <2>3, <3>1 DEF TrailRow
  <2>4. QED
    BY <2>2, <2>3
<1>6. \E i \in DOMAIN trail' : trail'[i] = row
  BY <1>3
<1>7. row.version = v \/ (v = 1 /\ Flawed(d, "revised_early")')
  BY <1>1, <1>4, <1>5 DEF Flawed
<1>8. QED
  BY <1>5, <1>6, <1>7 DEF Tells

\* A version that a worker had to tell is told, or still is its version.
LEMMA DueRemains ==
    ASSUME TrailTypeOK, RowsAreOfTheTrail, JobsAreInStep, NEW w \in Workers, WorkerStep(w),
           NEW d \in Documents, NEW v \in Nat \ {0}, Doc(w) = d, job[w].version = v,
           ~Flawed(d, "submission")'
    PROVE  \/ Doc(w)' = d /\ job'[w].version = v
           \/ \E i \in DOMAIN trail' : Tells(i, d, v)'
<1>1. step[w] # "free"
  BY JobFacts
<1>2. CASE ReadRevision(w) \/ SaveContent(w) \/ SaveVector(w) \/ FailIndexing(w)
  BY <1>2, IndexMoves DEF SameJob, Doc
<1>3. CASE TellSubmission(w)
  BY <1>3, RowTells
<1>4. CASE TellIndexing(w)
  BY <1>4 DEF TellIndexing, Doc
<1>5. CASE FailToTell(w)
  <2>1. CASE step[w] = "told"
    <3>1. <<"submission", d>> \in flaws'
      BY <1>5, <2>1 DEF FailToTell, Flaw, At
    <3>2. QED
      BY <3>1 DEF Flawed
  <2>2. CASE step[w] # "told"
    BY <1>5, <2>2 DEF FailToTell, At, Doc
  <2>3. QED
    BY <2>1, <2>2
<1>6. CASE Die(w)
  <2>1. <<"submission", d>> \in flaws'
    BY <1>6 DEF Die, IsCommand
  <2>2. QED
    BY <2>1 DEF Flawed
<1>7. QED
  BY <1>1, <1>2, <1>3, <1>4, <1>5, <1>6
     DEF WorkerStep, StartCommand, CommitVersion, EndCommand, IsCommand, At

LEMMA WorkerTold ==
    ASSUME TrailTypeOK, RowsAreOfTheTrail, JobsAreInStep, NEW w \in Workers, WorkerStep(w),
           NEW d \in Documents, ToldOf(d)
    PROVE  ToldOf(d)'
<1>1. OnlyMoves(w) /\ TrailNext
  BY WorkerType, WorkerStepIsNext
<1>2. newest \in [Documents -> 0..LastVersion]
  BY DEF TrailTypeOK
<1>3. ASSUME ~Flawed(d, "submission")', NEW v \in 1..newest[d]
      PROVE  \/ \E o \in Workers : Doc(o)' = d /\ job'[o].version = v
             \/ \E i \in DOMAIN trail' : Tells(i, d, v)'
  <2>1. ~Flawed(d, "submission")
    BY <1>1, <1>3, FlawedRemains
  <2>2. v \in Nat \ {0}
    BY <1>2, TrailAssumption
  <2>3. CASE \E i \in DOMAIN trail : Tells(i, d, v)
    BY <1>1, <2>3, ToldRemains
  <2>4. ASSUME NEW o \in Workers, Doc(o) = d, job[o].version = v
        PROVE  \/ Doc(o)' = d /\ job'[o].version = v
               \/ \E i \in DOMAIN trail' : Tells(i, d, v)'
    <3>1. CASE o = w
      BY <1>3, <2>2, <2>4, <3>1, DueRemains
    <3>2. CASE o # w
      BY <1>1, <2>4, <3>2 DEF OnlyMoves, Doc
    <3>3. QED
      BY <3>1, <3>2
  <2>5. QED
    BY <2>1, <2>3, <2>4 DEF ToldOf
<1>4. ASSUME NEW x \in Documents, NEW u \in People, CommitVersion(w, x, u), x = d
      PROVE  /\ newest'[d] = newest[d] + 1
             /\ Doc(w)' = d /\ job'[w].version = newest[d] + 1
  <2>1. newest' = [newest EXCEPT ![d] = @ + 1]
    BY <1>4 DEF CommitVersion
  <2>2. QED
    BY <1>2, <1>4, <2>1, CommitMoves DEF Doc
<1>5. \/ newest'[d] = newest[d]
      \/ newest'[d] = newest[d] + 1 /\ Doc(w)' = d /\ job'[w].version = newest[d] + 1
  <2>1. ASSUME NEW x \in Documents, NEW u \in People, CommitVersion(w, x, u), x # d
        PROVE  newest'[d] = newest[d]
    BY <1>2, <2>1 DEF CommitVersion
  <2>2. (\A x \in Documents, u \in People : ~CommitVersion(w, x, u)) => newest' = newest
    BY DEF WorkerStep, StartCommand, SaveContent, SaveVector, ReadRevision, FailIndexing,
           EndCommand, TellIndexing, TellSubmission, FailToTell, Die, table
  <2>3. QED
    BY <1>4, <2>1, <2>2
<1>6. ASSUME NEW v \in 1..newest'[d]
      PROVE  v \in 1..newest[d] \/ (v = newest[d] + 1 /\ newest'[d] = newest[d] + 1)
  BY <1>2, <1>5, TrailAssumption
<1>7. ASSUME ~Flawed(d, "submission")', NEW v \in 1..newest'[d]
      PROVE  \/ \E o \in Workers : Doc(o)' = d /\ job'[o].version = v
             \/ \E i \in DOMAIN trail' : Tells(i, d, v)'
  <2>1. CASE v \in 1..newest[d]
    BY <1>3, <1>7, <2>1
  <2>2. CASE v = newest[d] + 1 /\ newest'[d] = newest[d] + 1
    <3>1. newest[d] \in Nat
      BY <1>2, TrailAssumption
    <3>2. Doc(w)' = d /\ job'[w].version = v
      BY <1>5, <2>2, <3>1
    <3>3. QED
      BY <3>2
  <2>3. QED
    BY <1>6, <2>1, <2>2
<1>8. QED
  BY <1>7 DEF ToldOf

LEMMA TrailInvInit == TrailInit => TrailInv
<1> SUFFICES ASSUME TrailInit PROVE TrailInv
  OBVIOUS
<1> USE TrailAssumption
<1>1. TrailTypeOK
  BY DEF TrailInit, TrailTypeOK
<1>2. RowsAreOfTheTrail /\ JobsAreInStep
  BY DEF TrailInit, RowsAreOfTheTrail, JobsAreInStep
<1>3. \A d \in Documents : newest[d] = 0 /\ index[d].revision = 0 /\ index[d].vector = -1
  BY DEF TrailInit
<1>4. IndexCatchesUp /\ VectorIsOfContent /\ SubmissionsAreTold
  BY <1>3 DEF IndexCatchesUp, CatchesUp, VectorIsOfContent, VectorFits, SubmissionsAreTold
<1>5. QED
  BY <1>1, <1>2, <1>4 DEF TrailInv

\* Nothing to tell is forgotten by a step of no worker.
LEMMA ToldKept ==
    ASSUME TrailInv, [TrailNext]_trailVars, UNCHANGED <<newest, flaws, job>>
    PROVE  SubmissionsAreTold'
<1>1. ASSUME NEW d \in Documents, ~Flawed(d, "submission")', NEW v \in 1..newest'[d]
      PROVE  \/ \E w \in Workers : Doc(w)' = d /\ job'[w].version = v
             \/ \E i \in DOMAIN trail' : Tells(i, d, v)'
  <2>1. \/ \E w \in Workers : Doc(w) = d /\ job[w].version = v
        \/ \E i \in DOMAIN trail : Tells(i, d, v)
    BY <1>1 DEF TrailInv, SubmissionsAreTold, Flawed
  <2>2. \A i \in DOMAIN trail : Tells(i, d, v) => i \in DOMAIN trail' /\ Tells(i, d, v)'
    BY ToldRemains DEF TrailInv
  <2>3. QED
    BY <2>1, <2>2 DEF Doc
<1>2. QED
  BY <1>1 DEF SubmissionsAreTold

LEMMA ErasureStep ==
    ASSUME TrailInv, NEW u \in People, EraseAccount(u)
    PROVE  TrailInv'
<1>1. TrailTypeOK' /\ RowsAreOfTheTrail'
  BY ErasureType DEF TrailInv
<1>2. UNCHANGED <<newest, index, flaws, step, job>>
  BY DEF EraseAccount
<1>3. JobsAreInStep' /\ IndexCatchesUp' /\ VectorIsOfContent'
  BY <1>2 DEF TrailInv, JobsAreInStep, JobInStep, IndexCatchesUp, CatchesUp,
     VectorIsOfContent, VectorFits, Reading, Flawed, At, Doc
<1>4. SubmissionsAreTold'
  BY <1>2, ToldKept DEF TrailNext
<1>5. QED
  BY <1>1, <1>3, <1>4 DEF TrailInv

LEMMA TrailInvStep == TrailInv /\ [TrailNext]_trailVars => TrailInv'
<1> SUFFICES ASSUME TrailInv, [TrailNext]_trailVars PROVE TrailInv'
  OBVIOUS
<1>1. ASSUME NEW w \in Workers, WorkerStep(w)
      PROVE  TrailInv'
  <2>1. TrailTypeOK' /\ RowsAreOfTheTrail' /\ JobsAreInStep'
    BY <1>1, WorkerType, WorkerInStep DEF TrailInv
  <2>2. IndexCatchesUp'
    BY <1>1, WorkerCatchesUp DEF TrailInv, IndexCatchesUp
  <2>3. VectorIsOfContent'
    BY <1>1, WorkerVector DEF TrailInv, VectorIsOfContent
  <2>4. \A d \in Documents : ToldOf(d)
    BY DEF TrailInv, SubmissionsAreTold, ToldOf
  <2>5. \A d \in Documents : ToldOf(d)'
    BY <1>1, <2>4, WorkerTold DEF TrailInv
  <2>6. SubmissionsAreTold'
    BY <2>5 DEF SubmissionsAreTold, ToldOf
  <2>7. QED
    BY <2>1, <2>2, <2>3, <2>6 DEF TrailInv
<1>2. ASSUME NEW u \in People, EraseAccount(u)
      PROVE  TrailInv'
  BY <1>2, ErasureStep
<1>3. CASE UNCHANGED trailVars
  <2>1. UNCHANGED <<newest, index, trail, erased, flaws, step, job>>
    BY <1>3 DEF trailVars
  <2>2. TrailTypeOK' /\ RowsAreOfTheTrail'
    BY <2>1 DEF TrailInv, TrailTypeOK, RowsAreOfTheTrail
  <2>3. JobsAreInStep'
    BY <2>1 DEF TrailInv, JobsAreInStep, JobInStep, Flawed, At
  <2>4. IndexCatchesUp' /\ VectorIsOfContent'
    BY <2>1 DEF TrailInv, IndexCatchesUp, CatchesUp, VectorIsOfContent, VectorFits,
                Reading, Flawed, At, Doc
  <2>5. SubmissionsAreTold'
    BY <2>1, ToldKept
  <2>6. QED
    BY <2>2, <2>3, <2>4, <2>5 DEF TrailInv
<1>4. QED
  BY <1>1, <1>2, <1>3 DEF TrailNext, WorkerStep

\* What the runs, the rows and the jobs keep true, for every number of them.
THEOREM TrailInvariantHolds == TrailSpec => []TrailInv
BY TrailInvInit, TrailInvStep, PTL DEF TrailSpec

\* The index keeps up with the newest revision of every document, however the
\* runs of requests and commands interleave, unless one failed or two overlapped.
THEOREM IndexKeptUp == TrailSpec => []IndexKeepsUp
<1>1. TrailInv => IndexKeepsUp
  BY DEF TrailInv, IndexCatchesUp, CatchesUp, IndexKeepsUp, Quiet, Reading
<1>2. QED
  BY <1>1, TrailInvariantHolds, PTL

\* The search vector is of the text that is shown.
THEOREM VectorHolds == TrailSpec => []VectorIsOfContent
<1>1. TrailInv => VectorIsOfContent
  BY DEF TrailInv
<1>2. QED
  BY <1>1, TrailInvariantHolds, PTL

\* The tests of describe_entry come one after the other, and the first that
\* holds decides.
LEMMA EighteenTests == \A r : DOMAIN Descriptions(r) = 1..18
BY DEF Descriptions

\* Of a row that is no upload, duplicate, classification or indexing.
LEMMA EarlierTests ==
    ASSUME NEW r,
           r.action \notin {"DOC_UPLOAD_SUCCESS", "DOC_UPLOAD_DUPLICATE"},
           r.event \notin {"AI_CLASSIFICATION", "CONTENT_INDEXED"}
    PROVE  \A j \in 1..8 : ~Descriptions(r)[j][1]
<1>1. ~Descriptions(r)[1][1] /\ ~Descriptions(r)[2][1]
  BY DEF Descriptions
<1>2. ~Descriptions(r)[3][1] /\ ~Descriptions(r)[4][1]
  BY DEF Descriptions
<1>3. ~Descriptions(r)[5][1] /\ ~Descriptions(r)[6][1]
  BY DEF Descriptions
<1>4. ~Descriptions(r)[7][1] /\ ~Descriptions(r)[8][1]
  BY DEF Descriptions
<1>5. \A j \in 1..8 : j \in {1, 2, 3, 4, 5, 6, 7, 8}
  OBVIOUS
<1>6. QED
  BY <1>1, <1>2, <1>3, <1>4, <1>5

LEMMA FirstTestIsTheEvent ==
    ASSUME NEW r, NEW n \in 1..18,
           Descriptions(r)[n][1], \A j \in 1..n - 1 : ~Descriptions(r)[j][1]
    PROVE  Describe(r).event = Descriptions(r)[n][3]
<1> DEFINE First(i) == Descriptions(r)[i][1] /\ \A j \in 1..i - 1 : ~Descriptions(r)[j][1]
           first == CHOOSE i \in DOMAIN Descriptions(r) : First(i)
<1>1. ASSUME NEW i \in DOMAIN Descriptions(r), First(i)
      PROVE  i = n
  <2>1. i \in 1..18
    BY EighteenTests
  <2>2. ~(n < i)
    BY <1>1, <2>1
  <2>3. ~(i < n)
    BY <1>1, <2>1
  <2>4. QED
    BY <2>1, <2>2, <2>3
<1>2. First(n)
  OBVIOUS
<1>3. first = n
  BY <1>1, <1>2, EighteenTests, Zenon
<1>4. Describe(r).event = Descriptions(r)[first][3]
  BY DEF Describe
<1>5. QED
  BY <1>3, <1>4

\* What the manager reads of the two kinds of submission.
LEMMA SubmissionDescribed ==
    ASSUME NEW r, r.event = NoKey
    PROVE  /\ r.action = "DOC_SUBMIT_SUCCESS" => Describe(r).event = "DOCUMENT_REGISTERED"
           /\ r.action = "DOC_REVISION_CREATED" => Describe(r).event = "REVISION_SUBMITTED"
<1>1. ASSUME r.action \in {"DOC_SUBMIT_SUCCESS", "DOC_REVISION_CREATED"}
      PROVE  \A j \in 1..8 : ~Descriptions(r)[j][1]
  <2>1. r.event \notin {"AI_CLASSIFICATION", "CONTENT_INDEXED"}
    BY TrailAssumption, FeedAssumption
  <2>2. r.action \notin {"DOC_UPLOAD_SUCCESS", "DOC_UPLOAD_DUPLICATE"}
    BY <1>1
  <2>3. QED
    BY <2>1, <2>2, EarlierTests
<1>2. ASSUME r.action = "DOC_SUBMIT_SUCCESS"
      PROVE  Describe(r).event = "DOCUMENT_REGISTERED"
  <2>1. Descriptions(r)[9][1]
    BY <1>2 DEF Descriptions
  <2>2. Descriptions(r)[9][3] = "DOCUMENT_REGISTERED"
    BY DEF Descriptions
  <2>3. \A j \in 1..9 - 1 : ~Descriptions(r)[j][1]
    BY <1>1, <1>2
  <2>4. QED
    BY <2>1, <2>2, <2>3, FirstTestIsTheEvent
<1>3. ASSUME r.action = "DOC_REVISION_CREATED"
      PROVE  Describe(r).event = "REVISION_SUBMITTED"
  <2>1. Descriptions(r)[10][1]
    BY <1>3 DEF Descriptions
  <2>2. Descriptions(r)[10][3] = "REVISION_SUBMITTED"
    BY DEF Descriptions
  <2>3. ~Descriptions(r)[9][1]
    BY <1>3 DEF Descriptions
  <2>4. \A j \in 1..10 - 1 : ~Descriptions(r)[j][1]
    BY <1>1, <1>3, <2>3
  <2>5. QED
    BY <2>1, <2>2, <2>4, FirstTestIsTheEvent
<1>4. QED
  BY <1>2, <1>3

\* A row that tells a version is in the feed of each area of the document.
LEMMA ToldIsShown ==
    ASSUME TrailInv, NEW d \in Documents, NEW v \in Nat \ {0}, NEW area \in AreasOfDocument[d],
           NEW i \in DOMAIN trail, Tells(i, d, v)
    PROVE  /\ i \in Feed(area) /\ trail[i].id = d
           /\ Describe(trail[i]).event =
                IF v = 1 THEN "DOCUMENT_REGISTERED" ELSE "REVISION_SUBMITTED"
           /\ trail[i].version = v \/ (v = 1 /\ Flawed(d, "revised_early"))
<1>1. PICK r \in TrailRows(Actors) : r = trail[i]
  BY DEF TrailInv, RowsAreOfTheTrail, Actors
<1>2. /\ r.id = d /\ r.entity = "document"
      /\ r.action = IF v = 1 THEN "DOC_SUBMIT_SUCCESS" ELSE "DOC_REVISION_CREATED"
  BY <1>1, RowFacts DEF Tells
<1>3. r.event = NoKey
  <2>1. ASSUME NEW e \in Documents, NEW u \in Actors, NEW s \in {"SUCCESS", "FAILURE"},
               NEW x \in 0..LastVersion
        PROVE  r # Indexed(e, u, s, x)
    <3>1. Indexed(e, u, s, x).action = "UPDATE"
      BY IndexedRow DEF TrailRow
    <3>2. QED
      BY <1>2, <3>1
  <2>2. \A e, u, x : Submitted(e, u, x).event = NoKey /\ RevisionCreated(e, u, x).event = NoKey
    BY SubmittedRow, CreatedRow DEF TrailRow
  <2>3. QED
    BY <1>1, <2>1, <2>2 DEF TrailRows
<1>4. Describe(r).event = IF v = 1 THEN "DOCUMENT_REGISTERED" ELSE "REVISION_SUBMITTED"
  BY <1>2, <1>3, SubmissionDescribed
<1>5. TypesOf(r) # {}
  <2>1. IsUploadEvent(r) \/ IsRevisionEvent(r)
    BY <1>2 DEF IsUploadEvent, IsRevisionEvent
  <2>2. IsUploadEvent(r) => "UPLOAD" \in TypesOf(r)
    BY DEF TypesOf, EventTypes
  <2>3. IsRevisionEvent(r) => "REVISION" \in TypesOf(r)
    BY DEF TypesOf, EventTypes
  <2>4. QED
    BY <2>1, <2>2, <2>3
<1>6. InScope(r, area, AreasOfDocument[r.id], AreaOfPerson[r.user])
  BY <1>2, TrailAssumption DEF InScope
<1>7. i \in Feed(area)
  BY <1>1, <1>5, <1>6 DEF Feed
<1>8. QED
  BY <1>1, <1>2, <1>4, <1>7 DEF Tells

\* Every committed version is an event of the feed of each of its areas, unless
\* its row could not be written.
THEOREM SubmissionsShown == TrailSpec => []SubmissionsAreShown
<1>1. TrailInv => SubmissionsAreShown
  <2>1. SUFFICES ASSUME TrailInv, NEW d \in Documents, Quiet(d), ~Flawed(d, "submission"),
                        NEW v \in 1..newest[d], NEW area \in AreasOfDocument[d]
                 PROVE  \E i \in Feed(area) :
                          /\ trail[i].id = d
                          /\ Describe(trail[i]).event =
                               IF v = 1 THEN "DOCUMENT_REGISTERED" ELSE "REVISION_SUBMITTED"
                          /\ trail[i].version = v \/ (v = 1 /\ Flawed(d, "revised_early"))
    BY DEF SubmissionsAreShown
  <2>2. v \in Nat \ {0}
    BY TrailAssumption DEF TrailInv, TrailTypeOK
  <2>3. PICK i \in DOMAIN trail : Tells(i, d, v)
    BY <2>1 DEF TrailInv, SubmissionsAreTold, Quiet
  <2>4. /\ i \in Feed(area) /\ trail[i].id = d
        /\ Describe(trail[i]).event =
             IF v = 1 THEN "DOCUMENT_REGISTERED" ELSE "REVISION_SUBMITTED"
        /\ trail[i].version = v \/ (v = 1 /\ Flawed(d, "revised_early"))
    BY <2>1, <2>2, <2>3, ToldIsShown
  <2>5. QED
    BY <2>4
<1>2. QED
  BY <1>1, TrailInvariantHolds, PTL

LEMMA EventsStep ==
    ASSUME TrailInv, [TrailNext]_trailVars
    PROVE  /\ Len(trail') >= Len(trail)
           /\ \A i \in DOMAIN trail :
                trail'[i] \in {trail[i], [trail[i] EXCEPT !.user = NoKey]}
<1>1. Len(trail) \in Nat
  BY DEF TrailInv, RowsAreOfTheTrail
<1>2. ASSUME NEW w \in Workers, TellIndexing(w) \/ TellSubmission(w)
      PROVE  Len(trail') >= Len(trail) /\ \A i \in DOMAIN trail : trail'[i] = trail[i]
  <2>1. PICK row \in TrailRows(Actors) : Log(w, row)
    BY <1>2, IndexingIsTold, SubmissionIsTold DEF TrailInv
  <2>2. erased' = erased
    BY <1>2 DEF TellIndexing, TellSubmission, table
  <2>3. Len(trail') = Len(trail) + 1 /\ \A i \in DOMAIN trail : trail'[i] = trail[i]
    BY <2>1, <2>2, LoggedRow DEF TrailInv
  <2>4. QED
    BY <1>1, <2>3
<1>3. ASSUME NEW u \in People, EraseAccount(u)
      PROVE  /\ Len(trail') >= Len(trail)
             /\ \A i \in DOMAIN trail :
                  trail'[i] \in {trail[i], [trail[i] EXCEPT !.user = NoKey]}
  <2>1. /\ Len(trail') = Len(trail)
        /\ \A i \in DOMAIN trail :
             trail'[i] = IF trail[i].user = u THEN [trail[i] EXCEPT !.user = NoKey]
                         ELSE trail[i]
    BY <1>3, ErasedRows DEF TrailInv
  <2>2. ASSUME NEW i \in DOMAIN trail
        PROVE  trail'[i] = trail[i] \/ trail'[i] = [trail[i] EXCEPT !.user = NoKey]
    BY <2>1
  <2>3. Len(trail') >= Len(trail)
    BY <1>1, <2>1
  <2>4. QED
    BY <2>2, <2>3, Zenon
<1>4. ASSUME ~(\E w \in Workers : TellIndexing(w) \/ TellSubmission(w)),
             ~(\E u \in People : EraseAccount(u))
      PROVE  trail' = trail
  BY <1>4 DEF TrailNext, StartCommand, CommitVersion, ReadRevision, SaveContent, SaveVector,
     FailIndexing, EndCommand, FailToTell, Die, table, trailVars
<1>5. CASE trail' = trail
  BY <1>1, <1>5
<1>6. QED
  BY <1>2, <1>3, <1>4, <1>5

\* No event is lost, and none is rewritten but for the account it refers to.
THEOREM EventsKept == TrailSpec => EventsAreKept
<1>1. TrailInv /\ [TrailNext]_trailVars =>
        [/\ Len(trail') >= Len(trail)
         /\ \A i \in DOMAIN trail :
              trail'[i] \in {trail[i], [trail[i] EXCEPT !.user = NoKey]}]_trailVars
  BY EventsStep
<1>2. QED
  BY <1>1, TrailInvariantHolds, PTL DEF TrailSpec, EventsAreKept
================================================================================
