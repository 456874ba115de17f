-------------------------- MODULE DocumentRegistration -------------------------
(***************************************************************************)
(* From uploaded file to filed document: the temporary upload              *)
(* (store_uploaded_file), the registration of a document with its first    *)
(* version (create_document) and of a further version                      *)
(* (create_document_revision).                                             *)
(*                                                                         *)
(* A registration writes to three places that know nothing of each other:  *)
(* PostgreSQL, where its rows become visible at the commit or never; the   *)
(* file system, where moving a temporary file to the storage takes effect  *)
(* at once and is never undone; and MongoDB, which holds a record of each  *)
(* upload.  Requests run concurrently; a step is one stretch of code       *)
(* between two accesses that can meet those of another request.            *)
(*                                                                         *)
(* A version of a document is the key <<p, n, v>>: project, sequence in    *)
(* its code, version.  The code also names a discipline and a document     *)
(* type; here each project has one of both.  Whether the document may be   *)
(* revised at all is the matter of RevisionLifecycle.                      *)
(***************************************************************************)
EXTENDS Integers, Sequences

CONSTANTS
    Projects,
    Uploads,            \* the ids (UUIDs) given to temporary files
    Contents,           \* what a file can contain, up to its SHA-256
    Workers,            \* the requests the server runs at the same time
    MaxSequence,        \* the largest sequence a code has room for
    MaxVersion,         \* the largest version its column has room for
    MaxFiles,           \* bound: files of a version
    CodeAttempts,       \* CODE_GENERATION_ATTEMPTS
    Faults,             \* whether requests may die half-way
    Nothing             \* no content, no upload

ASSUME ConstantsAssumption ==
    /\ {MaxSequence, MaxVersion, MaxFiles, CodeAttempts} \subseteq Nat \ {0}
    /\ Faults \in BOOLEAN
    /\ Nothing \notin Uploads \cup Contents

Keys == Projects \X (1..MaxSequence) \X (1..MaxVersion)
Packages == UNION {[1..n -> Uploads] : n \in 1..MaxFiles}

\* Faulty variants: the position or the version is not part of the name.
PathOfVersion(key, i) == <<key, 1>>
PathOfDocument(key, i) == <<<<key[1], key[2], 1>>, i>>

\* storage_path_for: code, version and position (the extension left out).
PathOf(key, i) == <<key, i>>
Paths == {PathOf(key, i) : key \in Keys, i \in 1..MaxFiles}

VARIABLES
    content,        \* content[t]: the bytes uploaded under id t
    temp,           \* the uploads whose file is in the temporary directory
    records,        \* the uploads with a record in MongoDB
    storage,        \* storage[x]: the upload whose bytes are at path x
    package,        \* package[k]: the uploads of the committed version k
    pc,             \* pc[w]: where the request of worker w stands
    request,        \* request[w]: its arguments and the number it is after
    pos,            \* pos[w]: how many of its files are resolved, then stored
    attempts        \* attempts[w]: how many codes it has tried

tables == package
files == <<content, temp, records, storage>>
local == <<pc, request, pos, attempts>>
vars == <<content, temp, records, storage, package, pc, request, pos, attempts>>

None == [project |-> Nothing, sequence |-> 0, version |-> 0, files |-> <<>>]
KeyOf(w) == <<request[w].project, request[w].sequence, request[w].version>>
NextFile(w) == request[w].files[pos[w] + 1]
AllFiles(w) == pos[w] = Len(request[w].files)

\* A first version is known by its number; that of a revision is read later.
IsRevision(w) == request[w].version # 1

Registered(p, n) == package[<<p, n, 1>>] # <<>>

Steps == {"idle", "resolving", "numbering", "inserting", "storing", "discarding"}

TypeOK ==
    /\ content \in [Uploads -> Contents \cup {Nothing}]
    /\ temp \subseteq Uploads
    /\ records \subseteq Uploads
    /\ storage \in [Paths -> Uploads \cup {Nothing}]
    /\ package \in [Keys -> Packages \cup {<<>>}]
    /\ pc \in [Workers -> Steps]
    /\ request \in [Workers ->
         [project : Projects, sequence : 0..MaxSequence,
          version : 0..MaxVersion, files : Packages] \cup {None}]
    /\ pos \in [Workers -> 0..MaxFiles]
    /\ attempts \in [Workers -> 0..CodeAttempts]
    /\ \A w \in Workers :
         /\ pc[w] # "idle" => request[w].files \in Packages
         /\ pc[w] \in {"inserting", "storing", "discarding"} => KeyOf(w) \in Keys
         /\ pos[w] <= Len(request[w].files)

Init ==
    /\ content = [t \in Uploads |-> Nothing]
    /\ temp = {}
    /\ records = {}
    /\ storage = [x \in Paths |-> Nothing]
    /\ package = [k \in Keys |-> <<>>]
    /\ pc = [w \in Workers |-> "idle"]
    /\ request = [w \in Workers |-> None]
    /\ pos = [w \in Workers |-> 0]
    /\ attempts = [w \in Workers |-> 0]
--------------------------------------------------------------------------------
\* The answer: the request is over, and its transaction with it.
End(w) ==
    /\ pc' = [pc EXCEPT ![w] = "idle"]
    /\ request' = [request EXCEPT ![w] = None]
    /\ pos' = [pos EXCEPT ![w] = 0]
    /\ attempts' = [attempts EXCEPT ![w] = 0]

\* An exception, a lost connection or a killed worker, at any point: what the
\* transaction wrote is gone, what was done to files is not.
Fail(w) ==
    /\ Faults
    /\ pc[w] # "idle"
    /\ End(w)
    /\ UNCHANGED <<tables, files>>

\* The file is written first; the record may fail to follow.
StoreUpload(t, c) ==
    /\ content[t] = Nothing
    /\ content' = [content EXCEPT ![t] = c]
    /\ temp' = temp \cup {t}
    /\ records' \in {records, records \cup {t}}
    /\ UNCHANGED <<storage, tables, local>>

StartDocument(w, p, f) ==
    /\ pc[w] = "idle"
    /\ pc' = [pc EXCEPT ![w] = "resolving"]
    /\ request' = [request EXCEPT ![w] =
         [project |-> p, sequence |-> 0, version |-> 1, files |-> f]]
    /\ UNCHANGED <<tables, files, pos, attempts>>

StartRevision(w, p, n, f) ==
    /\ pc[w] = "idle"
    /\ Registered(p, n)
    /\ pc' = [pc EXCEPT ![w] = "resolving"]
    /\ request' = [request EXCEPT ![w] =
         [project |-> p, sequence |-> n, version |-> 0, files |-> f]]
    /\ UNCHANGED <<tables, files, pos, attempts>>
--------------------------------------------------------------------------------
\* The same bytes are already filed: in the project, for a new document; in
\* any project, for a revision.  An unlocked read.
AlreadyFiled(w, t) ==
    \E k \in Keys :
        /\ IsRevision(w) \/ k[1] = request[w].project
        /\ \E i \in DOMAIN package[k] : content[package[k][i]] = content[t]

\* Only create_document_revision compares the files of a package.
Repeated(w, t) ==
    /\ IsRevision(w)
    /\ \E i \in 1..pos[w] : content[request[w].files[i]] = content[t]

Resolve(w) ==
    /\ pc[w] = "resolving"
    /\ ~AllFiles(w)
    /\ NextFile(w) \in temp
    /\ ~AlreadyFiled(w, NextFile(w))
    /\ ~Repeated(w, NextFile(w))
    /\ pos' = [pos EXCEPT ![w] = @ + 1]
    /\ UNCHANGED <<tables, files, pc, request, attempts>>

RefuseFile(w) ==
    /\ pc[w] = "resolving"
    /\ ~AllFiles(w)
    /\ \/ NextFile(w) \notin temp
       \/ AlreadyFiled(w, NextFile(w))
       \/ Repeated(w, NextFile(w))
    /\ End(w)
    /\ UNCHANGED <<tables, files>>

Resolved(w) ==
    /\ pc[w] = "resolving"
    /\ AllFiles(w)
    /\ pc' = [pc EXCEPT ![w] = "numbering"]
    /\ pos' = [pos EXCEPT ![w] = 0]
    /\ UNCHANGED <<tables, files, request, attempts>>
--------------------------------------------------------------------------------
\* The highest number among those committed, or 0; never blocks.
IsHighest(n, used) == (n = 0 \/ n \in used) /\ \A x \in used : x <= n

SequencesOf(p) == {n \in 1..MaxSequence : Registered(p, n)}
VersionsOf(p, n) == {v \in 1..MaxVersion : package[<<p, n, v>>] # <<>>}

\* next_sequence, inside the transaction: each attempt sees what other
\* transactions have committed since.
ReadSequence(w) ==
    /\ pc[w] = "numbering"
    /\ ~IsRevision(w)
    /\ \E n \in 0..MaxSequence - 1 :
         /\ IsHighest(n, SequencesOf(request[w].project))
         /\ request' = [request EXCEPT ![w].sequence = n + 1]
    /\ attempts' = [attempts EXCEPT ![w] = @ + 1]
    /\ pc' = [pc EXCEPT ![w] = "inserting"]
    /\ UNCHANGED <<tables, files, pos>>

ReadVersion(w) ==
    /\ pc[w] = "numbering"
    /\ IsRevision(w)
    /\ \E v \in 0..MaxVersion - 1 :
         /\ IsHighest(v, VersionsOf(request[w].project, request[w].sequence))
         /\ request' = [request EXCEPT ![w].version = v + 1]
    /\ pc' = [pc EXCEPT ![w] = "inserting"]
    /\ UNCHANGED <<tables, files, pos, attempts>>

\* The next number does not fit its column: DataError.
RefuseOverflow(w) ==
    LET r == request[w]
    IN  /\ pc[w] = "numbering"
        /\ IF IsRevision(w) THEN MaxVersion \in VersionsOf(r.project, r.sequence)
                            ELSE MaxSequence \in SequencesOf(r.project)
        /\ End(w)
        /\ UNCHANGED <<tables, files>>

\* Another transaction has inserted the same code, or the same version, and
\* is not over: the unique index makes this one wait.
InFlight(w) ==
    \E o \in Workers \ {w} : pc[o] = "storing" /\ KeyOf(o) = KeyOf(w)

Taken(w) == package[KeyOf(w)] # <<>>

\* Faulty variant: the records go before anything is filed.
InsertAndDiscard(w) ==
    /\ pc[w] = "inserting"
    /\ ~InFlight(w)
    /\ ~Taken(w)
    /\ records' = records \ {request[w].files[i] : i \in DOMAIN request[w].files}
    /\ pc' = [pc EXCEPT ![w] = "storing"]
    /\ UNCHANGED <<tables, content, temp, storage, request, pos, attempts>>

Insert(w) ==
    /\ pc[w] = "inserting"
    /\ ~InFlight(w)
    /\ ~Taken(w)
    /\ pc' = [pc EXCEPT ![w] = "storing"]
    /\ UNCHANGED <<tables, files, request, pos, attempts>>

\* Faulty variant: the next attempt takes the same code.
RetrySameCode(w) ==
    /\ pc[w] = "inserting"
    /\ ~InFlight(w)
    /\ Taken(w)
    /\ ~IsRevision(w)
    /\ attempts[w] < CodeAttempts
    /\ attempts' = [attempts EXCEPT ![w] = @ + 1]
    /\ UNCHANGED <<tables, files, pc, request, pos>>

\* The savepoint of the attempt is rolled back, the transaction goes on.
RetryCode(w) ==
    /\ pc[w] = "inserting"
    /\ ~InFlight(w)
    /\ Taken(w)
    /\ ~IsRevision(w)
    /\ attempts[w] < CodeAttempts
    /\ pc' = [pc EXCEPT ![w] = "numbering"]
    /\ UNCHANGED <<tables, files, request, pos, attempts>>

\* DocumentCodeCollisionError, or IntegrityError for a revision.
RefuseNumber(w) ==
    /\ pc[w] = "inserting"
    /\ ~InFlight(w)
    /\ Taken(w)
    /\ IsRevision(w) \/ attempts[w] = CodeAttempts
    /\ End(w)
    /\ UNCHANGED <<tables, files>>
--------------------------------------------------------------------------------
\* uq_file_revision_sha256
AlreadyAttached(w, t) ==
    \E i \in 1..pos[w] : content[request[w].files[i]] = content[t]

\* Faulty variant: the file is copied and the temporary one left behind.
CopyFile(w) ==
    LET t == NextFile(w)
    IN  /\ pc[w] = "storing"
        /\ ~AllFiles(w)
        /\ ~AlreadyAttached(w, t)
        /\ t \in temp
        /\ storage' = [storage EXCEPT ![PathOf(KeyOf(w), pos[w] + 1)] = t]
        /\ pos' = [pos EXCEPT ![w] = @ + 1]
        /\ UNCHANGED <<tables, content, temp, records, pc, request, attempts>>

\* One file: its row, uncommitted, then the move, over whatever is there.
StoreFile(w) ==
    LET t == NextFile(w)
    IN  /\ pc[w] = "storing"
        /\ ~AllFiles(w)
        /\ ~AlreadyAttached(w, t)
        /\ t \in temp
        /\ storage' = [storage EXCEPT ![PathOf(KeyOf(w), pos[w] + 1)] = t]
        /\ temp' = temp \ {t}
        /\ pos' = [pos EXCEPT ![w] = @ + 1]
        /\ UNCHANGED <<tables, content, records, pc, request, attempts>>

\* Faulty variant: the failing move is tried again and again.
KeepStoring(w) ==
    /\ pc[w] = "storing"
    /\ ~AllFiles(w)
    /\ AlreadyAttached(w, NextFile(w)) \/ NextFile(w) \notin temp
    /\ UNCHANGED vars

\* IntegrityError, or DocumentStorageError when another request has moved it.
RefuseStoring(w) ==
    /\ pc[w] = "storing"
    /\ ~AllFiles(w)
    /\ AlreadyAttached(w, NextFile(w)) \/ NextFile(w) \notin temp
    /\ End(w)
    /\ UNCHANGED <<tables, files>>

Commit(w) ==
    /\ pc[w] = "storing"
    /\ AllFiles(w)
    /\ package' = [package EXCEPT ![KeyOf(w)] = request[w].files]
    /\ pc' = [pc EXCEPT ![w] = "discarding"]
    /\ UNCHANGED <<files, request, pos, attempts>>

\* After the commit; a failure is logged and leaves the record.
DiscardRecords(w) ==
    /\ pc[w] = "discarding"
    /\ \E d \in SUBSET {request[w].files[i] : i \in DOMAIN request[w].files} :
         records' = records \ d
    /\ End(w)
    /\ UNCHANGED <<tables, content, temp, storage>>
--------------------------------------------------------------------------------
Proceed(w) ==
    \/ Resolve(w) \/ RefuseFile(w) \/ Resolved(w)
    \/ ReadSequence(w) \/ ReadVersion(w) \/ RefuseOverflow(w)
    \/ Insert(w) \/ RetryCode(w) \/ RefuseNumber(w)
    \/ StoreFile(w) \/ RefuseStoring(w)
    \/ Commit(w) \/ DiscardRecords(w)

Start(w) ==
    \E p \in Projects, f \in Packages :
        \/ StartDocument(w, p, f)
        \/ \E n \in 1..MaxSequence : StartRevision(w, p, n, f)

Next ==
    \/ \E t \in Uploads, c \in Contents : StoreUpload(t, c)
    \/ \E w \in Workers : Start(w) \/ Proceed(w) \/ Fail(w)

Spec == Init /\ [][Next]_vars
FairSpec == Spec /\ \A w \in Workers : SF_vars(Proceed(w))
--------------------------------------------------------------------------------
\* Every committed file row has its bytes in the storage, unaltered: neither a
\* request that reuses the number of a failed one, nor a failed one that is
\* late, nor another file of the package has written over them.
FiledBytesAreThere ==
    \A k \in Keys : \A i \in DOMAIN package[k] :
        LET t == storage[PathOf(k, i)]
        IN  t # Nothing /\ content[t] = content[package[k][i]]

\* An upload ends up in one version at most, and there once: also when two
\* requests were sent with the same temporary file.
UploadFiledOnce ==
    \A k, x \in Keys : \A i \in DOMAIN package[k], j \in DOMAIN package[x] :
        package[k][i] = package[x][j] => k = x /\ i = j

\* Codes and versions have no gaps, however many registrations were rolled
\* back or collided: a free number is used by the next one.
NumbersContiguous ==
    \A p \in Projects, n \in 1..MaxSequence, v \in 1..MaxVersion :
        package[<<p, n, v>>] # <<>> =>
            /\ \A m \in 1..n : Registered(p, m)
            /\ \A y \in 1..v : package[<<p, n, y>>] # <<>>

\* While a request moves files, no other one can write to the same paths: the
\* number that names them is its own, and nobody has committed it.
PathsHaveOneWriter ==
    \A w \in Workers : pc[w] = "storing" =>
        /\ \A o \in Workers \ {w} : pc[o] = "storing" => KeyOf(o) # KeyOf(w)
        /\ package[KeyOf(w)] = <<>>

\* Each new attempt at a code tries a higher one, so a request gives up only
\* after that many other documents were registered in its project.
EachAttemptMovesOn ==
    \A w \in Workers :
        pc[w] = "inserting" /\ ~IsRevision(w) => request[w].sequence >= attempts[w]

\* The numbers of the requests and those of the tables fit together.
NumbersAreOwn == TypeOK /\ NumbersContiguous /\ PathsHaveOneWriter /\ EachAttemptMovesOn

\* What the steps keep true for the properties above to last.

\* The number of the request of w is the next one: those before it are committed.
NumberIsNext(w) ==
    LET r == request[w]
    IN  /\ pc[w] # "idle" /\ IsRevision(w) =>
             r.sequence \in 1..MaxSequence /\ Registered(r.project, r.sequence)
        /\ pc[w] \in {"inserting", "storing"} =>
             IF IsRevision(w)
             THEN \A v \in 1..r.version - 1 : package[<<r.project, r.sequence, v>>] # <<>>
             ELSE \A n \in 1..r.sequence - 1 : Registered(r.project, n)

\* Every attempt that was made has met a committed document.
AttemptsWereTaken(w) ==
    /\ pc[w] \in {"idle", "resolving"} => attempts[w] = 0
    /\ pc[w] = "numbering" /\ ~IsRevision(w) =>
         /\ attempts[w] < CodeAttempts
         /\ attempts[w] > 0 =>
              /\ request[w].sequence >= attempts[w]
              /\ Registered(request[w].project, request[w].sequence)

\* Both passes over the files begin with the first.
PassBeginsAtTheFirst(w) == pc[w] \in {"idle", "numbering", "inserting"} => pos[w] = 0

RequestsAreInStep ==
    \A w \in Workers : NumberIsNext(w) /\ AttemptsWereTaken(w) /\ PassBeginsAtTheFirst(w)

\* The bytes of upload t are at path x, and nowhere in the temporary directory.
Placed(t, x) == storage[x] = t /\ t \notin temp /\ content[t] # Nothing

MovedFilesArePlaced ==
    /\ \A t \in temp : content[t] # Nothing
    /\ \A k \in Keys : \A i \in DOMAIN package[k] : Placed(package[k][i], PathOf(k, i))
    /\ \A w \in Workers : pc[w] = "storing" =>
         \A i \in 1..pos[w] : Placed(request[w].files[i], PathOf(KeyOf(w), i))

\* What a request has moved is of no version and of no other request, and no two
\* of its files are alike.
MovedFilesAreOwn ==
    \A w \in Workers : pc[w] = "storing" => \A i \in 1..pos[w] :
        LET t == request[w].files[i]
        IN  /\ \A k \in Keys : \A j \in DOMAIN package[k] : package[k][j] # t
            /\ \A o \in Workers : pc[o] = "storing" => \A j \in 1..pos[o] :
                 request[o].files[j] = t => o = w /\ j = i
            /\ \A j \in 1..pos[w] : content[request[w].files[j]] = content[t] => j = i

\* The records go only after the commit.
DiscardedAreFiled ==
    \A w \in Workers : pc[w] = "discarding" => package[KeyOf(w)] = request[w].files

\* The invariant that carries the others from step to step.
IInv ==
    /\ NumbersAreOwn /\ RequestsAreInStep
    /\ FiledBytesAreThere /\ UploadFiledOnce
    /\ MovedFilesArePlaced /\ MovedFilesAreOwn /\ DiscardedAreFiled

\* A record of an upload is only removed once the upload is filed.
RecordsOutliveUploads ==
    [][\A t \in records \ records' :
         \E k \in Keys : \E i \in DOMAIN package[k] : package[k][i] = t]_vars

\* The archive the readers see: the bytes that are at the paths of the rows.
Filing == INSTANCE FilingRegister WITH
    filed <- [k \in Keys |-> [i \in DOMAIN package[k] |->
                                content[storage[PathOf(k, i)]]]]
ImplementsFiling == Filing!Spec

\* Every registration answers: nobody waits for a number for ever.
RegistrationsAnswer == \A w \in Workers : pc[w] # "idle" ~> pc[w] = "idle"

\* test_document_creation_service.py: "should roll back everything when the
\* file cannot be moved", where the temporary file still is in its place: an
\* upload is filed, or being filed, or can be tried again.  Not so when the
\* move of a later file of the package fails, even if nothing ever crashes.
UploadsAreNotLost ==
    \A t \in Uploads : content[t] # Nothing /\ t \notin temp =>
        \/ \E k \in Keys : \E i \in DOMAIN package[k] : package[k][i] = t
        \/ \E w \in Workers : pc[w] = "storing" /\
             \E i \in 1..pos[w] : request[w].files[i] = t
================================================================================
