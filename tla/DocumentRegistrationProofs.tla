---------------------- MODULE DocumentRegistrationProofs -----------------------
(***************************************************************************)
(* Machine-checked theorems about DocumentRegistration, for any projects,  *)
(* uploads, contents and number of requests at a time, and any width of    *)
(* the columns.                                                            *)
(***************************************************************************)
EXTENDS DocumentRegistration, TLAPS

USE ConstantsAssumption

\* A package has at least one file and its files are uploads.
LEMMA PackageFacts ==
    ASSUME NEW f \in Packages
    PROVE  /\ Len(f) \in 1..MaxFiles
           /\ DOMAIN f = 1..Len(f)
           /\ \A i \in 1..Len(f) : f[i] \in Uploads
           /\ f # <<>>
<1>1. PICK n \in 1..MaxFiles : f \in [1..n -> Uploads]
  BY DEF Packages
<1>2. f \in Seq(Uploads) /\ Len(f) = n /\ DOMAIN f = 1..n
  BY <1>1
<1>3. QED
  BY <1>1, <1>2

\* The arguments of a request under way.
Arguments == [project : Projects, sequence : 0..MaxSequence,
              version : 0..MaxVersion, files : Packages]

LEMMA RequestFacts ==
    ASSUME TypeOK, NEW w \in Workers, pc[w] # "idle"
    PROVE  /\ request[w] \in Arguments
           /\ Len(request[w].files) \in 1..MaxFiles
           /\ \A i \in 1..Len(request[w].files) : request[w].files[i] \in Uploads
<1>1. request[w].files \in Packages
  BY DEF TypeOK
<1>2. request[w] # None
  BY <1>1, PackageFacts DEF None
<1>3. QED
  BY <1>1, <1>2, PackageFacts DEF TypeOK, Arguments

\* A path names one file of one version.
LEMMA PathsDiffer ==
    ASSUME NEW k, NEW i, NEW x, NEW j
    PROVE  PathOf(k, i) = PathOf(x, j) <=> k = x /\ i = j
BY DEF PathOf

LEMMA PathIsPath ==
    ASSUME NEW k \in Keys, NEW i \in 1..MaxFiles
    PROVE  PathOf(k, i) \in Paths
BY DEF Paths

\* A version's rows are no rows or a package.
LEMMA FiledFacts ==
    ASSUME TypeOK, NEW k \in Keys, NEW i \in DOMAIN package[k]
    PROVE  i \in 1..MaxFiles /\ package[k][i] \in Uploads /\ package[k] \in Packages
<1>1. package[k] \in Packages \/ package[k] = <<>>
  BY DEF TypeOK
<1>2. CASE package[k] = <<>>
  BY <1>2
<1>3. CASE package[k] \in Packages
  BY <1>3, PackageFacts
<1>4. QED
  BY <1>1, <1>2, <1>3

\* What the answer to a request leaves of it.
LEMMA EndFacts ==
    ASSUME TypeOK, NEW w \in Workers, End(w)
    PROVE  /\ pc'[w] = "idle" /\ request'[w] = None /\ pos'[w] = 0 /\ attempts'[w] = 0
           /\ \A o \in Workers \ {w} :
                /\ pc'[o] = pc[o] /\ request'[o] = request[o]
                /\ pos'[o] = pos[o] /\ attempts'[o] = attempts[o]
           /\ pc' \in [Workers -> Steps]
           /\ request' \in [Workers -> Arguments \cup {None}]
           /\ pos' \in [Workers -> 0..MaxFiles]
           /\ attempts' \in [Workers -> 0..CodeAttempts]
BY DEF TypeOK, End, Steps, Arguments

LEMMA TypeInit == Init => TypeOK
BY DEF Init, TypeOK, Steps, None

\* One request goes on, and the others stay where they were.
OnlyMoves(w) ==
    \A o \in Workers \ {w} :
        /\ pc'[o] = pc[o] /\ request'[o] = request[o]
        /\ pos'[o] = pos[o] /\ attempts'[o] = attempts[o]

LEMMA StartType ==
    ASSUME IInv, NEW w \in Workers, Start(w)
    PROVE  TypeOK' /\ OnlyMoves(w) /\ pc[w] = "idle" /\ pc'[w] = "resolving"
<1> USE DEF IInv, NumbersAreOwn
<1>1. PICK p \in Projects, f \in Packages :
        StartDocument(w, p, f) \/ \E n \in 1..MaxSequence : StartRevision(w, p, n, f)
  BY DEF Start
<1>2. PICK r \in Arguments :
        /\ pc[w] = "idle" /\ pc' = [pc EXCEPT ![w] = "resolving"]
        /\ request' = [request EXCEPT ![w] = r]
        /\ r.files = f
        /\ UNCHANGED <<tables, files, pos, attempts>>
  <2>1. CASE StartDocument(w, p, f)
    <3>1. [project |-> p, sequence |-> 0, version |-> 1, files |-> f] \in Arguments
      BY DEF Arguments
    <3>2. QED
      BY <2>1, <3>1 DEF StartDocument
  <2>2. CASE \E n \in 1..MaxSequence : StartRevision(w, p, n, f)
    <3>1. PICK n \in 1..MaxSequence : StartRevision(w, p, n, f)
      BY <2>2
    <3>2. [project |-> p, sequence |-> n, version |-> 0, files |-> f] \in Arguments
      BY DEF Arguments
    <3>3. QED
      BY <3>1, <3>2 DEF StartRevision
  <2>3. QED
    BY <1>1, <2>1, <2>2
<1>3. pos[w] <= Len(r.files)
  <2>1. pos[w] = 0
    BY <1>2 DEF RequestsAreInStep, PassBeginsAtTheFirst
  <2>2. QED
    BY <1>2, <2>1, PackageFacts
<1>4. QED
  BY <1>2, <1>3 DEF TypeOK, OnlyMoves, tables, files, KeyOf, Steps, Arguments

\* What is left to show of the types when one request has moved.
LEMMA MoveType ==
    ASSUME TypeOK, NEW w \in Workers, OnlyMoves(w),
           content' \in [Uploads -> Contents \cup {Nothing}],
           temp' \subseteq Uploads, records' \subseteq Uploads,
           storage' \in [Paths -> Uploads \cup {Nothing}],
           package' \in [Keys -> Packages \cup {<<>>}],
           pc' \in [Workers -> Steps],
           request' \in [Workers -> Arguments \cup {None}],
           pos' \in [Workers -> 0..MaxFiles],
           attempts' \in [Workers -> 0..CodeAttempts],
           pc'[w] # "idle" => request'[w].files \in Packages,
           pc'[w] \in {"inserting", "storing", "discarding"} => KeyOf(w)' \in Keys,
           pos'[w] <= Len(request'[w].files)
    PROVE  TypeOK'
<1>1. ASSUME NEW o \in Workers
      PROVE  /\ pc'[o] # "idle" => request'[o].files \in Packages
             /\ pc'[o] \in {"inserting", "storing", "discarding"} => KeyOf(o)' \in Keys
             /\ pos'[o] <= Len(request'[o].files)
  <2>1. CASE o = w
    BY <2>1
  <2>2. CASE o # w
    BY <2>2 DEF TypeOK, OnlyMoves, KeyOf
  <2>3. QED
    BY <2>1, <2>2
<1>2. QED
  BY <1>1 DEF TypeOK, Arguments

LEMMA EndType ==
    ASSUME TypeOK, NEW w \in Workers, End(w),
           UNCHANGED <<content, temp, storage, package>>, records' \subseteq records
    PROVE  TypeOK' /\ OnlyMoves(w)
<1>1. OnlyMoves(w)
  BY EndFacts DEF OnlyMoves
<1>2. pos'[w] <= Len(request'[w].files)
  BY EndFacts DEF None
<1>3. /\ content' \in [Uploads -> Contents \cup {Nothing}]
      /\ temp' \subseteq Uploads /\ records' \subseteq Uploads
      /\ storage' \in [Paths -> Uploads \cup {Nothing}]
      /\ package' \in [Keys -> Packages \cup {<<>>}]
  BY DEF TypeOK
<1>4. TypeOK'
  BY <1>1, <1>2, <1>3, EndFacts, MoveType
<1>5. QED
  BY <1>1, <1>4

\* A pass over the files, and the answers of one that refuses.
LEMMA PassType ==
    ASSUME IInv, NEW w \in Workers,
           Resolve(w) \/ Resolved(w) \/ Insert(w) \/ StoreFile(w) \/ Commit(w)
    PROVE  TypeOK' /\ OnlyMoves(w)
<1> USE DEF IInv, NumbersAreOwn, tables, files
<1>1. /\ TypeOK
      /\ pc[w] # "idle"
      /\ request[w] \in Arguments /\ request[w].files \in Packages
      /\ Len(request[w].files) \in 1..MaxFiles
      /\ \A i \in 1..Len(request[w].files) : request[w].files[i] \in Uploads
      /\ pos[w] \in 0..Len(request[w].files)
      /\ pc[w] \in {"inserting", "storing"} => KeyOf(w) \in Keys
  <2>1. pc[w] # "idle"
    BY DEF Resolve, Resolved, Insert, StoreFile, Commit
  <2>2. request[w] \in Arguments /\ request[w].files \in Packages
    BY <2>1, RequestFacts DEF Arguments
  <2>3. pos[w] \in 0..Len(request[w].files)
    BY <2>1, RequestFacts DEF TypeOK
  <2>4. QED
    BY <2>1, <2>2, <2>3, RequestFacts DEF TypeOK
<1>2. OnlyMoves(w)
  BY <1>1 DEF OnlyMoves, TypeOK, Resolve, Resolved, Insert, StoreFile, Commit
<1>3. request'[w] = request[w] /\ KeyOf(w)' = KeyOf(w)
  BY <1>1 DEF TypeOK, KeyOf, Resolve, Resolved, Insert, StoreFile, Commit
<1>4. /\ pc' \in [Workers -> Steps]
      /\ request' \in [Workers -> Arguments \cup {None}]
      /\ attempts' \in [Workers -> 0..CodeAttempts]
      /\ content' \in [Uploads -> Contents \cup {Nothing}]
      /\ records' \subseteq Uploads
  BY DEF TypeOK, Arguments, Steps, Resolve, Resolved, Insert, StoreFile, Commit
<1>5. ASSUME ~AllFiles(w), pos' = [pos EXCEPT ![w] = @ + 1]
      PROVE  /\ pos[w] + 1 \in 1..Len(request[w].files) /\ pos[w] + 1 \in 1..MaxFiles
             /\ pos' \in [Workers -> 0..MaxFiles] /\ pos'[w] <= Len(request'[w].files)
  BY <1>1, <1>3, <1>5 DEF AllFiles, TypeOK
<1>6. CASE Resolve(w)
  <2>1. /\ UNCHANGED <<temp, storage, package>> /\ pc'[w] = "resolving"
        /\ ~AllFiles(w) /\ pos' = [pos EXCEPT ![w] = @ + 1]
    BY <1>6 DEF Resolve
  <2>2. QED
    BY <2>1, <1>1, <1>2, <1>3, <1>4, <1>5, MoveType DEF TypeOK
<1>7. CASE Resolved(w)
  <2>1. /\ UNCHANGED <<temp, storage, package>> /\ pc'[w] = "numbering"
        /\ pos' \in [Workers -> 0..MaxFiles] /\ pos'[w] = 0
    BY <1>7 DEF Resolved, TypeOK
  <2>2. pos'[w] <= Len(request'[w].files)
    BY <2>1, <1>1, <1>3
  <2>3. QED
    BY <2>1, <2>2, <1>1, <1>2, <1>3, <1>4, MoveType DEF TypeOK
<1>8. CASE Insert(w)
  <2>1. UNCHANGED <<temp, storage, package, pos>> /\ pc[w] = "inserting"
    BY <1>8 DEF Insert
  <2>2. QED
    BY <2>1, <1>1, <1>2, <1>3, <1>4, MoveType DEF TypeOK
<1>9. CASE StoreFile(w)
  <2>1. /\ ~AllFiles(w) /\ pos' = [pos EXCEPT ![w] = @ + 1]
        /\ pc[w] = "storing" /\ package' = package
    BY <1>9 DEF StoreFile
  <2>2. NextFile(w) \in Uploads /\ PathOf(KeyOf(w), pos[w] + 1) \in Paths
    BY <2>1, <1>1, <1>5, PathIsPath DEF NextFile
  <2>3. storage' \in [Paths -> Uploads \cup {Nothing}] /\ temp' \subseteq Uploads
    BY <1>9, <2>2 DEF TypeOK, StoreFile
  <2>4. QED
    BY <2>1, <2>3, <1>1, <1>2, <1>3, <1>4, <1>5, MoveType DEF TypeOK
<1>10. CASE Commit(w)
  <2>1. package' \in [Keys -> Packages \cup {<<>>}]
    BY <1>10, <1>1 DEF TypeOK, Commit
  <2>2. UNCHANGED <<temp, storage, pos>> /\ pc[w] = "storing"
    BY <1>10 DEF Commit
  <2>3. QED
    BY <2>1, <2>2, <1>1, <1>2, <1>3, <1>4, MoveType DEF TypeOK
<1>11. QED
  BY <1>2, <1>6, <1>7, <1>8, <1>9, <1>10

\* The highest committed number is of a committed version, with all before it.
LEMMA HighestVersion ==
    ASSUME TypeOK, NumbersContiguous, NEW p \in Projects, NEW n \in 1..MaxSequence,
           Registered(p, n), NEW v \in 0..MaxVersion - 1, IsHighest(v, VersionsOf(p, n))
    PROVE  /\ v \in 1..MaxVersion
           /\ package[<<p, n, v + 1>>] = <<>>
           /\ \A y \in 1..v : package[<<p, n, y>>] # <<>>
<1>1. 1 \in VersionsOf(p, n)
  BY DEF VersionsOf, Registered
<1>2. v \in VersionsOf(p, n)
  BY <1>1 DEF IsHighest, VersionsOf
<1>3. v + 1 \notin VersionsOf(p, n) /\ v + 1 \in 1..MaxVersion
  BY DEF IsHighest
<1>4. \A y \in 1..v : package[<<p, n, y>>] # <<>>
  BY <1>2 DEF NumbersContiguous, VersionsOf
<1>5. QED
  BY <1>2, <1>3, <1>4 DEF VersionsOf

LEMMA HighestSequence ==
    ASSUME TypeOK, NumbersContiguous, NEW p \in Projects,
           NEW n \in 0..MaxSequence - 1, IsHighest(n, SequencesOf(p))
    PROVE  /\ ~Registered(p, n + 1)
           /\ \A m \in 1..n : Registered(p, m)
           /\ \A m \in 1..MaxSequence : Registered(p, m) => m <= n
<1>1. \A m \in 1..MaxSequence : Registered(p, m) => m <= n
  BY DEF IsHighest, SequencesOf
<1>2. ~Registered(p, n + 1)
  BY <1>1
<1>3. \A m \in 1..n : Registered(p, m)
  <2>1. CASE n = 0
    BY <2>1
  <2>2. CASE n # 0
    BY <2>2 DEF IsHighest, SequencesOf, NumbersContiguous, Registered
  <2>3. QED
    BY <2>1, <2>2
<1>4. QED
  BY <1>1, <1>2, <1>3

\* The number is all that changes of a request that is numbered.
LEMMA NumberedArguments ==
    ASSUME NEW r \in Arguments
    PROVE  /\ \A n \in 0..MaxSequence :
                LET x == [r EXCEPT !.sequence = n]
                IN  /\ x \in Arguments /\ x.project = r.project /\ x.sequence = n
                    /\ x.version = r.version /\ x.files = r.files
           /\ \A v \in 0..MaxVersion :
                LET x == [r EXCEPT !.version = v]
                IN  /\ x \in Arguments /\ x.project = r.project
                    /\ x.sequence = r.sequence /\ x.version = v /\ x.files = r.files
BY DEF Arguments

\* Numbering a request, and taking up the next attempt.
LEMMA NumberingType ==
    ASSUME IInv, NEW w \in Workers, ReadSequence(w) \/ ReadVersion(w) \/ RetryCode(w)
    PROVE  TypeOK' /\ OnlyMoves(w)
<1> USE DEF IInv, NumbersAreOwn, tables, files
<1>1. /\ TypeOK /\ NumbersContiguous
      /\ pc[w] # "idle" /\ request[w] \in Arguments
      /\ UNCHANGED <<content, temp, records, storage, package, pos>>
  BY RequestFacts DEF ReadSequence, ReadVersion, RetryCode
<1>2. OnlyMoves(w)
  BY <1>1 DEF OnlyMoves, TypeOK, ReadSequence, ReadVersion, RetryCode
<1>3. CASE ReadSequence(w)
  <2>1. PICK n \in 0..MaxSequence - 1 :
          request' = [request EXCEPT ![w] = [request[w] EXCEPT !.sequence = n + 1]]
    BY <1>3 DEF ReadSequence
  <2>2. attempts' = [attempts EXCEPT ![w] = attempts[w] + 1]
        /\ attempts[w] + 1 \in 0..CodeAttempts
    BY <1>1, <1>3 DEF ReadSequence, RequestsAreInStep, AttemptsWereTaken, TypeOK
  <2>3. request'[w] = [request[w] EXCEPT !.sequence = n + 1]
    BY <1>1, <2>1 DEF TypeOK
  <2>4. /\ request'[w] \in Arguments
        /\ request'[w].files = request[w].files
        /\ request'[w].project \in Projects /\ request'[w].sequence = n + 1
        /\ request'[w].version = 1
    BY <1>1, <1>3, <2>3, NumberedArguments DEF Arguments, ReadSequence, IsRevision
  <2>5. KeyOf(w)' \in Keys
    BY <2>4 DEF KeyOf, Keys
  <2>6. /\ pc' \in [Workers -> Steps] /\ attempts' \in [Workers -> 0..CodeAttempts]
    BY <1>3, <1>1, <2>2 DEF TypeOK, ReadSequence, Steps
  <2>7. request' \in [Workers -> Arguments \cup {None}]
    BY <1>1, <2>1, <2>3, <2>4 DEF TypeOK, Arguments
  <2>8. QED
    BY <1>1, <1>2, <2>4, <2>5, <2>6, <2>7, MoveType DEF TypeOK
<1>4. CASE ReadVersion(w)
  <2>1. PICK v \in 0..MaxVersion - 1 :
          request' = [request EXCEPT ![w] = [request[w] EXCEPT !.version = v + 1]]
    BY <1>4 DEF ReadVersion
  <2>2. request[w].sequence \in 1..MaxSequence
    BY <1>4 DEF ReadVersion, RequestsAreInStep, NumberIsNext
  <2>3. request'[w] = [request[w] EXCEPT !.version = v + 1]
    BY <1>1, <2>1 DEF TypeOK
  <2>4. /\ request'[w] \in Arguments
        /\ request'[w].files = request[w].files
        /\ request'[w].project \in Projects
        /\ request'[w].sequence \in 1..MaxSequence
        /\ request'[w].version = v + 1
    BY <1>1, <2>2, <2>3, NumberedArguments DEF Arguments
  <2>5. KeyOf(w)' \in Keys
    BY <2>4 DEF KeyOf, Keys
  <2>6. /\ pc' \in [Workers -> Steps] /\ attempts' \in [Workers -> 0..CodeAttempts]
    BY <1>4, <1>1 DEF TypeOK, ReadVersion, Steps
  <2>7. request' \in [Workers -> Arguments \cup {None}]
    BY <1>1, <2>1, <2>3, <2>4 DEF TypeOK, Arguments
  <2>8. QED
    BY <1>1, <1>2, <2>4, <2>5, <2>6, <2>7, MoveType DEF TypeOK
<1>5. CASE RetryCode(w)
  <2>1. /\ pc' \in [Workers -> Steps] /\ pc'[w] = "numbering"
        /\ UNCHANGED <<request, attempts>>
    BY <1>5, <1>1 DEF TypeOK, RetryCode, Steps
  <2>2. QED
    BY <1>1, <1>2, <2>1, MoveType DEF TypeOK, Arguments
<1>6. QED
  BY <1>2, <1>3, <1>4, <1>5
--------------------------------------------------------------------------------
\* The invariant, one lemma for each kind of step.

LEMMA PlacedIsFiled == TypeOK /\ MovedFilesArePlaced => FiledBytesAreThere
<1> SUFFICES ASSUME TypeOK, MovedFilesArePlaced,
                    NEW k \in Keys, NEW i \in DOMAIN package[k]
             PROVE  LET t == storage[PathOf(k, i)]
                    IN  t # Nothing /\ content[t] = content[package[k][i]]
  BY DEF FiledBytesAreThere
<1>1. package[k][i] \in Uploads
  BY FiledFacts
<1>2. QED
  BY <1>1 DEF MovedFilesArePlaced, Placed

LEMMA InvInit == Init => IInv
<1> SUFFICES ASSUME Init PROVE IInv
  OBVIOUS
<1>1. TypeOK
  BY TypeInit
<1>2. NumbersContiguous /\ UploadFiledOnce
  BY DEF Init, NumbersContiguous, UploadFiledOnce, Keys
<1>3. PathsHaveOneWriter /\ EachAttemptMovesOn /\ RequestsAreInStep
  BY DEF Init, PathsHaveOneWriter, EachAttemptMovesOn, RequestsAreInStep,
         NumberIsNext, AttemptsWereTaken, PassBeginsAtTheFirst
<1>4. MovedFilesArePlaced /\ MovedFilesAreOwn /\ DiscardedAreFiled
  BY DEF Init, MovedFilesArePlaced, MovedFilesAreOwn, DiscardedAreFiled
<1>5. QED
  BY <1>1, <1>2, <1>3, <1>4, PlacedIsFiled DEF IInv, NumbersAreOwn

\* What the other requests may rely on while one moves and nothing is committed.
LEMMA OthersInStep ==
    ASSUME IInv, NEW w \in Workers, OnlyMoves(w), package' = package,
           NEW o \in Workers, o # w
    PROVE  /\ NumberIsNext(o)' /\ AttemptsWereTaken(o)' /\ PassBeginsAtTheFirst(o)'
           /\ pc'[o] = "inserting" /\ ~IsRevision(o)' => request'[o].sequence >= attempts'[o]
           /\ KeyOf(o)' = KeyOf(o)
BY DEF IInv, NumbersAreOwn, EachAttemptMovesOn, RequestsAreInStep, OnlyMoves,
       NumberIsNext, AttemptsWereTaken, PassBeginsAtTheFirst, IsRevision, Registered,
       KeyOf

\* A request that moves no file, commits nothing and is in step keeps the invariant.
LEMMA QuietStep ==
    ASSUME IInv, TypeOK', NEW w \in Workers, OnlyMoves(w),
           UNCHANGED <<content, temp, storage, package>>,
           pc'[w] \notin {"storing", "discarding"},
           NumberIsNext(w)', AttemptsWereTaken(w)', PassBeginsAtTheFirst(w)',
           pc'[w] = "inserting" /\ ~IsRevision(w)' => request'[w].sequence >= attempts'[w]
    PROVE  IInv'
<1> USE DEF IInv, NumbersAreOwn
<1>1. NumbersContiguous' /\ UploadFiledOnce'
  BY DEF NumbersContiguous, Registered, UploadFiledOnce
<1>2. \A o \in Workers \ {w} : KeyOf(o)' = KeyOf(o)
  BY OthersInStep
<1>3. PathsHaveOneWriter'
  BY <1>2 DEF PathsHaveOneWriter, OnlyMoves
<1>4. EachAttemptMovesOn' /\ RequestsAreInStep'
  BY OthersInStep DEF EachAttemptMovesOn, RequestsAreInStep
<1>5. MovedFilesArePlaced'
  BY <1>2 DEF MovedFilesArePlaced, Placed, OnlyMoves
<1>6. MovedFilesAreOwn'
  BY DEF MovedFilesAreOwn, OnlyMoves
<1>7. DiscardedAreFiled'
  BY <1>2 DEF DiscardedAreFiled, OnlyMoves
<1>8. QED
  BY <1>1, <1>3, <1>4, <1>5, <1>6, <1>7, PlacedIsFiled, PTL

\* An answer: whatever it was for, the request is over and its rows are not there.
Answers(w) ==
    /\ End(w)
    /\ UNCHANGED <<content, temp, storage, package>>
    /\ records' \subseteq records

LEMMA AnswerStep ==
    ASSUME IInv, NEW w \in Workers, Answers(w)
    PROVE  IInv'
<1> USE DEF Answers
<1>1. TypeOK' /\ OnlyMoves(w)
  BY EndType DEF IInv, NumbersAreOwn
<1>2. pc'[w] = "idle" /\ pos'[w] = 0 /\ attempts'[w] = 0
  BY EndFacts DEF IInv, NumbersAreOwn
<1>3. NumberIsNext(w)' /\ AttemptsWereTaken(w)' /\ PassBeginsAtTheFirst(w)'
  BY <1>2 DEF NumberIsNext, AttemptsWereTaken, PassBeginsAtTheFirst
<1>4. QED
  BY <1>1, <1>2, <1>3, QuietStep

LEMMA AnswersOfRequests ==
    ASSUME NEW w \in Workers,
           \/ Fail(w) \/ RefuseFile(w) \/ RefuseOverflow(w) \/ RefuseNumber(w)
           \/ RefuseStoring(w) \/ DiscardRecords(w)
    PROVE  Answers(w)
<1>1. CASE DiscardRecords(w)
  BY <1>1 DEF DiscardRecords, Answers, tables
<1>2. QED
  BY <1>1 DEF Fail, RefuseFile, RefuseOverflow, RefuseNumber, RefuseStoring, Answers,
              tables, files

LEMMA StartStep ==
    ASSUME IInv, NEW w \in Workers, Start(w)
    PROVE  IInv'
<1>1. TypeOK' /\ OnlyMoves(w) /\ pc[w] = "idle" /\ pc'[w] = "resolving"
  BY StartType
<1>2. UNCHANGED <<content, temp, storage, package, pos, attempts>>
  BY DEF Start, StartDocument, StartRevision, tables, files
<1>3. attempts[w] = 0
  BY <1>1 DEF IInv, RequestsAreInStep, AttemptsWereTaken
<1>4. NumberIsNext(w)'
  <2>1. PICK p \in Projects, f \in Packages :
          StartDocument(w, p, f) \/ \E n \in 1..MaxSequence : StartRevision(w, p, n, f)
    BY DEF Start
  <2>2. CASE StartDocument(w, p, f)
    <3>1. request'[w].version = 1
      BY <2>2 DEF StartDocument, IInv, NumbersAreOwn, TypeOK
    <3>2. QED
      BY <3>1, <1>1 DEF NumberIsNext, IsRevision
  <2>3. CASE \E n \in 1..MaxSequence : StartRevision(w, p, n, f)
    <3>1. PICK n \in 1..MaxSequence : StartRevision(w, p, n, f)
      BY <2>3
    <3>2. request'[w].project = p /\ request'[w].sequence = n /\ Registered(p, n)
      BY <3>1 DEF StartRevision, IInv, NumbersAreOwn, TypeOK
    <3>3. QED
      BY <3>2, <1>1, <1>2 DEF NumberIsNext, Registered
  <2>4. QED
    BY <2>1, <2>2, <2>3
<1>5. AttemptsWereTaken(w)' /\ PassBeginsAtTheFirst(w)'
  BY <1>1, <1>2, <1>3 DEF AttemptsWereTaken, PassBeginsAtTheFirst
<1>6. QED
  BY <1>1, <1>2, <1>4, <1>5, QuietStep

\* The first pass over the files.
LEMMA ResolveStep ==
    ASSUME IInv, NEW w \in Workers, Resolve(w) \/ Resolved(w)
    PROVE  IInv'
<1>1. TypeOK' /\ OnlyMoves(w)
  BY PassType
<1>2. /\ UNCHANGED <<content, temp, storage, package, request, attempts>>
      /\ pc[w] = "resolving" /\ pc'[w] \in {"resolving", "numbering"}
      /\ pc'[w] = "numbering" => pos'[w] = 0
  BY DEF Resolve, Resolved, tables, files, IInv, NumbersAreOwn, TypeOK
<1>3. NumberIsNext(w)'
  BY <1>2 DEF IInv, RequestsAreInStep, NumberIsNext, IsRevision, Registered
<1>4. AttemptsWereTaken(w)' /\ PassBeginsAtTheFirst(w)'
  BY <1>2 DEF IInv, RequestsAreInStep, AttemptsWereTaken, PassBeginsAtTheFirst
<1>5. QED
  BY <1>1, <1>2, <1>3, <1>4, QuietStep

\* A new attempt reads a higher number than the last one, which was committed.
LEMMA ReadSequenceStep ==
    ASSUME IInv, NEW w \in Workers, ReadSequence(w)
    PROVE  IInv'
<1> USE DEF IInv, NumbersAreOwn
<1>1. TypeOK' /\ OnlyMoves(w)
  BY NumberingType
<1>2. PICK n \in 0..MaxSequence - 1 :
        /\ IsHighest(n, SequencesOf(request[w].project))
        /\ request' = [request EXCEPT ![w] = [request[w] EXCEPT !.sequence = n + 1]]
  BY DEF ReadSequence
<1>3. /\ UNCHANGED <<content, temp, storage, package, pos>>
      /\ pc[w] = "numbering" /\ pc'[w] = "inserting"
      /\ attempts'[w] = attempts[w] + 1
      /\ request[w].version = 1 /\ request[w] \in Arguments
  BY RequestFacts DEF ReadSequence, tables, files, TypeOK, IsRevision
<1>4. /\ request'[w].project = request[w].project /\ request'[w].sequence = n + 1
      /\ request'[w].version = 1 /\ request[w].project \in Projects
  <2>1. request'[w] = [request[w] EXCEPT !.sequence = n + 1]
    BY <1>2 DEF TypeOK
  <2>2. QED
    BY <2>1, <1>3, NumberedArguments DEF Arguments
<1>5. /\ \A m \in 1..n : Registered(request[w].project, m)
      /\ \A m \in 1..MaxSequence : Registered(request[w].project, m) => m <= n
  BY <1>2, <1>4, HighestSequence
<1>6. NumberIsNext(w)'
  BY <1>3, <1>4, <1>5 DEF NumberIsNext, IsRevision, Registered
<1>7. n + 1 >= attempts[w] + 1
  <2>1. CASE attempts[w] = 0
    BY <2>1
  <2>2. CASE attempts[w] > 0
    <3>1. /\ request[w].sequence >= attempts[w]
          /\ Registered(request[w].project, request[w].sequence)
      BY <2>2, <1>3 DEF RequestsAreInStep, AttemptsWereTaken, IsRevision
    <3>2. request[w].sequence \in 1..MaxSequence /\ attempts[w] \in Nat
      BY <2>2, <3>1, <1>3 DEF TypeOK, Arguments
    <3>3. QED
      BY <3>1, <3>2, <1>5
  <2>3. QED
    BY <2>1, <2>2 DEF TypeOK
<1>8. AttemptsWereTaken(w)' /\ PassBeginsAtTheFirst(w)'
  BY <1>3 DEF RequestsAreInStep, AttemptsWereTaken, PassBeginsAtTheFirst
<1>9. QED
  BY <1>1, <1>3, <1>4, <1>6, <1>7, <1>8, QuietStep

LEMMA ReadVersionStep ==
    ASSUME IInv, NEW w \in Workers, ReadVersion(w)
    PROVE  IInv'
<1> USE DEF IInv, NumbersAreOwn
<1>1. TypeOK' /\ OnlyMoves(w)
  BY NumberingType
<1>2. PICK v \in 0..MaxVersion - 1 :
        /\ IsHighest(v, VersionsOf(request[w].project, request[w].sequence))
        /\ request' = [request EXCEPT ![w] = [request[w] EXCEPT !.version = v + 1]]
  BY DEF ReadVersion
<1>3. /\ UNCHANGED <<content, temp, storage, package, pos, attempts>>
      /\ pc[w] = "numbering" /\ pc'[w] = "inserting" /\ request[w] \in Arguments
  BY RequestFacts DEF ReadVersion, tables, files, TypeOK
<1>4. /\ request[w].sequence \in 1..MaxSequence /\ request[w].project \in Projects
      /\ Registered(request[w].project, request[w].sequence)
  BY <1>3 DEF ReadVersion, RequestsAreInStep, NumberIsNext, Arguments
<1>5. /\ request'[w].project = request[w].project
      /\ request'[w].sequence = request[w].sequence /\ request'[w].version = v + 1
  <2>1. request'[w] = [request[w] EXCEPT !.version = v + 1]
    BY <1>2 DEF TypeOK
  <2>2. QED
    BY <2>1, <1>3, NumberedArguments
<1>6. /\ v \in 1..MaxVersion
      /\ \A y \in 1..v : package[<<request[w].project, request[w].sequence, y>>] # <<>>
  BY <1>2, <1>4, HighestVersion
<1>7. IsRevision(w)' /\ NumberIsNext(w)'
  BY <1>3, <1>4, <1>5, <1>6 DEF NumberIsNext, IsRevision, Registered
<1>8. AttemptsWereTaken(w)' /\ PassBeginsAtTheFirst(w)'
  BY <1>3 DEF RequestsAreInStep, AttemptsWereTaken, PassBeginsAtTheFirst
<1>9. QED
  BY <1>1, <1>3, <1>7, <1>8, QuietStep

\* The code of a failed attempt is of a committed document.
LEMMA RetryStep ==
    ASSUME IInv, NEW w \in Workers, RetryCode(w)
    PROVE  IInv'
<1> USE DEF IInv, NumbersAreOwn
<1>1. TypeOK' /\ OnlyMoves(w)
  BY NumberingType
<1>2. /\ UNCHANGED <<content, temp, storage, package, request, pos, attempts>>
      /\ pc[w] = "inserting" /\ pc'[w] = "numbering"
      /\ request[w].version = 1 /\ attempts[w] < CodeAttempts
      /\ Registered(request[w].project, request[w].sequence)
  BY DEF RetryCode, tables, files, TypeOK, IsRevision, Taken, KeyOf, Registered
<1>3. NumberIsNext(w)' /\ PassBeginsAtTheFirst(w)'
  BY <1>2 DEF RequestsAreInStep, NumberIsNext, IsRevision, PassBeginsAtTheFirst
<1>4. AttemptsWereTaken(w)'
  BY <1>2 DEF EachAttemptMovesOn, AttemptsWereTaken, IsRevision, Registered
<1>5. QED
  BY <1>1, <1>2, <1>3, <1>4, QuietStep

\* The number is free, and the unique index lets one request have it at a time.
LEMMA InsertStep ==
    ASSUME IInv, NEW w \in Workers, Insert(w)
    PROVE  IInv'
<1> USE DEF IInv, NumbersAreOwn
<1>1. TypeOK' /\ OnlyMoves(w)
  BY PassType
<1>2. /\ UNCHANGED <<content, temp, storage, package, request, pos, attempts>>
      /\ pc[w] = "inserting" /\ pc'[w] = "storing" /\ ~InFlight(w) /\ ~Taken(w)
      /\ pos[w] = 0
  BY DEF Insert, tables, files, TypeOK, RequestsAreInStep, PassBeginsAtTheFirst
<1>3. \A o \in Workers : KeyOf(o)' = KeyOf(o) /\ (IsRevision(o)' <=> IsRevision(o))
  BY <1>2 DEF KeyOf, IsRevision
<1>4. NumbersContiguous' /\ UploadFiledOnce'
  BY <1>2 DEF NumbersContiguous, Registered, UploadFiledOnce
<1>5. PathsHaveOneWriter'
  BY <1>1, <1>2, <1>3 DEF PathsHaveOneWriter, OnlyMoves, InFlight, Taken
<1>6. EachAttemptMovesOn'
  BY <1>1, <1>2, <1>3 DEF EachAttemptMovesOn, OnlyMoves
<1>7. RequestsAreInStep'
  <2>1. NumberIsNext(w)' /\ AttemptsWereTaken(w)' /\ PassBeginsAtTheFirst(w)'
    BY <1>2 DEF RequestsAreInStep, NumberIsNext, IsRevision, Registered,
                AttemptsWereTaken, PassBeginsAtTheFirst
  <2>2. QED
    BY <2>1, <1>1, <1>2, OthersInStep DEF RequestsAreInStep
<1>8. MovedFilesArePlaced'
  BY <1>1, <1>2, <1>3 DEF MovedFilesArePlaced, Placed, OnlyMoves
<1>9. MovedFilesAreOwn'
  BY <1>1, <1>2 DEF MovedFilesAreOwn, OnlyMoves
<1>10. DiscardedAreFiled'
  BY <1>1, <1>2, <1>3 DEF DiscardedAreFiled, OnlyMoves
<1>11. QED
  BY <1>1, <1>4, <1>5, <1>6, <1>7, <1>8, <1>9, <1>10, PlacedIsFiled, PTL

\* The move writes to a path of the number that is the request's own, and takes
\* the upload away from everybody else.
LEMMA StoreFileStep ==
    ASSUME IInv, NEW w \in Workers, StoreFile(w)
    PROVE  IInv'
<1> DEFINE t == NextFile(w)
           m == pos[w] + 1
           x == PathOf(KeyOf(w), m)
<1> USE DEF IInv, NumbersAreOwn
<1>1. TypeOK' /\ OnlyMoves(w)
  BY PassType
<1>2. /\ pc[w] = "storing" /\ UNCHANGED <<content, package, pc, request, attempts>>
      /\ storage' = [storage EXCEPT ![x] = t] /\ temp' = temp \ {t} /\ t \in temp
      /\ t = request[w].files[m] /\ ~AlreadyAttached(w, t)
      /\ pos[w] \in Nat /\ m \in 1..MaxFiles /\ pos'[w] = m
      /\ KeyOf(w) \in Keys /\ package[KeyOf(w)] = <<>> /\ x \in Paths
      /\ content[t] # Nothing
  <2>1. m \in 1..MaxFiles /\ pos[w] \in Nat /\ KeyOf(w) \in Keys
    <3>1. Len(request[w].files) \in 1..MaxFiles /\ pos[w] <= Len(request[w].files)
      BY RequestFacts DEF StoreFile, TypeOK
    <3>2. pos[w] # Len(request[w].files) /\ pos[w] \in Nat
      BY DEF StoreFile, AllFiles, TypeOK
    <3>3. QED
      BY <3>1, <3>2 DEF StoreFile, TypeOK
  <2>2. pos'[w] = m
    BY DEF StoreFile, TypeOK
  <2>3. QED
    BY <2>1, <2>2, PathIsPath DEF StoreFile, tables, NextFile, PathsHaveOneWriter,
       MovedFilesArePlaced
<1>3. \A o \in Workers : /\ KeyOf(o)' = KeyOf(o) /\ (IsRevision(o)' <=> IsRevision(o))
                         /\ o # w => pos'[o] = pos[o]
  BY <1>1, <1>2 DEF KeyOf, IsRevision, OnlyMoves
<1>4. NumbersContiguous' /\ UploadFiledOnce' /\ PathsHaveOneWriter'
      /\ EachAttemptMovesOn' /\ DiscardedAreFiled'
  BY <1>2, <1>3 DEF NumbersContiguous, Registered, UploadFiledOnce, PathsHaveOneWriter,
     EachAttemptMovesOn, DiscardedAreFiled
<1>5. RequestsAreInStep'
  <2>1. NumberIsNext(w)' /\ AttemptsWereTaken(w)' /\ PassBeginsAtTheFirst(w)'
    BY <1>2 DEF RequestsAreInStep, NumberIsNext, IsRevision, Registered,
                AttemptsWereTaken, PassBeginsAtTheFirst
  <2>2. QED
    BY <2>1, <1>1, <1>2, OthersInStep DEF RequestsAreInStep
<1>6. \A u, y : Placed(u, y) /\ y # x => Placed(u, y)'
  BY <1>2 DEF Placed, TypeOK
<1>7. MovedFilesArePlaced'
  <2>1. \A u \in temp' : content'[u] # Nothing
    BY <1>2 DEF MovedFilesArePlaced
  <2>2. ASSUME NEW k \in Keys, NEW i \in DOMAIN package[k]
        PROVE  Placed(package[k][i], PathOf(k, i))'
    <3>1. k # KeyOf(w)
      BY <1>2
    <3>2. Placed(package[k][i], PathOf(k, i)) /\ PathOf(k, i) # x
      BY <3>1, PathsDiffer DEF MovedFilesArePlaced
    <3>3. QED
      BY <3>2, <1>2 DEF Placed
  <2>3. ASSUME NEW o \in Workers, pc[o] = "storing", NEW i \in 1..pos'[o]
        PROVE  Placed(request[o].files[i], PathOf(KeyOf(o), i))'
    <3>1. CASE o = w /\ i = m
      BY <3>1, <1>2, <1>3 DEF Placed, TypeOK
    <3>2. CASE ~(o = w /\ i = m)
      <4>1. i \in 1..pos[o]
        BY <3>2, <2>3, <1>2, <1>3
      <4>2. KeyOf(o) # KeyOf(w) \/ i # m
        BY <3>2, <2>3, <1>2 DEF PathsHaveOneWriter
      <4>3. Placed(request[o].files[i], PathOf(KeyOf(o), i))
            /\ PathOf(KeyOf(o), i) # x
        BY <4>1, <4>2, <2>3, PathsDiffer DEF MovedFilesArePlaced
      <4>4. QED
        BY <4>3, <1>2, <1>3 DEF Placed
    <3>3. QED
      BY <3>1, <3>2
  <2>4. QED
    BY <2>1, <2>2, <2>3, <1>2 DEF MovedFilesArePlaced
<1>8. /\ \A k \in Keys : \A j \in DOMAIN package[k] : package[k][j] # t
      /\ \A o \in Workers : pc[o] = "storing" =>
           \A j \in 1..pos[o] : request[o].files[j] # t
  BY <1>2 DEF MovedFilesArePlaced, Placed
<1>9. \A j \in 1..pos[w] : content[request[w].files[j]] # content[t]
  BY <1>2 DEF AlreadyAttached
<1>10. MovedFilesAreOwn'
  <2>1. ASSUME NEW o \in Workers, pc[o] = "storing", NEW i \in 1..pos'[o]
        PROVE  LET u == request[o].files[i]
               IN  /\ \A k \in Keys : \A j \in DOMAIN package[k] : package[k][j] # u
                   /\ \A v \in Workers : pc[v] = "storing" => \A j \in 1..pos'[v] :
                        request[v].files[j] = u => v = o /\ j = i
                   /\ \A j \in 1..pos'[o] :
                        content[request[o].files[j]] = content[u] => j = i
    <3>1. ASSUME NEW v \in Workers, NEW j \in 1..pos'[v], ~(v = w /\ j = m)
          PROVE  j \in 1..pos[v]
      BY <3>1, <1>2, <1>3
    <3>2. CASE o = w /\ i = m
      BY <3>1, <3>2, <1>2, <1>8, <1>9
    <3>3. CASE ~(o = w /\ i = m)
      <4>1. i \in 1..pos[o]
        BY <3>1, <3>3
      <4>2. request[o].files[i] # t
        BY <4>1, <2>1, <1>8
      <4>3. o = w => content[request[o].files[i]] # content[t]
        BY <4>1, <1>9
      <4>4. QED
        BY <3>1, <4>1, <4>2, <4>3, <2>1, <1>2 DEF MovedFilesAreOwn
    <3>4. QED
      BY <3>2, <3>3
  <2>2. QED
    BY <2>1, <1>2 DEF MovedFilesAreOwn
<1>11. QED
  BY <1>1, <1>4, <1>5, <1>7, <1>10, PlacedIsFiled, PTL

\* The commit of a version under the next number, with all its files in place.
LEMMA CommitStep ==
    ASSUME IInv, NEW w \in Workers, Commit(w)
    PROVE  IInv'
<1> DEFINE k == KeyOf(w)
           f == request[w].files
           r == request[w]
<1> USE DEF IInv, NumbersAreOwn
<1>1. TypeOK' /\ OnlyMoves(w)
  BY PassType
<1>2. /\ pc[w] = "storing" /\ pc'[w] = "discarding"
      /\ UNCHANGED <<content, temp, storage, request, pos, attempts>>
      /\ package' = [package EXCEPT ![k] = f] /\ package[k] = <<>>
      /\ k \in Keys /\ f \in Packages /\ f # <<>> /\ DOMAIN f = 1..pos[w]
      /\ r \in Arguments
  BY RequestFacts, PackageFacts
     DEF Commit, files, AllFiles, TypeOK, PathsHaveOneWriter, Arguments
<1>3. /\ package'[k] = f
      /\ \A x \in Keys : x # k => package'[x] = package[x]
      /\ \A x \in Keys : package[x] # <<>> => package'[x] # <<>>
  BY <1>2 DEF TypeOK
<1>4. \A o \in Workers : /\ KeyOf(o)' = KeyOf(o) /\ (IsRevision(o)' <=> IsRevision(o))
                         /\ o # w => pc'[o] = pc[o]
  BY <1>1, <1>2 DEF KeyOf, IsRevision, OnlyMoves
<1>5. \A p \in Projects, n \in 1..MaxSequence :
        Registered(p, n) => package'[<<p, n, 1>>] # <<>>
  BY <1>3 DEF Registered, Keys
<1>6. \A o \in Workers : pc[o] # "idle" => request[o].project \in Projects
  BY RequestFacts DEF Arguments
<1>7. NumbersContiguous'
  <2>1. ASSUME NEW p \in Projects, NEW n \in 1..MaxSequence, NEW v \in 1..MaxVersion,
               package'[<<p, n, v>>] # <<>>
        PROVE  /\ \A m \in 1..n : Registered(p, m)'
               /\ \A y \in 1..v : package'[<<p, n, y>>] # <<>>
    <3> USE DEF Registered
    <3>1. CASE <<p, n, v>> = k
      <4>1. p = r.project /\ n = r.sequence /\ v = r.version
        BY <3>1 DEF KeyOf
      <4>2. CASE IsRevision(w)
        <5>1. /\ Registered(p, n)
              /\ \A y \in 1..v - 1 : package[<<p, n, y>>] # <<>>
          BY <4>1, <4>2, <1>2 DEF RequestsAreInStep, NumberIsNext
        <5>2. \A m \in 1..n : Registered(p, m)
          BY <5>1 DEF NumbersContiguous, Registered
        <5>3. \A y \in 1..v : package'[<<p, n, y>>] # <<>>
          BY <5>1, <3>1, <1>2, <1>3 DEF Keys
        <5>4. QED
          BY <5>2, <5>3, <1>5
      <4>3. CASE ~IsRevision(w)
        <5>1. v = 1 /\ \A m \in 1..n - 1 : Registered(p, m)
          BY <4>1, <4>3, <1>2 DEF RequestsAreInStep, NumberIsNext, IsRevision
        <5>2. Registered(p, n)'
          BY <5>1, <3>1, <1>2, <1>3 DEF Registered
        <5>3. QED
          BY <5>1, <5>2, <1>5, <2>1
      <4>4. QED
        BY <4>2, <4>3
    <3>2. CASE <<p, n, v>> # k
      <4>1. package[<<p, n, v>>] # <<>>
        BY <3>2, <2>1, <1>3 DEF Keys
      <4>2. /\ \A m \in 1..n : Registered(p, m)
            /\ \A y \in 1..v : package[<<p, n, y>>] # <<>>
        BY <4>1 DEF NumbersContiguous
      <4>3. QED
        BY <4>2, <1>3, <1>5 DEF Keys
    <3>3. QED
      BY <3>1, <3>2
  <2>2. QED
    BY <2>1 DEF NumbersContiguous, Registered
<1>8. PathsHaveOneWriter'
  <2>1. ASSUME NEW o \in Workers, pc'[o] = "storing"
        PROVE  /\ \A q \in Workers \ {o} : pc'[q] = "storing" => KeyOf(q) # KeyOf(o)
               /\ package'[KeyOf(o)] = <<>>
    <3>1. o # w /\ pc[o] = "storing" /\ KeyOf(o) # k /\ KeyOf(o) \in Keys
      BY <2>1, <1>2, <1>4 DEF PathsHaveOneWriter, TypeOK
    <3>2. QED
      BY <2>1, <3>1, <1>2, <1>3, <1>4 DEF PathsHaveOneWriter
  <2>2. QED
    BY <2>1, <1>4 DEF PathsHaveOneWriter
<1>9. EachAttemptMovesOn'
  BY <1>2, <1>4 DEF EachAttemptMovesOn
<1>10. RequestsAreInStep'
  <2>1. ASSUME NEW o \in Workers
        PROVE  NumberIsNext(o)' /\ AttemptsWereTaken(o)' /\ PassBeginsAtTheFirst(o)'
    <3>1. /\ request'[o] = request[o] /\ attempts'[o] = attempts[o] /\ pos'[o] = pos[o]
          /\ o = w \/ pc'[o] = pc[o]
      BY <1>2, <1>4
    <3>2. CASE pc[o] = "idle"
      BY <3>1, <3>2, <1>2 DEF RequestsAreInStep, NumberIsNext, AttemptsWereTaken,
                              PassBeginsAtTheFirst
    <3>3. CASE pc[o] # "idle"
      <4>1. /\ request[o].project \in Projects
            /\ request[o].sequence \in 0..MaxSequence /\ request[o].version \in 0..MaxVersion
        BY <3>3, RequestFacts DEF Arguments
      <4>2. NumberIsNext(o) /\ AttemptsWereTaken(o) /\ PassBeginsAtTheFirst(o)
            /\ (pc[o] = "storing" => EachAttemptMovesOn)
        BY DEF RequestsAreInStep
      <4>3. PassBeginsAtTheFirst(o)'
        BY <4>2, <3>1, <1>2 DEF PassBeginsAtTheFirst
      <4>4. AttemptsWereTaken(o)'
        <5>1. ASSUME pc'[o] = "numbering", ~IsRevision(o), attempts[o] > 0
              PROVE  package'[<<request[o].project, request[o].sequence, 1>>] # <<>>
          <6>1. /\ Registered(request[o].project, request[o].sequence)
                /\ request[o].sequence >= attempts[o]
            BY <5>1, <4>2, <3>1, <1>2 DEF AttemptsWereTaken
          <6>2. request[o].sequence \in 1..MaxSequence
            BY <5>1, <6>1, <4>1 DEF TypeOK
          <6>3. QED
            BY <6>1, <6>2, <4>1, <1>5
        <5>2. QED
          BY <5>1, <4>2, <3>1, <1>2, <1>4 DEF AttemptsWereTaken, Registered
      <4>5. NumberIsNext(o)'
        <5>1. ASSUME IsRevision(o)
              PROVE  /\ request[o].sequence \in 1..MaxSequence
                     /\ package'[<<request[o].project, request[o].sequence, 1>>] # <<>>
          BY <5>1, <4>1, <4>2, <3>3, <1>5 DEF NumberIsNext
        <5>2. ASSUME IsRevision(o), pc'[o] \in {"inserting", "storing"},
                     NEW y \in 1..request[o].version - 1
              PROVE  package'[<<request[o].project, request[o].sequence, y>>] # <<>>
          <6>1. package[<<request[o].project, request[o].sequence, y>>] # <<>>
            BY <5>2, <4>2, <3>1, <1>2 DEF NumberIsNext
          <6>2. <<request[o].project, request[o].sequence, y>> \in Keys
            BY <5>1, <5>2, <4>1 DEF Keys
          <6>3. QED
            BY <6>1, <6>2, <1>3
        <5>3. ASSUME ~IsRevision(o), pc'[o] \in {"inserting", "storing"},
                     NEW n \in 1..request[o].sequence - 1
              PROVE  package'[<<request[o].project, n, 1>>] # <<>>
          <6>1. Registered(request[o].project, n)
            BY <5>3, <4>2, <3>1, <1>2 DEF NumberIsNext
          <6>2. n \in 1..MaxSequence
            BY <5>3, <4>1
          <6>3. QED
            BY <6>1, <6>2, <4>1, <1>5
        <5>4. QED
          BY <5>1, <5>2, <5>3, <3>1, <1>4 DEF NumberIsNext, Registered
      <4>6. QED
        BY <4>3, <4>4, <4>5
    <3>4. QED
      BY <3>2, <3>3
  <2>2. QED
    BY <2>1 DEF RequestsAreInStep
<1>11. /\ \A i, j \in DOMAIN f : f[i] = f[j] => i = j
       /\ \A x \in Keys : \A j \in DOMAIN package[x] : \A i \in DOMAIN f :
            package[x][j] # f[i]
       /\ \A o \in Workers \ {w} : pc[o] = "storing" =>
            \A i \in 1..pos[o], j \in DOMAIN f : f[j] # request[o].files[i]
  BY <1>2 DEF MovedFilesAreOwn
<1>12. UploadFiledOnce'
  <2>1. ASSUME NEW x \in Keys, NEW y \in Keys, NEW i \in DOMAIN package'[x],
               NEW j \in DOMAIN package'[y], package'[x][i] = package'[y][j]
        PROVE  x = y /\ i = j
    <3>1. CASE x = k /\ y = k
      BY <3>1, <2>1, <1>3, <1>11
    <3>2. CASE x = k /\ y # k
      BY <3>2, <2>1, <1>3, <1>11
    <3>3. CASE x # k /\ y = k
      BY <3>3, <2>1, <1>3, <1>11
    <3>4. CASE x # k /\ y # k
      BY <3>4, <2>1, <1>3 DEF UploadFiledOnce
    <3>5. QED
      BY <3>1, <3>2, <3>3, <3>4
  <2>2. QED
    BY <2>1 DEF UploadFiledOnce
<1>13. MovedFilesArePlaced'
  <2>1. ASSUME NEW x \in Keys, NEW i \in DOMAIN package'[x]
        PROVE  Placed(package'[x][i], PathOf(x, i))
    <3>1. CASE x = k
      BY <3>1, <1>2, <1>3 DEF MovedFilesArePlaced
    <3>2. CASE x # k
      BY <3>2, <1>3 DEF MovedFilesArePlaced
    <3>3. QED
      BY <3>1, <3>2
  <2>2. QED
    BY <2>1, <1>2, <1>4 DEF MovedFilesArePlaced, Placed
<1>14. MovedFilesAreOwn'
  <2>1. ASSUME NEW o \in Workers, pc'[o] = "storing", NEW i \in 1..pos[o]
        PROVE  \A x \in Keys : \A j \in DOMAIN package'[x] :
                 package'[x][j] # request[o].files[i]
    <3>1. o # w /\ pc[o] = "storing"
      BY <2>1, <1>2, <1>4
    <3>2. ASSUME NEW x \in Keys, NEW j \in DOMAIN package'[x]
          PROVE  package'[x][j] # request[o].files[i]
      <4>1. CASE x = k
        BY <4>1, <3>1, <3>2, <2>1, <1>3, <1>11
      <4>2. CASE x # k
        BY <4>2, <3>1, <3>2, <2>1, <1>3 DEF MovedFilesAreOwn
      <4>3. QED
        BY <4>1, <4>2
    <3>3. QED
      BY <3>2
  <2>2. QED
    BY <2>1, <1>2, <1>4 DEF MovedFilesAreOwn
<1>15. DiscardedAreFiled'
  <2>1. ASSUME NEW o \in Workers, o # w, pc[o] = "discarding"
        PROVE  package'[KeyOf(o)] = request[o].files
    <3>1. package[KeyOf(o)] = request[o].files /\ KeyOf(o) \in Keys
      BY <2>1 DEF DiscardedAreFiled, TypeOK
    <3>2. request[o].files # <<>>
      BY <2>1, PackageFacts DEF TypeOK
    <3>3. QED
      BY <3>1, <3>2, <1>2, <1>3
  <2>2. QED
    BY <2>1, <1>2, <1>3, <1>4 DEF DiscardedAreFiled
<1>16. QED
  BY <1>1, <1>7, <1>8, <1>9, <1>10, <1>12, <1>13, <1>14, <1>15, PlacedIsFiled, PTL

\* A new upload is of nobody yet.
LEMMA StoreUploadStep ==
    ASSUME IInv, NEW t \in Uploads, NEW c \in Contents, StoreUpload(t, c)
    PROVE  IInv'
<1> USE DEF IInv, NumbersAreOwn
<1>1. /\ UNCHANGED <<storage, package, pc, request, pos, attempts>>
      /\ content[t] = Nothing /\ content'[t] = c /\ c # Nothing
      /\ \A u \in Uploads : u # t => content'[u] = content[u]
      /\ temp' = temp \cup {t}
  BY DEF StoreUpload, tables, local, TypeOK
<1>2. TypeOK'
  BY <1>1 DEF StoreUpload, TypeOK, KeyOf
<1>3. \A o \in Workers : KeyOf(o)' = KeyOf(o) /\ (IsRevision(o)' <=> IsRevision(o))
  BY <1>1 DEF KeyOf, IsRevision
<1>4. NumbersContiguous' /\ UploadFiledOnce' /\ PathsHaveOneWriter'
      /\ EachAttemptMovesOn' /\ DiscardedAreFiled'
  BY <1>1, <1>3 DEF NumbersContiguous, Registered, UploadFiledOnce, PathsHaveOneWriter,
     EachAttemptMovesOn, DiscardedAreFiled
<1>5. RequestsAreInStep'
  BY <1>1, <1>3 DEF RequestsAreInStep, NumberIsNext, AttemptsWereTaken,
                    PassBeginsAtTheFirst, Registered
<1>6. ASSUME NEW u \in Uploads, NEW x, Placed(u, x)
      PROVE  Placed(u, x)' /\ content'[u] = content[u]
  BY <1>1, <1>6 DEF Placed
<1>7. /\ \A k \in Keys : \A i \in DOMAIN package[k] : package[k][i] \in Uploads
      /\ \A o \in Workers : pc[o] = "storing" =>
           \A i \in 1..pos[o] : request[o].files[i] \in Uploads
  <2>1. \A k \in Keys : \A i \in DOMAIN package[k] : package[k][i] \in Uploads
    BY FiledFacts
  <2>2. ASSUME NEW o \in Workers, pc[o] = "storing", NEW i \in 1..pos[o]
        PROVE  request[o].files[i] \in Uploads
    <3>1. /\ Len(request[o].files) \in Nat
          /\ \A j \in 1..Len(request[o].files) : request[o].files[j] \in Uploads
      BY <2>2, RequestFacts
    <3>2. i \in 1..Len(request[o].files)
      BY <3>1 DEF TypeOK
    <3>3. QED
      BY <3>1, <3>2
  <2>3. QED
    BY <2>1, <2>2
<1>8. MovedFilesArePlaced'
  <2>1. \A u \in temp' : content'[u] # Nothing
    BY <1>1 DEF MovedFilesArePlaced, TypeOK
  <2>2. ASSUME NEW k \in Keys, NEW i \in DOMAIN package[k]
        PROVE  Placed(package[k][i], PathOf(k, i))'
    BY <1>1, <1>6, <1>7 DEF MovedFilesArePlaced, Placed
  <2>3. ASSUME NEW o \in Workers, pc[o] = "storing", NEW i \in 1..pos[o]
        PROVE  Placed(request[o].files[i], PathOf(KeyOf(o), i))'
    BY <2>3, <1>1, <1>3, <1>6, <1>7 DEF MovedFilesArePlaced, Placed
  <2>4. QED
    BY <2>1, <2>2, <2>3, <1>1 DEF MovedFilesArePlaced
<1>9. \A o \in Workers : pc[o] = "storing" => \A i \in 1..pos[o] :
        content'[request[o].files[i]] = content[request[o].files[i]]
  BY <1>6, <1>7 DEF MovedFilesArePlaced
<1>10. MovedFilesAreOwn'
  BY <1>1, <1>9 DEF MovedFilesAreOwn
<1>11. QED
  BY <1>2, <1>4, <1>5, <1>8, <1>10, PlacedIsFiled, PTL

LEMMA InvStep == IInv /\ [Next]_vars => IInv'
<1> SUFFICES ASSUME IInv, [Next]_vars PROVE IInv'
  OBVIOUS
<1>1. ASSUME NEW t \in Uploads, NEW c \in Contents, StoreUpload(t, c)
      PROVE  IInv'
  BY <1>1, StoreUploadStep
<1>2. ASSUME NEW w \in Workers, Start(w)
      PROVE  IInv'
  BY <1>2, StartStep
<1>3. ASSUME NEW w \in Workers,
             \/ Fail(w) \/ RefuseFile(w) \/ RefuseOverflow(w) \/ RefuseNumber(w)
             \/ RefuseStoring(w) \/ DiscardRecords(w)
      PROVE  IInv'
  BY <1>3, AnswersOfRequests, AnswerStep
<1>4. ASSUME NEW w \in Workers, Resolve(w) \/ Resolved(w)
      PROVE  IInv'
  BY <1>4, ResolveStep
<1>5. ASSUME NEW w \in Workers, ReadSequence(w) \/ ReadVersion(w) \/ RetryCode(w)
      PROVE  IInv'
  BY <1>5, ReadSequenceStep, ReadVersionStep, RetryStep
<1>6. ASSUME NEW w \in Workers, Insert(w) \/ StoreFile(w) \/ Commit(w)
      PROVE  IInv'
  BY <1>6, InsertStep, StoreFileStep, CommitStep
<1>7. CASE UNCHANGED vars
  <2>1. TypeOK' /\ NumbersContiguous' /\ PathsHaveOneWriter' /\ EachAttemptMovesOn'
    BY <1>7 DEF vars, IInv, NumbersAreOwn, TypeOK, NumbersContiguous, Registered,
                PathsHaveOneWriter, EachAttemptMovesOn, KeyOf, IsRevision
  <2>2. RequestsAreInStep'
    BY <1>7 DEF vars, IInv, RequestsAreInStep, NumberIsNext, AttemptsWereTaken,
                PassBeginsAtTheFirst, Registered, IsRevision
  <2>3. FiledBytesAreThere' /\ UploadFiledOnce'
    BY <1>7 DEF vars, IInv, FiledBytesAreThere, UploadFiledOnce
  <2>4. MovedFilesArePlaced' /\ MovedFilesAreOwn' /\ DiscardedAreFiled'
    BY <1>7 DEF vars, IInv, MovedFilesArePlaced, Placed, MovedFilesAreOwn,
                DiscardedAreFiled, KeyOf
  <2>5. QED
    BY <2>1, <2>2, <2>3, <2>4 DEF IInv, NumbersAreOwn
<1>8. QED
  BY <1>1, <1>2, <1>3, <1>4, <1>5, <1>6, <1>7 DEF Next, Proceed
--------------------------------------------------------------------------------
\* The theorems.

\* What the numbers, the moves and the commits keep true together.
THEOREM InvariantHolds == Spec => []IInv
BY InvInit, InvStep, PTL DEF Spec

\* Numbers have no gaps, a request that moves files has its number to itself, and
\* every new attempt at a code tries a higher one.
THEOREM NumbersHold == Spec => []NumbersAreOwn
<1>1. IInv => NumbersAreOwn
  BY DEF IInv
<1>2. QED
  BY <1>1, InvariantHolds, PTL

\* The bytes of every committed file are in the storage, unaltered.
THEOREM BytesHold == Spec => []FiledBytesAreThere
<1>1. IInv => FiledBytesAreThere
  BY DEF IInv
<1>2. QED
  BY <1>1, InvariantHolds, PTL

\* No upload is filed twice, whoever was sent it.
THEOREM FiledOnce == Spec => []UploadFiledOnce
<1>1. IInv => UploadFiledOnce
  BY DEF IInv
<1>2. QED
  BY <1>1, InvariantHolds, PTL

\* A record of an upload goes only when its request is committed.
LEMMA RecordsStep ==
    ASSUME IInv, [Next]_vars, NEW t \in records \ records'
    PROVE  \E k \in Keys : \E i \in DOMAIN package[k] : package[k][i] = t
<1>1. ASSUME NEW w \in Workers, DiscardRecords(w)
      PROVE  \E k \in Keys : \E i \in DOMAIN package[k] : package[k][i] = t
  <2>1. /\ package[KeyOf(w)] = request[w].files /\ KeyOf(w) \in Keys
        /\ \E i \in DOMAIN request[w].files : request[w].files[i] = t
    BY <1>1 DEF DiscardRecords, IInv, NumbersAreOwn, TypeOK, DiscardedAreFiled
  <2>2. QED
    BY <2>1
<1>2. ASSUME NEW u \in Uploads, NEW c \in Contents, StoreUpload(u, c)
      PROVE  FALSE
  BY <1>2 DEF StoreUpload
<1>3. ASSUME NEW w \in Workers,
             \/ Start(w) \/ Fail(w) \/ Resolve(w) \/ RefuseFile(w) \/ Resolved(w)
             \/ ReadSequence(w) \/ ReadVersion(w) \/ RefuseOverflow(w) \/ Insert(w)
             \/ RetryCode(w) \/ RefuseNumber(w) \/ StoreFile(w) \/ RefuseStoring(w)
             \/ Commit(w)
      PROVE  UNCHANGED records
  BY <1>3 DEF Start, StartDocument, StartRevision, Fail, Resolve, RefuseFile, Resolved,
     ReadSequence, ReadVersion, RefuseOverflow, Insert, RetryCode, RefuseNumber,
     StoreFile, RefuseStoring, Commit, files
<1>4. CASE UNCHANGED vars
  BY <1>4 DEF vars
<1>5. QED
  BY <1>1, <1>2, <1>3, <1>4 DEF Next, Proceed

\* A record of an upload is only removed once the upload is filed.
THEOREM RecordsOutlive == Spec => RecordsOutliveUploads
<1>1. IInv /\ [Next]_vars =>
        [\A t \in records \ records' :
           \E k \in Keys : \E i \in DOMAIN package[k] : package[k][i] = t]_vars
  BY RecordsStep
<1>2. QED
  BY <1>1, InvariantHolds, PTL DEF Spec, RecordsOutliveUploads
--------------------------------------------------------------------------------
\* The refinement: what the readers see is the abstract register of files.

Shown(k) == [i \in DOMAIN package[k] |-> content[storage[PathOf(k, i)]]]

\* A function on no index is the empty sequence.
LEMMA EmptyFunction ==
    ASSUME NEW f, f = [i \in DOMAIN f |-> f[i]], DOMAIN f = {}
    PROVE  f = <<>>
BY DOMAIN <<>> = {}

\* The readers see nothing of a version exactly as long as it has no rows.
LEMMA ShownFacts ==
    ASSUME TypeOK, NEW k \in Keys
    PROVE  /\ Shown(k) = <<>> <=> package[k] = <<>>
           /\ DOMAIN Shown(k) = DOMAIN package[k]
<1>1. DOMAIN Shown(k) = DOMAIN package[k]
  BY DEF Shown
<1>2. CASE package[k] = <<>>
  BY <1>2, <1>1, EmptyFunction DEF Shown
<1>3. CASE package[k] # <<>>
  <2>1. 1 \in DOMAIN package[k]
    BY <1>3, PackageFacts DEF TypeOK
  <2>2. QED
    BY <1>1, <1>3, <2>1
<1>4. QED
  BY <1>1, <1>2, <1>3

\* A step that commits nothing shows nothing else: what is at the paths of the
\* rows stays, and so do its bytes.
LEMMA ShownStays ==
    ASSUME IInv, IInv', NEW k \in Keys, package'[k] = package[k],
           \A t \in Uploads : content[t] # Nothing => content'[t] = content[t]
    PROVE  Shown(k)' = Shown(k)
<1>1. \A i \in DOMAIN package[k] :
        /\ package[k][i] \in Uploads /\ content[package[k][i]] # Nothing
        /\ storage[PathOf(k, i)] = package[k][i]
        /\ storage'[PathOf(k, i)] = package[k][i]
  BY FiledFacts DEF IInv, NumbersAreOwn, MovedFilesArePlaced, Placed
<1>2. QED
  BY <1>1 DEF Shown

LEMMA BytesStay ==
    ASSUME IInv, [Next]_vars
    PROVE  \A t \in Uploads : content[t] # Nothing => content'[t] = content[t]
<1>1. ASSUME NEW t \in Uploads, NEW c \in Contents, StoreUpload(t, c)
      PROVE  \A u \in Uploads : content[u] # Nothing => content'[u] = content[u]
  BY <1>1 DEF StoreUpload, IInv, NumbersAreOwn, TypeOK
<1>2. ASSUME NEW w \in Workers, Start(w) \/ Proceed(w) \/ Fail(w)
      PROVE  UNCHANGED content
  BY <1>2 DEF Start, StartDocument, StartRevision, Fail, Proceed, Resolve, RefuseFile,
     Resolved, ReadSequence, ReadVersion, RefuseOverflow, Insert, RetryCode,
     RefuseNumber, StoreFile, RefuseStoring, Commit, DiscardRecords, files
<1>3. CASE UNCHANGED vars
  BY <1>3 DEF vars
<1>4. QED
  BY <1>1, <1>2, <1>3 DEF Next

\* Whatever is not a commit leaves the rows.
LEMMA RowsStay ==
    ASSUME [Next]_vars, \A w \in Workers : ~Commit(w)
    PROVE  package' = package
<1>1. ASSUME NEW w \in Workers, Start(w) \/ Proceed(w) \/ Fail(w)
      PROVE  UNCHANGED package
  BY <1>1 DEF Start, StartDocument, StartRevision, Fail, Proceed, Resolve, RefuseFile,
     Resolved, ReadSequence, ReadVersion, RefuseOverflow, Insert, RetryCode,
     RefuseNumber, StoreFile, RefuseStoring, DiscardRecords, tables
<1>2. ASSUME NEW t \in Uploads, NEW c \in Contents, StoreUpload(t, c)
      PROVE  UNCHANGED package
  BY <1>2 DEF StoreUpload, tables
<1>3. CASE UNCHANGED vars
  BY <1>3 DEF vars
<1>4. QED
  BY <1>1, <1>2, <1>3 DEF Next

\* A commit shows, at once and under the next number, files that all differ.
LEMMA CommitIsFile ==
    ASSUME IInv, NEW w \in Workers, Commit(w),
           NEW k, k = KeyOf(w), NEW f, f = request[w].files,
           NEW d, d = [i \in DOMAIN f |-> content[f[i]]]
    PROVE  k \in Filing!Keys /\ d \in Filing!Dossiers /\ Filing!File(k, d)
<1>1. TypeOK /\ IInv' /\ TypeOK'
  BY CommitStep DEF IInv, NumbersAreOwn
<1>2. /\ pc[w] = "storing" /\ UNCHANGED <<content, storage, request>>
      /\ package' = [package EXCEPT ![k] = f] /\ package[k] = <<>>
      /\ k \in Keys /\ f \in Packages /\ DOMAIN f = 1..pos[w]
      /\ Len(f) \in 1..MaxFiles /\ DOMAIN f = 1..Len(f)
      /\ request[w].project \in Projects
      /\ request[w].sequence \in 1..MaxSequence /\ request[w].version \in 1..MaxVersion
  BY <1>1, RequestFacts, PackageFacts DEF Commit, files, AllFiles, TypeOK, IInv,
     NumbersAreOwn, PathsHaveOneWriter, Arguments, KeyOf, Keys
<1>3. package'[k] = f /\ \A x \in Keys : x # k => package'[x] = package[x]
  BY <1>1, <1>2 DEF TypeOK
<1>4. d \in Filing!Dossiers
  <2>1. \A i \in DOMAIN f : f[i] \in Uploads /\ content[f[i]] # Nothing
    BY <1>2, PackageFacts DEF IInv, MovedFilesArePlaced, Placed
  <2>2. d \in [1..Len(f) -> Contents]
    BY <2>1, <1>1, <1>2 DEF TypeOK
  <2>3. \A i, j \in DOMAIN d : d[i] = d[j] => i = j
    BY <1>2 DEF IInv, MovedFilesAreOwn
  <2>4. Len(f) \in 1..MaxFiles
    BY <1>2
  <2>5. d \in UNION {[1..n -> Contents] : n \in 1..MaxFiles}
    BY <2>2, <2>4
  <2>6. QED
    BY <2>3, <2>5, Zenon DEF Filing!Dossiers
<1>5. \A x \in Keys : Shown(x)' = IF x = k THEN d ELSE Shown(x)
  <2>1. ASSUME NEW x \in Keys, x # k
        PROVE  Shown(x)' = Shown(x)
    BY <2>1, <1>1, <1>2, <1>3, ShownStays
  <2>2. ASSUME NEW x \in Keys, x = k
        PROVE  Shown(x)' = d
    <3>1. \A i \in DOMAIN f : storage[PathOf(x, i)] = f[i]
      BY <2>2, <1>2 DEF IInv, MovedFilesArePlaced, Placed
    <3>2. Shown(x)' = [i \in DOMAIN f |-> content[storage[PathOf(x, i)]]]
      BY <2>2, <1>2, <1>3 DEF Shown
    <3>3. QED
      BY <3>1, <3>2
  <2>3. QED
    BY <2>1, <2>2
<1>6. Shown(k) = <<>>
  BY <1>1, <1>2, ShownFacts
<1>7. ASSUME NEW x \in Keys, x[1] = k[1],
             (x[2] < k[2] /\ x[3] = 1) \/ (x[2] = k[2] /\ x[3] < k[3])
      PROVE  Shown(x) # <<>>
  <2>1. /\ x = <<x[1], x[2], x[3]>> /\ x[2] \in 1..MaxSequence /\ x[3] \in 1..MaxVersion
        /\ k[1] = request[w].project /\ k[2] = request[w].sequence
        /\ k[3] = request[w].version
    BY DEF Keys, KeyOf
  <2>2. NumberIsNext(w) /\ NumbersContiguous
    BY DEF IInv, NumbersAreOwn, RequestsAreInStep
  <2>3. package[x] # <<>>
    <3>1. CASE IsRevision(w)
      <4>1. /\ Registered(k[1], k[2])
            /\ \A v \in 1..k[3] - 1 : package[<<k[1], k[2], v>>] # <<>>
        BY <3>1, <2>1, <2>2, <1>2 DEF NumberIsNext
      <4>2. \A m \in 1..k[2] : Registered(k[1], m)
        BY <4>1, <2>1, <2>2, <1>2 DEF NumbersContiguous, Registered
      <4>3. QED
        BY <4>1, <4>2, <1>7, <2>1, <1>2 DEF Registered
    <3>2. CASE ~IsRevision(w)
      <4>1. k[3] = 1 /\ \A m \in 1..k[2] - 1 : Registered(k[1], m)
        BY <3>2, <2>1, <2>2, <1>2 DEF NumberIsNext, IsRevision
      <4>2. QED
        BY <4>1, <1>7, <2>1, <1>2 DEF Registered
    <3>3. QED
      BY <3>1, <3>2
  <2>4. QED
    BY <2>3, <1>1, ShownFacts
<1>8. Filing!File(k, d)
  <2>1. Filing!Keys = Keys
    BY DEF Filing!Keys, Keys
  <2>2. Filing!IsNext(k)
    BY <1>7, <2>1 DEF Filing!IsNext, Shown
  <2>3. [x \in Keys |-> Shown(x)]' = [[x \in Keys |-> Shown(x)] EXCEPT ![k] = d]
    BY <1>2, <1>5
  <2>4. QED
    BY <1>2, <1>6, <2>2, <2>3 DEF Filing!File, Shown
<1>9. k \in Filing!Keys
  BY <1>2 DEF Filing!Keys, Keys
<1>10. QED
  BY <1>4, <1>8, <1>9

\* Every step files one version, or shows the readers what they saw before.
LEMMA FilingStep ==
    ASSUME IInv, [Next]_vars
    PROVE  Filing!Next \/ [k \in Keys |-> Shown(k)]' = [k \in Keys |-> Shown(k)]
<1>1. ASSUME NEW w \in Workers, Commit(w)
      PROVE  Filing!Next
  <2>1. PICK k : k = KeyOf(w)
    OBVIOUS
  <2>2. PICK f : f = request[w].files
    OBVIOUS
  <2>3. PICK d : d = [i \in DOMAIN f |-> content[f[i]]]
    OBVIOUS
  <2>4. QED
    BY <1>1, <2>1, <2>2, <2>3, CommitIsFile DEF Filing!Next
<1>2. ASSUME \A w \in Workers : ~Commit(w)
      PROVE  [k \in Keys |-> Shown(k)]' = [k \in Keys |-> Shown(k)]
  <2>1. IInv' /\ package' = package
    BY <1>2, InvStep, RowsStay
  <2>2. \A k \in Keys : Shown(k)' = Shown(k)
    BY <2>1, BytesStay, ShownStays
  <2>3. QED
    BY <2>2
<1>3. QED
  BY <1>1, <1>2

\* Temporary files, moves, rollbacks and retries together implement the archive
\* in which a version appears whole, under the next number, and for good.
THEOREM RegistrationImplementsFiling == Spec => ImplementsFiling
<1>1. Init => Filing!Init
  <2>1. ASSUME Init, NEW k \in Keys
        PROVE  Shown(k) = <<>>
    BY <2>1, TypeInit, ShownFacts DEF Init
  <2>2. Filing!Keys = Keys
    BY DEF Filing!Keys, Keys
  <2>3. QED
    BY <2>1, <2>2 DEF Filing!Init, Shown
<1>2. IInv /\ [Next]_vars =>
        [Filing!Next]_([k \in Keys |-> [i \in DOMAIN package[k] |->
                                         content[storage[PathOf(k, i)]]]])
  BY FilingStep DEF Shown
<1>3. QED
  BY <1>1, <1>2, InvariantHolds, PTL DEF Spec, ImplementsFiling, Filing!Spec
================================================================================
