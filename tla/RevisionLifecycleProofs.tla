------------------------ MODULE RevisionLifecycleProofs ------------------------
(***************************************************************************)
(* Machine-checked theorems about RevisionLifecycle, for any number of     *)
(* documents, users, workers and versions.                                 *)
(***************************************************************************)
EXTENDS RevisionLifecycle, TLAPS

USE ConstantsAssumption

\* Supersede maps a history of statuses to a history of statuses.
LEMMA SupersedeType ==
    ASSUME NEW history \in [Versions -> Status], NEW p, NEW v
    PROVE  Supersede(history, p, v) \in [Versions -> Status]
BY DEF Supersede, Status

\* A request that ends leaves the local state and the locks well typed.
LEMMA EndType ==
    ASSUME TypeOK, NEW w \in Workers, End(w),
           UNCHANGED <<revisionTable, documentTable, surroundings>>
    PROVE  TypeOK'
BY DEF TypeOK, End, revisionTable, documentTable, surroundings, Steps, SubmitSteps,
       DecideSteps, ArchiveSteps, Nothing

\* The same for the variables End assigns, whatever the step does to the rest.
LEMMA EndLocalType ==
    ASSUME TypeOK, NEW w \in Workers, End(w)
    PROVE  /\ lock' \in [Documents -> Workers \cup {NoWorker}]
           /\ pc' \in [Workers -> Steps]
           /\ call' \in [Workers -> SubmitCall \cup DecideCall \cup ArchiveCall
                                     \cup {Nothing}]
           /\ seen' \in [Workers -> SubmitSeen \cup DecideSeen \cup {Nothing}]
           /\ \A o \in Workers :
                /\ pc'[o] \in SubmitSteps => call'[o] \in SubmitCall /\ seen'[o] \in SubmitSeen
                /\ pc'[o] \in DecideSteps => call'[o] \in DecideCall
                /\ pc'[o] = "locked" => seen'[o] \in DecideSeen
                /\ pc'[o] \in ArchiveSteps => call'[o] \in ArchiveCall
BY DEF TypeOK, End, Steps, SubmitSteps, DecideSteps, ArchiveSteps

LEMMA TypeInit == Init => TypeOK
BY DEF Init, TypeOK, Versions, Status, Steps, SubmitSteps, DecideSteps,
       ArchiveSteps

LEMMA TypeStep == TypeOK /\ [Next]_vars => TypeOK'
<1> SUFFICES ASSUME TypeOK, [Next]_vars PROVE TypeOK'
  OBVIOUS
<1> USE DEF revisionTable, documentTable, surroundings, local, Replaced, Steps, SubmitSteps,
            DecideSteps, ArchiveSteps
<1>1. ASSUME NEW w \in Workers, NEW d \in Documents, FindRevisable(w, d)
      PROVE  TypeOK'
  BY <1>1 DEF TypeOK, FindRevisable, SubmitCall, SubmitSeen
<1>2. ASSUME NEW w \in Workers, NEW d \in Documents, NEW v \in Versions,
             NEW u \in Reviewers, NEW x \in Verdicts,
             FindRevision(w, d, v, u, x)
      PROVE  TypeOK'
  BY <1>2 DEF TypeOK, FindRevision, DecideCall
<1>3. ASSUME NEW w \in Workers, NEW d \in Documents, NEW u \in Users,
             FindToArchive(w, d, u) \/ FindToRestore(w, d, u)
      PROVE  TypeOK'
  <2>1. CASE FindToArchive(w, d, u)
    BY <2>1 DEF TypeOK, FindToArchive, ArchiveCall
  <2>2. CASE FindToRestore(w, d, u)
    BY <2>2 DEF TypeOK, FindToRestore, ArchiveCall
  <2>3. QED
    BY <1>3, <2>1, <2>2
<1>4. ASSUME NEW w \in Workers, ReadLastVersion(w)
      PROVE  TypeOK'
  BY <1>4 DEF TypeOK, ReadLastVersion, SubmitSeen
<1>5. ASSUME NEW w \in Workers, InsertRevision(w)
      PROVE  TypeOK'
  BY <1>5 DEF TypeOK, InsertRevision
<1>6. ASSUME NEW w \in Workers,
             \/ RefuseInsert(w) \/ RefuseDecision(w) \/ RefuseArchiving(w)
             \/ RefuseOrphan(w) \/ Fail(w)
      PROVE  TypeOK'
  BY <1>6, EndType DEF RefuseInsert, RefuseDecision, RefuseArchiving,
                       RefuseOrphan, Fail
<1>7. ASSUME NEW w \in Workers, CommitSubmission(w)
      PROVE  TypeOK'
  <2>1. call[w] \in SubmitCall /\ seen[w] \in SubmitSeen
    BY <1>7 DEF TypeOK, CommitSubmission
  <2>2. /\ status' \in [Documents -> [Versions -> Status]]
        /\ author' \in [Documents -> [Versions -> Users \cup {NoUser}]]
    BY <1>7, <2>1 DEF TypeOK, CommitSubmission, SubmitCall, SubmitSeen, Status
  <2>3. QED
    BY <1>7, <2>2, EndLocalType DEF TypeOK, CommitSubmission
<1>8. ASSUME NEW w \in Workers, LockDocument(w)
      PROVE  TypeOK'
  BY <1>8 DEF TypeOK, LockDocument, DecideSeen, DecideCall
<1>9. ASSUME NEW w \in Workers, ApproveRevision(w)
      PROVE  TypeOK'
  <2>1. call[w] \in DecideCall
    BY <1>9 DEF TypeOK, ApproveRevision, Accepted
  <2>2. /\ status' \in [Documents -> [Versions -> Status]]
        /\ auditor' \in [Documents -> [Versions -> Users \cup {NoUser}]]
        /\ updatedBy' \in [Documents -> Users]
    BY <1>9, <2>1, SupersedeType DEF TypeOK, ApproveRevision, DecideCall
  <2>3. QED
    BY <1>9, <2>2, EndLocalType DEF TypeOK, ApproveRevision
<1>10. ASSUME NEW w \in Workers, RejectRevision(w)
       PROVE  TypeOK'
  <2>1. call[w] \in DecideCall
    BY <1>10 DEF TypeOK, RejectRevision, Accepted
  <2>2. /\ status' \in [Documents -> [Versions -> Status]]
        /\ auditor' \in [Documents -> [Versions -> Users \cup {NoUser}]]
    BY <1>10, <2>1 DEF TypeOK, RejectRevision, DecideCall, Status
  <2>3. QED
    BY <1>10, <2>2, EndLocalType DEF TypeOK, RejectRevision
<1>11. ASSUME NEW w \in Workers, ArchiveDocument(w) \/ RestoreDocument(w)
       PROVE  TypeOK'
  <2>1. call[w] \in ArchiveCall
    BY <1>11 DEF TypeOK, ArchiveDocument, RestoreDocument
  <2>2. /\ archivedBy' \in [Documents -> Users \cup {NoUser}]
        /\ updatedBy' \in [Documents -> Users]
    BY <1>11, <2>1 DEF TypeOK, ArchiveDocument, RestoreDocument, ArchiveCall
  <2>3. QED
    BY <1>11, <2>2, EndLocalType DEF TypeOK, ArchiveDocument, RestoreDocument
<1>12. ASSUME NEW d \in Documents, NEW u \in Users, HandOver(d, u)
       PROVE  TypeOK'
  BY <1>12 DEF TypeOK, HandOver
<1>13. ASSUME NEW d \in Documents, SwitchType(d)
       PROVE  TypeOK'
  BY <1>13 DEF TypeOK, SwitchType
<1>14. ASSUME NEW u \in Users, NEW r \in Users, EraseAccount(u, r)
       PROVE  TypeOK'
  BY <1>14 DEF TypeOK, EraseAccount, Reassign
<1>15. CASE UNCHANGED vars
  BY <1>15 DEF TypeOK, vars
<1>16. QED
  BY <1>1, <1>2, <1>3, <1>4, <1>5, <1>6, <1>7, <1>8, <1>9, <1>10, <1>11,
     <1>12, <1>13, <1>14, <1>15 DEF Next, Arrive, Proceed, Environment

\* Every reachable state is well typed: a request only carries the arguments
\* and the values its current step needs.
THEOREM TypeCorrect == Spec => []TypeOK
BY TypeInit, TypeStep, PTL DEF Spec
--------------------------------------------------------------------------------
\* What the four steps that write the revision table do to it.

LEMMA WriteSteps ==
    ASSUME [Next]_vars
    PROVE  \/ UNCHANGED revisionTable
           \/ \E w \in Workers : \/ CommitSubmission(w)
                                \/ ApproveRevision(w)
                                \/ RejectRevision(w)
           \/ \E u, r \in Users : EraseAccount(u, r)
BY DEF Next, vars, Arrive, Proceed, Environment, FindRevisable, FindRevision,
       FindToArchive, FindToRestore, ReadLastVersion, InsertRevision,
       RefuseInsert, LockDocument, RefuseDecision, ArchiveDocument,
       RestoreDocument, RefuseArchiving, RefuseOrphan, Fail, HandOver,
       SwitchType, revisionTable

LEMMA StatusSteps ==
    ASSUME [Next]_vars
    PROVE  \/ UNCHANGED status
           \/ \E w \in Workers : \/ CommitSubmission(w)
                                \/ ApproveRevision(w)
                                \/ RejectRevision(w)
BY WriteSteps DEF EraseAccount, revisionTable

\* Only an erasure makes revisions inherited ones, and it never takes one back.
LEMMA InheritedSteps ==
    ASSUME [Next]_vars
    PROVE  inherited \subseteq inherited'
<1>1. ASSUME NEW w \in Workers, Arrive(w)
      PROVE  inherited' = inherited
  BY <1>1 DEF Arrive, FindRevisable, FindRevision, FindToArchive, FindToRestore,
              surroundings
<1>2. ASSUME NEW w \in Workers, Proceed(w) \/ Fail(w)
      PROVE  inherited' = inherited
  BY <1>2 DEF Proceed, Fail, ReadLastVersion, InsertRevision, RefuseInsert,
              CommitSubmission, LockDocument, RefuseDecision, ApproveRevision,
              RejectRevision, ArchiveDocument, RestoreDocument, RefuseArchiving,
              RefuseOrphan, surroundings
<1>3. ASSUME NEW u \in Users, NEW r \in Users, EraseAccount(u, r)
      PROVE  inherited \subseteq inherited'
  BY <1>3 DEF EraseAccount
<1>4. QED
  BY <1>1, <1>2, <1>3 DEF Next, Environment, HandOver, SwitchType, surroundings, vars

\* A document has one last version.
LEMMA LastVersionUnique ==
    ASSUME TypeOK, NEW d \in Documents, NEW m \in 0..MaxVersion,
           NEW n \in 0..MaxVersion, IsLastVersion(d, m), IsLastVersion(d, n)
    PROVE  m = n
BY DEF IsLastVersion, Versions

\* A submission adds one row, the one after the last.
LEMMA CommitEffect ==
    ASSUME IInv, NEW w \in Workers, CommitSubmission(w)
    PROVE  /\ call[w].doc \in Documents
           /\ seen[w].last \in 0..MaxVersion
           /\ seen[w].last + 1 \in Versions
           /\ seen[w].author \in Users
           /\ IsLastVersion(call[w].doc, seen[w].last)
           /\ status[call[w].doc][seen[w].last + 1] = "ABSENT"
           /\ \A d \in Documents, v \in Versions :
                /\ status'[d][v] = IF d = call[w].doc /\ v = seen[w].last + 1
                                   THEN "PENDING" ELSE status[d][v]
                /\ author'[d][v] = IF d = call[w].doc /\ v = seen[w].last + 1
                                   THEN seen[w].author ELSE author[d][v]
           /\ auditor' = auditor
<1>1. call[w] \in SubmitCall /\ seen[w] \in SubmitSeen
  BY DEF IInv, TypeOK, CommitSubmission, SubmitSteps
<1>2. IsLastVersion(call[w].doc, seen[w].last) /\ seen[w].last < MaxVersion
  BY DEF IInv, InsertedVersionIsNext, CommitSubmission
<1>3. seen[w].last + 1 \in Versions /\ seen[w].last + 1 > seen[w].last
  BY <1>1, <1>2 DEF SubmitSeen, Versions
<1>4. /\ status' = [status EXCEPT ![call[w].doc][seen[w].last + 1] = "PENDING"]
      /\ author' = [author EXCEPT ![call[w].doc][seen[w].last + 1] = seen[w].author]
      /\ auditor' = auditor
  BY DEF CommitSubmission
<1>5. /\ status \in [Documents -> [Versions -> Status]]
      /\ author \in [Documents -> [Versions -> Users \cup {NoUser}]]
  BY DEF IInv, TypeOK
<1>6. \A d \in Documents, v \in Versions :
        /\ status'[d][v] = IF d = call[w].doc /\ v = seen[w].last + 1
                           THEN "PENDING" ELSE status[d][v]
        /\ author'[d][v] = IF d = call[w].doc /\ v = seen[w].last + 1
                           THEN seen[w].author ELSE author[d][v]
  BY <1>4, <1>5
<1>7. QED
  BY <1>1, <1>2, <1>3, <1>4, <1>6 DEF SubmitCall, SubmitSeen, IsLastVersion

\* A decision names an auditor for one pending row, who has no part in it.
LEMMA DecideEffect ==
    ASSUME IInv, NEW w \in Workers, ApproveRevision(w) \/ RejectRevision(w)
    PROVE  /\ call[w].doc \in Documents
           /\ call[w].version \in Versions
           /\ call[w].user \in Reviewers
           /\ status[call[w].doc][call[w].version] = "PENDING"
           /\ call[w].user # author[call[w].doc][call[w].version]
           /\ call[w].user # responsible[call[w].doc]
           /\ author' = author
           /\ \A d \in Documents, v \in Versions :
                auditor'[d][v] = IF d = call[w].doc /\ v = call[w].version
                                 THEN call[w].user ELSE auditor[d][v]
<1>1. pc[w] = "locked" /\ Accepted(w)
  BY DEF ApproveRevision, RejectRevision, Accepted
<1>2. call[w] \in DecideCall /\ seen[w] \in DecideSeen
  BY <1>1 DEF IInv, TypeOK, DecideSteps
<1>3. /\ seen[w].status = status[call[w].doc][call[w].version]
      /\ seen[w].author = author[call[w].doc][call[w].version]
      /\ seen[w].responsible = responsible[call[w].doc]
  BY <1>1 DEF IInv, DecisionReadsStayTrue
<1>4. /\ author' = author
      /\ auditor' = [auditor EXCEPT ![call[w].doc][call[w].version] = call[w].user]
  BY DEF ApproveRevision, RejectRevision
<1>5. auditor \in [Documents -> [Versions -> Users \cup {NoUser}]]
  BY DEF IInv, TypeOK
<1>6. \A d \in Documents, v \in Versions :
        auditor'[d][v] = IF d = call[w].doc /\ v = call[w].version
                         THEN call[w].user ELSE auditor[d][v]
  BY <1>4, <1>5
<1>7. QED
  BY <1>1, <1>2, <1>3, <1>4, <1>6 DEF Accepted, AlreadyDecided, OwnRevision, DecideCall

\* An approval leaves every version but two alone: the one it approves and the
\* one that was current, which is the older of the two.
LEMMA ApproveEffect ==
    ASSUME IInv, NEW w \in Workers, ApproveRevision(w)
    PROVE  /\ \A x \in Versions :
                status[call[w].doc][x] = "APPROVED" => x < call[w].version
           /\ \A d \in Documents, x \in Versions :
                status'[d][x] = IF d # call[w].doc THEN status[d][x]
                                ELSE IF x = call[w].version THEN "APPROVED"
                                ELSE IF status[d][x] = "APPROVED" THEN "OBSOLETE"
                                ELSE status[d][x]
<1> DEFINE d == call[w].doc
           v == call[w].version
           p == seen[w].previous
<1>1. pc[w] = "locked" /\ Accepted(w) /\ call[w].verdict = "APPROVED"
  BY DEF ApproveRevision, Accepted
<1>2. d \in Documents /\ v \in Versions /\ status[d][v] = "PENDING"
  BY DecideEffect
<1>3. p \in 0..MaxVersion
  BY <1>1 DEF IInv, TypeOK, DecideSeen
<1>4. IsCurrent(d, p)
  BY <1>1 DEF IInv, DecisionReadsStayTrue
<1>5. ~(p > v)
  BY <1>1 DEF Accepted, Outdated
<1>6. \A x \in Versions : status[d][x] = "APPROVED" <=> x = p
  BY <1>2, <1>4 DEF IInv, OneCurrent, IsCurrent, Versions
<1>7. \A x \in Versions : status[d][x] = "APPROVED" => x < v
  <2> SUFFICES ASSUME NEW x \in Versions, status[d][x] = "APPROVED"
               PROVE  x < v
    OBVIOUS
  <2>1. x = p /\ x # v
    BY <1>2, <1>6
  <2>2. QED
    BY <2>1, <1>2, <1>5 DEF Versions
<1>8. status' = [status EXCEPT ![d] = Supersede(status[d], p, v)]
  BY DEF ApproveRevision
<1>9. status \in [Documents -> [Versions -> Status]]
  BY DEF IInv, TypeOK
<1>10. \A e \in Documents : status'[e] = IF e = d THEN Supersede(status[d], p, v)
                                         ELSE status[e]
  BY <1>2, <1>8, <1>9
<1>11. \A x \in Versions :
         Supersede(status[d], p, v)[x] = IF x = v THEN "APPROVED"
                                         ELSE IF status[d][x] = "APPROVED" THEN "OBSOLETE"
                                         ELSE status[d][x]
  BY <1>6 DEF Supersede
<1>12. QED
  BY <1>7, <1>10, <1>11

\* An erasure changes no status.  The names it changes are those of the user,
\* who is gone afterwards; the decided revisions among them are noted.
LEMMA EraseEffect ==
    ASSUME IInv, NEW u \in Users, NEW r \in Users, EraseAccount(u, r)
    PROVE  /\ status' = status
           /\ erased' = erased \cup {u} /\ u \notin erased /\ r \notin erased'
           /\ lock' = lock
           /\ \A d \in Documents, v \in Versions :
                /\ author'[d][v] = IF author[d][v] = u THEN r ELSE author[d][v]
                /\ auditor'[d][v] = IF auditor[d][v] = u THEN r ELSE auditor[d][v]
BY DEF EraseAccount, Reassign, Replaced

LEMMA EraseIsNoted ==
    ASSUME NEW u \in Users, NEW r \in Users, EraseAccount(u, r),
           NEW d \in Documents, NEW v \in Versions,
           auditor[d][v] # NoUser, u \in {author[d][v], auditor[d][v]}
    PROVE  <<d, v>> \in inherited'
BY DEF EraseAccount

\* A rejection changes the status of one row.
LEMMA RejectEffect ==
    ASSUME IInv, NEW w \in Workers, RejectRevision(w)
    PROVE  \A d \in Documents, x \in Versions :
             status'[d][x] = IF d = call[w].doc /\ x = call[w].version
                             THEN "REJECTED" ELSE status[d][x]
<1>1. status' = [status EXCEPT ![call[w].doc][call[w].version] = "REJECTED"]
  BY DEF RejectRevision
<1>2. status \in [Documents -> [Versions -> Status]]
  BY DEF IInv, TypeOK
<1>3. QED
  BY <1>1, <1>2
--------------------------------------------------------------------------------
\* Each conjunct of the inductive invariant is preserved.

LEMMA InvInit == Init => IInv
<1> SUFFICES ASSUME Init PROVE IInv
  OBVIOUS
<1>1. TypeOK
  BY TypeInit
<1>2. /\ VersionsContiguous
      /\ OneCurrent
      /\ ObsoleteHasSuccessor
      /\ AuditorIsNotAuthor
  BY DEF Init, VersionsContiguous, OneCurrent, ObsoleteHasSuccessor,
         AuditorIsNotAuthor, Versions
<1>3. /\ DecisionReadsStayTrue
      /\ InsertedVersionIsNext
      /\ RequestsReferToRows
  BY DEF Init, DecisionReadsStayTrue, InsertedVersionIsNext,
         RequestsReferToRows, DecideSteps
<1>4. QED
  BY <1>1, <1>2, <1>3 DEF IInv

\* No step makes a row disappear.
LEMMA RowsStay ==
    ASSUME IInv, [Next]_vars, NEW d \in Documents, NEW v \in Versions,
           status[d][v] # "ABSENT"
    PROVE  status'[d][v] # "ABSENT"
<1>1. ASSUME NEW w \in Workers, CommitSubmission(w)
      PROVE  status'[d][v] # "ABSENT"
  BY <1>1, CommitEffect
<1>2. ASSUME NEW w \in Workers, ApproveRevision(w)
      PROVE  status'[d][v] # "ABSENT"
  BY <1>2, ApproveEffect
<1>3. ASSUME NEW w \in Workers, RejectRevision(w)
      PROVE  status'[d][v] # "ABSENT"
  BY <1>3, RejectEffect, DecideEffect
<1>4. QED
  BY <1>1, <1>2, <1>3, StatusSteps

LEMMA ContiguousStep ==
    ASSUME IInv, [Next]_vars
    PROVE  VersionsContiguous'
<1> SUFFICES ASSUME NEW d \in Documents, NEW v \in Versions,
                    status'[d][v] # "ABSENT",
                    NEW x \in 1..v
             PROVE  status'[d][x] # "ABSENT"
  BY DEF VersionsContiguous
<1>0. x \in Versions
  BY DEF Versions
<1>1. CASE status[d][v] # "ABSENT"
  BY <1>0, <1>1, RowsStay DEF IInv, VersionsContiguous
<1>2. CASE status[d][v] = "ABSENT"
  <2>1. PICK w \in Workers : CommitSubmission(w)
    <3>1. ASSUME NEW w \in Workers, ApproveRevision(w) PROVE FALSE
      BY <3>1, <1>2, ApproveEffect, DecideEffect
    <3>2. ASSUME NEW w \in Workers, RejectRevision(w) PROVE FALSE
      BY <3>2, <1>2, RejectEffect, DecideEffect
    <3>3. QED
      BY <3>1, <3>2, <1>2, StatusSteps
  <2>2. d = call[w].doc /\ v = seen[w].last + 1
    BY <1>2, <2>1, CommitEffect
  <2>3. CASE x = v
    BY <2>3
  <2>4. CASE x # v
    <3>1. x \in 1..seen[w].last /\ seen[w].last \in Versions
      BY <2>1, <2>2, <2>4, CommitEffect DEF Versions
    <3>2. status[d][seen[w].last] # "ABSENT"
      BY <3>1, <2>1, <2>2, CommitEffect DEF IsLastVersion, Versions
    <3>3. QED
      BY <1>0, <3>1, <3>2, RowsStay DEF IInv, VersionsContiguous
  <2>5. QED
    BY <2>3, <2>4
<1>3. QED
  BY <1>1, <1>2

LEMMA OneCurrentStep ==
    ASSUME IInv, [Next]_vars
    PROVE  OneCurrent'
<1> SUFFICES ASSUME NEW d \in Documents, NEW v \in Versions, NEW x \in Versions,
                    status'[d][v] = "APPROVED", status'[d][x] = "APPROVED"
             PROVE  v = x
  BY DEF OneCurrent
<1>0. OneCurrent
  BY DEF IInv
<1>1. ASSUME NEW w \in Workers, CommitSubmission(w)
      PROVE  v = x
  BY <1>1, CommitEffect, <1>0 DEF OneCurrent
<1>2. ASSUME NEW w \in Workers, ApproveRevision(w)
      PROVE  v = x
  BY <1>0, <1>2, ApproveEffect DEF OneCurrent
<1>3. ASSUME NEW w \in Workers, RejectRevision(w)
      PROVE  v = x
  BY <1>3, RejectEffect, DecideEffect, <1>0 DEF OneCurrent
<1>4. QED
  BY <1>0, <1>1, <1>2, <1>3, StatusSteps DEF OneCurrent

LEMMA ObsoleteStep ==
    ASSUME IInv, [Next]_vars
    PROVE  ObsoleteHasSuccessor'
<1> SUFFICES ASSUME NEW d \in Documents, NEW v \in Versions,
                    status'[d][v] = "OBSOLETE"
             PROVE  \E x \in Versions : x > v /\ status'[d][x] = "APPROVED"
  BY DEF ObsoleteHasSuccessor
<1>0. ObsoleteHasSuccessor
  BY DEF IInv
<1>1. ASSUME NEW w \in Workers, CommitSubmission(w)
      PROVE  \E x \in Versions : x > v /\ status'[d][x] = "APPROVED"
  <2>1. status[d][v] = "OBSOLETE"
    BY <1>1, CommitEffect
  <2>2. PICK x \in Versions : x > v /\ status[d][x] = "APPROVED"
    BY <1>0, <2>1 DEF ObsoleteHasSuccessor
  <2>3. status'[d][x] = "APPROVED"
    BY <1>1, <2>2, CommitEffect
  <2>4. QED
    BY <2>2, <2>3
<1>2. ASSUME NEW w \in Workers, ApproveRevision(w)
      PROVE  \E x \in Versions : x > v /\ status'[d][x] = "APPROVED"
  <2>1. CASE d # call[w].doc
    BY <1>0, <1>2, <2>1, ApproveEffect DEF ObsoleteHasSuccessor
  <2>2. CASE d = call[w].doc
    <3>1. /\ call[w].version \in Versions
          /\ status'[d][call[w].version] = "APPROVED"
      BY <1>2, <2>2, ApproveEffect, DecideEffect
    <3>2. \A y \in Versions : status[d][y] = "APPROVED" => y < call[w].version
      BY <1>2, <2>2, ApproveEffect
    <3>3. status[d][v] \in {"APPROVED", "OBSOLETE"}
      BY <1>2, <2>2, ApproveEffect
    <3>4. CASE status[d][v] = "APPROVED"
      BY <3>1, <3>2, <3>4 DEF Versions
    <3>5. CASE status[d][v] = "OBSOLETE"
      <4>1. PICK y \in Versions : y > v /\ status[d][y] = "APPROVED"
        BY <1>0, <3>5 DEF ObsoleteHasSuccessor
      <4>2. call[w].version > v
        BY <3>1, <3>2, <4>1 DEF Versions
      <4>3. QED
        BY <3>1, <4>2
    <3>6. QED
      BY <3>3, <3>4, <3>5
  <2>3. QED
    BY <2>1, <2>2
<1>3. ASSUME NEW w \in Workers, RejectRevision(w)
      PROVE  \E x \in Versions : x > v /\ status'[d][x] = "APPROVED"
  <2>1. status[d][v] = "OBSOLETE"
    BY <1>3, RejectEffect, DecideEffect
  <2>2. PICK x \in Versions : x > v /\ status[d][x] = "APPROVED"
    BY <1>0, <2>1 DEF ObsoleteHasSuccessor
  <2>3. status'[d][x] = "APPROVED"
    BY <1>3, <2>2, RejectEffect, DecideEffect
  <2>4. QED
    BY <2>2, <2>3
<1>4. QED
  BY <1>1, <1>2, <1>3, <1>0, StatusSteps DEF ObsoleteHasSuccessor

LEMMA AuditorStep ==
    ASSUME IInv, [Next]_vars
    PROVE  AuditorIsNotAuthor'
<1> DEFINE Apart(d, v) == \/ auditor[d][v] \in Reviewers \ {author[d][v]}
                          \/ <<d, v>> \in inherited
           ApartAfter(d, v) == \/ auditor'[d][v] \in Reviewers \ {author'[d][v]}
                               \/ <<d, v>> \in inherited'
<1> SUFFICES ASSUME NEW d \in Documents, NEW v \in Versions,
                    status'[d][v] \in {"APPROVED", "REJECTED", "OBSOLETE"}
             PROVE  ApartAfter(d, v)
  BY DEF AuditorIsNotAuthor
<1>0. AuditorIsNotAuthor /\ inherited \subseteq inherited'
  BY InheritedSteps DEF IInv
<1>1. ASSUME NEW w \in Workers, CommitSubmission(w)
      PROVE  ApartAfter(d, v)
  BY <1>1, CommitEffect, <1>0 DEF AuditorIsNotAuthor
<1>2. ASSUME NEW w \in Workers, ApproveRevision(w)
      PROVE  ApartAfter(d, v)
  <2>1. CASE d = call[w].doc /\ v = call[w].version
    BY <1>2, <2>1, DecideEffect
  <2>2. CASE ~(d = call[w].doc /\ v = call[w].version)
    <3>1. status[d][v] \in {"APPROVED", "REJECTED", "OBSOLETE"}
      BY <1>2, <2>2, ApproveEffect
    <3>2. auditor'[d][v] = auditor[d][v] /\ author' = author
      BY <1>2, <2>2, DecideEffect
    <3>3. QED
      BY <1>0, <3>1, <3>2 DEF AuditorIsNotAuthor
  <2>3. QED
    BY <2>1, <2>2
<1>3. ASSUME NEW w \in Workers, RejectRevision(w)
      PROVE  ApartAfter(d, v)
  <2>1. CASE d = call[w].doc /\ v = call[w].version
    BY <1>3, <2>1, DecideEffect
  <2>2. CASE ~(d = call[w].doc /\ v = call[w].version)
    <3>1. status[d][v] \in {"APPROVED", "REJECTED", "OBSOLETE"}
      BY <1>3, <2>2, RejectEffect
    <3>2. auditor'[d][v] = auditor[d][v] /\ author' = author
      BY <1>3, <2>2, DecideEffect
    <3>3. QED
      BY <1>0, <3>1, <3>2 DEF AuditorIsNotAuthor
  <2>3. QED
    BY <2>1, <2>2
<1>4. ASSUME NEW u \in Users, NEW r \in Users, EraseAccount(u, r)
      PROVE  ApartAfter(d, v)
  <2>1. Apart(d, v)
    BY <1>0, <1>4, EraseEffect DEF AuditorIsNotAuthor
  <2>2. CASE u \in {author[d][v], auditor[d][v]} /\ auditor[d][v] # NoUser
    BY <1>4, <2>2, EraseIsNoted
  <2>3. CASE u \notin {author[d][v], auditor[d][v]}
    BY <1>0, <1>4, <2>1, <2>3, EraseEffect
  <2>4. QED
    BY <1>0, <2>1, <2>2, <2>3 DEF IInv, TypeOK
<1>5. CASE UNCHANGED revisionTable
  BY <1>0, <1>5 DEF revisionTable, AuditorIsNotAuthor
<1>6. QED
  BY <1>1, <1>2, <1>3, <1>4, <1>5, WriteSteps
--------------------------------------------------------------------------------
\* What the steps do to the local state of a request.

\* A request keeps its state, ends, starts, or takes one of four steps whose
\* result the invariant speaks of.
LEMMA LocalSteps ==
    ASSUME TypeOK, [Next]_vars, NEW o \in Workers
    PROVE  \/ pc'[o] = pc[o] /\ call'[o] = call[o] /\ seen'[o] = seen[o]
           \/ pc'[o] \in {"idle", "revisable"} \cup ArchiveSteps
           \/ \E d \in Documents, v \in Versions, u \in Reviewers, x \in Verdicts :
                FindRevision(o, d, v, u, x)
           \/ ReadLastVersion(o)
           \/ InsertRevision(o)
           \/ LockDocument(o)
<1> DEFINE Goal == \/ pc'[o] = pc[o] /\ call'[o] = call[o] /\ seen'[o] = seen[o]
                   \/ pc'[o] \in {"idle", "revisable"} \cup ArchiveSteps
                   \/ \E d \in Documents, v \in Versions, u \in Reviewers,
                         x \in Verdicts : FindRevision(o, d, v, u, x)
                   \/ ReadLastVersion(o)
                   \/ InsertRevision(o)
                   \/ LockDocument(o)
<1>0. /\ pc \in [Workers -> Steps]
      /\ DOMAIN call = Workers
      /\ DOMAIN seen = Workers
  BY DEF TypeOK
<1>1. ASSUME NEW w \in Workers, Arrive(w)
      PROVE  Goal
  <2>1. PICK d \in Documents :
          \/ FindRevisable(w, d)
          \/ \E v \in Versions, u \in Reviewers, x \in Verdicts :
               FindRevision(w, d, v, u, x)
          \/ \E u \in Users : FindToArchive(w, d, u) \/ FindToRestore(w, d, u)
    BY <1>1 DEF Arrive
  <2>2. CASE FindRevisable(w, d)
    BY <1>0, <2>2 DEF FindRevisable
  <2>3. ASSUME NEW v \in Versions, NEW u \in Reviewers, NEW x \in Verdicts,
               FindRevision(w, d, v, u, x)
        PROVE  Goal
    <3>1. CASE w = o
      BY <2>3, <3>1
    <3>2. CASE w # o
      BY <1>0, <2>3, <3>2 DEF FindRevision
    <3>3. QED
      BY <3>1, <3>2
  <2>4. ASSUME NEW u \in Users, FindToArchive(w, d, u) \/ FindToRestore(w, d, u)
        PROVE  Goal
    BY <1>0, <2>4 DEF FindToArchive, FindToRestore, ArchiveSteps
  <2>5. QED
    BY <2>1, <2>2, <2>3, <2>4
<1>2. ASSUME NEW w \in Workers, End(w)
      PROVE  Goal
  BY <1>0, <1>2 DEF End
<1>3. ASSUME NEW w \in Workers, Proceed(w) \/ Fail(w)
      PROVE  Goal
  <2>1. CASE End(w)
    BY <1>2, <2>1
  <2>2. CASE ReadLastVersion(w) \/ InsertRevision(w) \/ LockDocument(w)
    <3>1. CASE w = o
      BY <2>2, <3>1
    <3>2. CASE w # o
      BY <1>0, <2>2, <3>2 DEF ReadLastVersion, InsertRevision, LockDocument
    <3>3. QED
      BY <3>1, <3>2
  <2>3. QED
    BY <1>3, <2>1, <2>2
       DEF Proceed, Fail, RefuseInsert, CommitSubmission, RefuseDecision,
           ApproveRevision, RejectRevision, ArchiveDocument, RestoreDocument,
           RefuseArchiving, RefuseOrphan
<1>4. CASE Environment \/ UNCHANGED vars
  BY <1>4 DEF Environment, HandOver, SwitchType, EraseAccount, vars, local
<1>5. QED
  BY <1>1, <1>3, <1>4 DEF Next

LEMMA RefersStep ==
    ASSUME IInv, [Next]_vars
    PROVE  RequestsReferToRows'
<1> SUFFICES ASSUME NEW o \in Workers
             PROVE  /\ pc'[o] \in DecideSteps =>
                         status'[call'[o].doc][call'[o].version] # "ABSENT"
                    /\ pc'[o] \in {"numbered", "inserted"} =>
                         \/ seen'[o].last = 0
                         \/ status'[call'[o].doc][seen'[o].last] # "ABSENT"
  BY DEF RequestsReferToRows
<1>0. TypeOK /\ RequestsReferToRows
  BY DEF IInv
<1>1. CASE pc'[o] = pc[o] /\ call'[o] = call[o] /\ seen'[o] = seen[o]
  <2>1. CASE pc[o] \in DecideSteps
    <3>1. /\ call[o].doc \in Documents /\ call[o].version \in Versions
          /\ status[call[o].doc][call[o].version] # "ABSENT"
      BY <1>0, <2>1 DEF TypeOK, DecideCall, RequestsReferToRows
    <3>2. QED
      BY <1>1, <2>1, <3>1, RowsStay DEF DecideSteps
  <2>2. CASE pc[o] \in {"numbered", "inserted"}
    <3>1. /\ call[o].doc \in Documents /\ seen[o].last \in 0..MaxVersion
          /\ seen[o].last = 0 \/ status[call[o].doc][seen[o].last] # "ABSENT"
      BY <1>0, <2>2 DEF TypeOK, SubmitCall, SubmitSeen, SubmitSteps,
                        RequestsReferToRows
    <3>2. seen[o].last = 0 \/ seen[o].last \in Versions
      BY <3>1 DEF Versions
    <3>3. QED
      BY <1>1, <2>2, <3>1, <3>2, RowsStay DEF DecideSteps
  <2>3. QED
    BY <1>1, <2>1, <2>2
<1>2. CASE pc'[o] \in {"idle", "revisable"} \cup ArchiveSteps
  BY <1>2 DEF ArchiveSteps, DecideSteps
<1>3. ASSUME NEW d \in Documents, NEW v \in Versions, NEW u \in Reviewers,
             NEW x \in Verdicts, FindRevision(o, d, v, u, x)
      PROVE  pc'[o] = "found" /\ status'[call'[o].doc][call'[o].version] # "ABSENT"
  BY <1>0, <1>3 DEF TypeOK, FindRevision, revisionTable
<1>4. CASE ReadLastVersion(o)
  <2>1. PICK n \in 0..MaxVersion : /\ IsLastVersion(call[o].doc, n)
                                  /\ seen' = [seen EXCEPT ![o].last = n]
    BY <1>4 DEF ReadLastVersion
  <2>2. seen[o] \in SubmitSeen
    BY <1>0, <1>4 DEF TypeOK, ReadLastVersion, SubmitSteps
  <2>3. seen'[o].last = n /\ call' = call /\ status' = status
    BY <1>0, <1>4, <2>1, <2>2 DEF TypeOK, SubmitSeen, ReadLastVersion, revisionTable
  <2>4. pc'[o] = "numbered"
    BY <1>0, <1>4 DEF TypeOK, ReadLastVersion
  <2>5. QED
    BY <2>1, <2>3, <2>4 DEF IsLastVersion, DecideSteps
<1>5. CASE InsertRevision(o)
  BY <1>0, <1>5 DEF TypeOK, InsertRevision, RequestsReferToRows, revisionTable,
                    DecideSteps
<1>6. CASE LockDocument(o)
  BY <1>0, <1>6 DEF TypeOK, LockDocument, RequestsReferToRows, revisionTable,
                    DecideSteps
<1>7. QED
  BY <1>0, <1>1, <1>2, <1>3, <1>4, <1>5, <1>6, LocalSteps

\* A locked document does not change under the decision that holds it.
LEMMA LockedDocumentIsStable ==
    ASSUME IInv, [Next]_vars, NEW o \in Workers, NEW d \in Documents,
           NEW v \in Versions, d = call[o].doc, v = call[o].version,
           lock[d] = o, pc[o] = "locked", pc'[o] = "locked"
    PROVE  /\ lock'[d] = o
           /\ status'[d] = status[d]
           /\ author'[d][v] = author[d][v]
           /\ responsible'[d] = responsible[d]
<1> DEFINE Goal == /\ lock'[d] = o
                   /\ status'[d] = status[d]
                   /\ author'[d][v] = author[d][v]
                   /\ responsible'[d] = responsible[d]
<1>0. TypeOK /\ o # NoWorker
  BY DEF IInv
<1>1. ASSUME NEW w \in Workers, End(w)
      PROVE  lock'[d] = o
  BY <1>0, <1>1 DEF End, TypeOK
<1>2. ASSUME NEW w \in Workers, Arrive(w)
      PROVE  Goal
  BY <1>2 DEF Arrive, FindRevisable, FindRevision, FindToArchive, FindToRestore,
              revisionTable, documentTable, surroundings
<1>3. ASSUME NEW w \in Workers, CommitSubmission(w)
      PROVE  Goal
  <2>1. call[w].doc # d
    BY <1>0, <1>3 DEF CommitSubmission
  <2>2. QED
    BY <1>0, <1>1, <1>3, <2>1 DEF CommitSubmission, TypeOK, documentTable
<1>4. ASSUME NEW w \in Workers, ApproveRevision(w) \/ RejectRevision(w)
      PROVE  Goal
  <2>1. pc[w] = "locked" /\ pc'[w] = "idle"
    BY <1>0, <1>4 DEF ApproveRevision, RejectRevision, Accepted, End, TypeOK
  <2>2. lock[call[w].doc] = w
    BY <2>1 DEF IInv, DecisionReadsStayTrue
  <2>3. call[w].doc # d
    BY <2>1, <2>2
  <2>4. QED
    BY <1>0, <1>1, <1>4, <2>3 DEF ApproveRevision, RejectRevision, TypeOK,
                                  documentTable
<1>5. ASSUME NEW w \in Workers, LockDocument(w)
      PROVE  Goal
  <2>1. call[w].doc # d
    BY <1>0, <1>5 DEF LockDocument
  <2>2. QED
    BY <1>0, <1>5, <2>1 DEF LockDocument, TypeOK, revisionTable, documentTable, surroundings
<1>6. ASSUME NEW w \in Workers, Proceed(w) \/ Fail(w)
      PROVE  Goal
  BY <1>1, <1>3, <1>4, <1>5, <1>6
     DEF Proceed, Fail, ReadLastVersion, InsertRevision, RefuseInsert,
         RefuseDecision, ArchiveDocument, RestoreDocument, RefuseArchiving,
         RefuseOrphan, revisionTable, documentTable, surroundings
<1>7. ASSUME NEW e \in Documents, NEW u \in Users, HandOver(e, u)
      PROVE  Goal
  BY <1>0, <1>7 DEF HandOver, TypeOK, revisionTable
<1>8. ASSUME NEW e \in Documents, SwitchType(e)
      PROVE  Goal
  BY <1>8 DEF SwitchType, revisionTable, documentTable, surroundings
<1>9. CASE UNCHANGED vars
  BY <1>9 DEF vars
<1>10. ASSUME NEW u \in Users, NEW r \in Users, EraseAccount(u, r)
       PROVE  Goal
  <2>1. d \in Documents /\ lock[d] # NoWorker
    BY <1>0
  <2>2. u \notin {responsible[d], author[d][v]}
    BY <1>10, <2>1 DEF EraseAccount, HoldsRowOf
  <2>3. responsible'[d] = responsible[d]
    BY <1>10, <2>1, <2>2 DEF EraseAccount, Reassign, Replaced
  <2>4. QED
    BY <1>10, <2>1, <2>2, <2>3, EraseEffect
<1>11. QED
  BY <1>2, <1>6, <1>7, <1>8, <1>9, <1>10 DEF Next, Environment

LEMMA ReadsStep ==
    ASSUME IInv, [Next]_vars
    PROVE  DecisionReadsStayTrue'
<1> SUFFICES ASSUME NEW o \in Workers, pc'[o] = "locked"
             PROVE  /\ lock'[call'[o].doc] = o
                    /\ seen'[o].status = status'[call'[o].doc][call'[o].version]
                    /\ seen'[o].author = author'[call'[o].doc][call'[o].version]
                    /\ seen'[o].responsible = responsible'[call'[o].doc]
                    /\ IsCurrent(call[o].doc, seen[o].previous)'
  BY DEF DecisionReadsStayTrue
<1>0. TypeOK /\ DecisionReadsStayTrue
  BY DEF IInv
<1>1. CASE pc'[o] = pc[o] /\ call'[o] = call[o] /\ seen'[o] = seen[o]
  <2>1. /\ call[o].doc \in Documents /\ call[o].version \in Versions
        /\ lock[call[o].doc] = o
        /\ seen[o].status = status[call[o].doc][call[o].version]
        /\ seen[o].author = author[call[o].doc][call[o].version]
        /\ seen[o].responsible = responsible[call[o].doc]
        /\ IsCurrent(call[o].doc, seen[o].previous)
    BY <1>0, <1>1 DEF TypeOK, DecideSteps, DecideCall, DecisionReadsStayTrue
  <2>2. /\ lock'[call[o].doc] = o
        /\ status'[call[o].doc] = status[call[o].doc]
        /\ author'[call[o].doc][call[o].version] = author[call[o].doc][call[o].version]
        /\ responsible'[call[o].doc] = responsible[call[o].doc]
    BY <1>1, <2>1, LockedDocumentIsStable
  <2>3. QED
    BY <1>1, <2>1, <2>2 DEF IsCurrent
<1>2. CASE LockDocument(o)
  <2>1. PICK p \in 0..MaxVersion :
          /\ IsCurrent(call[o].doc, p)
          /\ seen' = [seen EXCEPT ![o] =
               [status |-> status[call[o].doc][call[o].version],
                author |-> author[call[o].doc][call[o].version],
                responsible |-> responsible[call[o].doc], previous |-> p]]
    BY <1>2 DEF LockDocument
  <2>2. /\ call[o].doc \in Documents
        /\ lock' = [lock EXCEPT ![call[o].doc] = o]
        /\ status' = status /\ author' = author /\ responsible' = responsible
        /\ call' = call
    BY <1>0, <1>2 DEF TypeOK, DecideSteps, DecideCall, LockDocument,
                      revisionTable, documentTable, surroundings
  <2>3. /\ seen'[o].status = status[call[o].doc][call[o].version]
        /\ seen'[o].author = author[call[o].doc][call[o].version]
        /\ seen'[o].responsible = responsible[call[o].doc]
        /\ seen'[o].previous = p
    BY <1>0, <2>1 DEF TypeOK
  <2>4. lock'[call[o].doc] = o
    BY <1>0, <2>2 DEF TypeOK
  <2>5. QED
    BY <2>1, <2>2, <2>3, <2>4 DEF IsCurrent
<1>3. ASSUME NEW d \in Documents, NEW v \in Versions, NEW u \in Reviewers,
             NEW x \in Verdicts, FindRevision(o, d, v, u, x)
      PROVE  FALSE
  BY <1>0, <1>3 DEF TypeOK, FindRevision
<1>4. CASE ReadLastVersion(o) \/ InsertRevision(o)
  BY <1>0, <1>4 DEF TypeOK, ReadLastVersion, InsertRevision
<1>5. QED
  BY <1>0, <1>1, <1>2, <1>3, <1>4, LocalSteps DEF ArchiveSteps

\* A step of another request leaves the last version of a document alone, as
\* long as it does not commit a submission to it.
LEMMA LastVersionStays ==
    ASSUME IInv, [Next]_vars, NEW d \in Documents, NEW n \in 0..MaxVersion,
           IsLastVersion(d, n),
           \A w \in Workers : CommitSubmission(w) => call[w].doc # d
    PROVE  IsLastVersion(d, n)'
<1>1. \A v \in Versions : status'[d][v] = "ABSENT" <=> status[d][v] = "ABSENT"
  <2> SUFFICES ASSUME NEW v \in Versions
               PROVE  status'[d][v] = "ABSENT" <=> status[d][v] = "ABSENT"
    OBVIOUS
  <2>1. ASSUME NEW w \in Workers, CommitSubmission(w)
        PROVE  status'[d][v] = "ABSENT" <=> status[d][v] = "ABSENT"
    BY <2>1, CommitEffect
  <2>2. ASSUME NEW w \in Workers, ApproveRevision(w)
        PROVE  status'[d][v] = "ABSENT" <=> status[d][v] = "ABSENT"
    BY <2>2, ApproveEffect, DecideEffect
  <2>3. ASSUME NEW w \in Workers, RejectRevision(w)
        PROVE  status'[d][v] = "ABSENT" <=> status[d][v] = "ABSENT"
    BY <2>3, RejectEffect, DecideEffect
  <2>4. QED
    BY <2>1, <2>2, <2>3, StatusSteps
<1>2. QED
  BY <1>1 DEF IsLastVersion

LEMMA InsertedStep ==
    ASSUME IInv, [Next]_vars
    PROVE  InsertedVersionIsNext'
<1>0. TypeOK /\ InsertedVersionIsNext /\ VersionsContiguous /\ RequestsReferToRows
  BY DEF IInv
<1> DEFINE Kept(o) == pc'[o] = pc[o] /\ call'[o] = call[o] /\ seen'[o] = seen[o]
\* An inserted revision was inserted before, or is inserted by this step.
<1>1. ASSUME NEW o \in Workers, pc'[o] = "inserted"
      PROVE  /\ call'[o] = call[o] /\ seen'[o] = seen[o]
             /\ (pc[o] = "inserted" /\ Kept(o)) \/ InsertRevision(o)
             /\ call[o].doc \in Documents /\ seen[o].last \in 0..MaxVersion
  <2>1. Kept(o) \/ InsertRevision(o)
    BY <1>0, <1>1, LocalSteps
       DEF TypeOK, FindRevision, ReadLastVersion, LockDocument, ArchiveSteps
  <2>2. pc[o] \in SubmitSteps
    BY <1>1, <2>1 DEF InsertRevision, SubmitSteps
  <2>3. call[o].doc \in Documents /\ seen[o].last \in 0..MaxVersion
    BY <1>0, <2>2 DEF TypeOK, SubmitCall, SubmitSeen
  <2>4. QED
    BY <1>1, <2>1, <2>3 DEF InsertRevision
\* No two of them have the same key.
<1>2. ASSUME NEW o \in Workers, NEW q \in Workers \ {o},
             pc'[o] = "inserted", pc'[q] = "inserted",
             call'[q].doc = call'[o].doc, seen'[q].last = seen'[o].last
      PROVE  FALSE
  <2>1. call[q].doc = call[o].doc /\ seen[q].last = seen[o].last
    BY <1>1, <1>2
  <2>2. CASE pc[o] = "inserted" /\ pc[q] = "inserted"
    BY <1>0, <2>1, <2>2 DEF InsertedVersionIsNext, KeyInFlight
  <2>3. CASE InsertRevision(o)
    <3>1. pc[q] = "inserted" \/ InsertRevision(q)
      BY <1>1, <1>2
    <3>2. CASE InsertRevision(q)
      BY <1>0, <2>3, <3>2 DEF InsertRevision, TypeOK
    <3>3. CASE pc[q] = "inserted"
      BY <2>1, <2>3, <3>3 DEF InsertRevision, KeyInFlight
    <3>4. QED
      BY <3>1, <3>2, <3>3
  <2>4. CASE InsertRevision(q)
    <3>1. pc[o] = "inserted" \/ InsertRevision(o)
      BY <1>1, <1>2
    <3>2. CASE pc[o] = "inserted"
      BY <2>1, <2>4, <3>2 DEF InsertRevision, KeyInFlight
    <3>3. QED
      BY <2>3, <3>1, <3>2
  <2>5. QED
    BY <1>1, <1>2, <2>2, <2>3, <2>4
\* Its version is the next one now.
<1>3. ASSUME NEW o \in Workers, pc'[o] = "inserted"
      PROVE  IsLastVersion(call[o].doc, seen[o].last) /\ seen[o].last < MaxVersion
  <2>1. CASE pc[o] = "inserted"
    BY <1>0, <2>1 DEF InsertedVersionIsNext
  <2>2. CASE InsertRevision(o)
    <3> DEFINE d == call[o].doc
               n == seen[o].last
    <3>1. d \in Documents /\ n \in 0..MaxVersion
      BY <1>1, <1>3
    <3>2. n + 1 \in Versions /\ status[d][n + 1] = "ABSENT"
      BY <2>2 DEF InsertRevision, VersionTaken
    <3>3. n = 0 \/ status[d][n] # "ABSENT"
      BY <1>0, <2>2 DEF InsertRevision, RequestsReferToRows
    <3>4. ASSUME NEW v \in Versions, v > n
          PROVE  status[d][v] = "ABSENT"
      <4>1. n + 1 \in 1..v
        BY <3>1, <3>4 DEF Versions
      <4>2. QED
        BY <1>0, <3>1, <3>2, <4>1 DEF VersionsContiguous
    <3>5. n = 0 \/ n \in Versions
      BY <3>1 DEF Versions
    <3>6. n < MaxVersion
      BY <3>1, <3>2 DEF Versions
    <3>7. QED
      BY <3>3, <3>4, <3>5, <3>6 DEF IsLastVersion
  <2>3. QED
    BY <1>1, <1>3, <2>1, <2>2
\* It stays the next one: nobody else commits to the document.
<1>4. ASSUME NEW o \in Workers, pc'[o] = "inserted"
      PROVE  IsLastVersion(call[o].doc, seen[o].last)'
  <2>1. ASSUME NEW w \in Workers, CommitSubmission(w), call[w].doc = call[o].doc
        PROVE  FALSE
    <3>1. pc[w] = "inserted" /\ pc'[w] = "idle"
      BY <1>0, <2>1 DEF CommitSubmission, End, TypeOK
    <3>2. w # o /\ ~InsertRevision(o)
      BY <1>0, <1>4, <2>1, <3>1 DEF CommitSubmission, InsertRevision, End, TypeOK
    <3>3. pc[o] = "inserted"
      BY <1>1, <1>4, <3>2
    <3>4. seen[w].last = seen[o].last
      BY <1>0, <1>1, <1>3, <1>4, <2>1, CommitEffect, LastVersionUnique
    <3>5. QED
      BY <1>0, <2>1, <3>1, <3>2, <3>3, <3>4 DEF InsertedVersionIsNext, KeyInFlight
  <2>2. call[o].doc \in Documents /\ seen[o].last \in 0..MaxVersion
    BY <1>1, <1>4
  <2>3. IsLastVersion(call[o].doc, seen[o].last)
    BY <1>3, <1>4
  <2>4. QED
    BY <1>1, <1>4, <2>1, <2>2, <2>3, LastVersionStays
<1>5. QED
  BY <1>1, <1>2, <1>3, <1>4 DEF InsertedVersionIsNext, KeyInFlight
--------------------------------------------------------------------------------
LEMMA InvStep == IInv /\ [Next]_vars => IInv'
<1> SUFFICES ASSUME IInv, [Next]_vars PROVE IInv'
  OBVIOUS
<1>1. TypeOK'
  BY TypeStep DEF IInv
<1>2. QED
  BY <1>1, ContiguousStep, OneCurrentStep, ObsoleteStep, AuditorStep, ReadsStep,
     InsertedStep, RefersStep DEF IInv

\* The inductive invariant holds in every reachable state.
THEOREM Invariance == Spec => []IInv
BY InvInit, InvStep, PTL DEF Spec

\* Whatever the interleaving, the revisions of a document are numbered without
\* gaps and at most one of them is the current one.
THEOREM RegisterIsSound ==
    Spec => [](VersionsContiguous /\ OneCurrent /\ ObsoleteHasSuccessor)
<1>1. IInv => VersionsContiguous /\ OneCurrent /\ ObsoleteHasSuccessor
  BY DEF IInv
<1>2. QED
  BY <1>1, Invariance, PTL

\* Nobody ever audits a revision of their own: only an erasure that comes later
\* can put one name in both places.
THEOREM AuditorsAreIndependent == Spec => []AuditorIsNotAuthor
<1>1. IInv => AuditorIsNotAuthor
  BY DEF IInv
<1>2. QED
  BY <1>1, Invariance, PTL

\* The locks are enough: what a decision has read is true until it writes, and
\* an uncommitted revision has the next free version to itself.
THEOREM LocksSuffice == Spec => [](DecisionReadsStayTrue /\ InsertedVersionIsNext)
<1>1. IInv => DecisionReadsStayTrue /\ InsertedVersionIsNext
  BY DEF IInv
<1>2. QED
  BY <1>1, Invariance, PTL

\* Decisions are final: no step undoes one, and only the erasure of its auditor
\* names another user in the auditor's place.
THEOREM DecisionsAreFinal == Spec => DecisionIsFinal
<1> DEFINE Final == \A d \in Documents : \A v \in Versions :
         LET before == status[d][v]
             after == status'[d][v]
         IN  /\ before # after =>
                  \/ before = "ABSENT" /\ after = "PENDING"
                  \/ before = "PENDING" /\ after \in Verdicts
                  \/ before = "APPROVED" /\ after = "OBSOLETE"
             /\ before \in {"APPROVED", "REJECTED", "OBSOLETE"} =>
                  \/ auditor'[d][v] = auditor[d][v]
                  \/ /\ auditor[d][v] \in erased' \ erased
                     /\ auditor'[d][v] \in Users \ erased'
<1>1. ASSUME IInv, [Next]_vars
      PROVE  Final
  <2> SUFFICES ASSUME NEW d \in Documents, NEW v \in Versions
               PROVE  LET before == status[d][v]
                          after == status'[d][v]
                      IN  /\ before # after =>
                               \/ before = "ABSENT" /\ after = "PENDING"
                               \/ before = "PENDING" /\ after \in Verdicts
                               \/ before = "APPROVED" /\ after = "OBSOLETE"
                          /\ before \in {"APPROVED", "REJECTED", "OBSOLETE"} =>
                               \/ auditor'[d][v] = auditor[d][v]
                               \/ /\ auditor[d][v] \in erased' \ erased
                                  /\ auditor'[d][v] \in Users \ erased'
    OBVIOUS
  <2>1. ASSUME NEW w \in Workers, CommitSubmission(w)
        PROVE  /\ status'[d][v] # status[d][v] =>
                    status[d][v] = "ABSENT" /\ status'[d][v] = "PENDING"
               /\ auditor' = auditor
    BY <1>1, <2>1, CommitEffect
  <2>2. ASSUME NEW w \in Workers, ApproveRevision(w)
        PROVE  /\ status'[d][v] # status[d][v] =>
                    \/ status[d][v] = "PENDING" /\ status'[d][v] = "APPROVED"
                    \/ status[d][v] = "APPROVED" /\ status'[d][v] = "OBSOLETE"
               /\ status[d][v] # "PENDING" => auditor'[d][v] = auditor[d][v]
    BY <1>1, <2>2, ApproveEffect, DecideEffect
  <2>3. ASSUME NEW w \in Workers, RejectRevision(w)
        PROVE  /\ status'[d][v] # status[d][v] =>
                    status[d][v] = "PENDING" /\ status'[d][v] = "REJECTED"
               /\ status[d][v] # "PENDING" => auditor'[d][v] = auditor[d][v]
    BY <1>1, <2>3, RejectEffect, DecideEffect
  <2>4. ASSUME NEW u \in Users, NEW r \in Users, EraseAccount(u, r)
        PROVE  /\ status' = status
               /\ \/ auditor'[d][v] = auditor[d][v]
                  \/ /\ auditor[d][v] \in erased' \ erased
                     /\ auditor'[d][v] \in Users \ erased'
    <3>1. /\ status' = status
          /\ erased' = erased \cup {u} /\ u \notin erased /\ r \notin erased'
          /\ auditor'[d][v] = IF auditor[d][v] = u THEN r ELSE auditor[d][v]
      BY <1>1, <2>4, EraseEffect
    <3>2. QED
      BY <3>1
  <2>5. QED
    BY <1>1, <2>1, <2>2, <2>3, <2>4, WriteSteps DEF revisionTable, Verdicts
<1>2. IInv /\ [Next]_vars => [Final]_vars
  BY <1>1
<1>3. QED
  BY <1>2, Invariance, PTL DEF Spec, DecisionIsFinal

\* The current revision is never lost and never replaced by an older one.
THEOREM CurrentNeverRegresses == Spec => CurrentMovesForward
<1> DEFINE Forward == \A d \in Documents : \A v \in Versions :
         status[d][v] = "APPROVED" =>
             \E x \in Versions : x >= v /\ status'[d][x] = "APPROVED"
<1>1. ASSUME IInv, [Next]_vars
      PROVE  Forward
  <2> SUFFICES ASSUME NEW d \in Documents, NEW v \in Versions,
                      status[d][v] = "APPROVED"
               PROVE  \E x \in Versions : x >= v /\ status'[d][x] = "APPROVED"
    OBVIOUS
  <2>1. CASE status'[d][v] = "APPROVED"
    BY <2>1 DEF Versions
  <2>2. CASE status'[d][v] # "APPROVED"
    <3>1. PICK w \in Workers : ApproveRevision(w)
      <4>1. ASSUME NEW w \in Workers, CommitSubmission(w) PROVE FALSE
        BY <1>1, <2>2, <4>1, CommitEffect
      <4>2. ASSUME NEW w \in Workers, RejectRevision(w) PROVE FALSE
        BY <1>1, <2>2, <4>2, RejectEffect, DecideEffect
      <4>3. QED
        BY <1>1, <2>2, <4>1, <4>2, StatusSteps
    <3>2. /\ d = call[w].doc
          /\ call[w].version \in Versions
          /\ v < call[w].version
          /\ status'[d][call[w].version] = "APPROVED"
      BY <1>1, <2>2, <3>1, ApproveEffect, DecideEffect
    <3>3. QED
      BY <3>2 DEF Versions
  <2>3. QED
    BY <2>1, <2>2
<1>2. IInv /\ [Next]_vars => [Forward]_vars
  BY <1>1
<1>3. QED
  BY <1>2, Invariance, PTL DEF Spec, CurrentMovesForward

\* Whoever decides a revision is a third party at that moment.
THEOREM DecisionsAreIndependent == Spec => DecidedByAThirdParty
<1> DEFINE Third == \A d \in Documents : \A v \in Versions :
         status[d][v] = "PENDING" /\ status'[d][v] # "PENDING" =>
             auditor'[d][v] \notin {author[d][v], responsible[d]}
<1>1. ASSUME IInv, [Next]_vars
      PROVE  Third
  <2> SUFFICES ASSUME NEW d \in Documents, NEW v \in Versions,
                      status[d][v] = "PENDING", status'[d][v] # "PENDING"
               PROVE  auditor'[d][v] \notin {author[d][v], responsible[d]}
    OBVIOUS
  <2>1. PICK w \in Workers : ApproveRevision(w) \/ RejectRevision(w)
    <3>1. ASSUME NEW w \in Workers, CommitSubmission(w) PROVE FALSE
      BY <1>1, <3>1, CommitEffect
    <3>2. QED
      BY <1>1, <3>1, StatusSteps
  <2>2. d = call[w].doc /\ v = call[w].version
    <3>1. CASE ApproveRevision(w)
      BY <1>1, <3>1, ApproveEffect
    <3>2. CASE RejectRevision(w)
      BY <1>1, <3>2, RejectEffect
    <3>3. QED
      BY <2>1, <3>1, <3>2
  <2>3. QED
    BY <1>1, <2>1, <2>2, DecideEffect
<1>2. IInv /\ [Next]_vars => [Third]_vars
  BY <1>1
<1>3. QED
  BY <1>2, Invariance, PTL DEF Spec, DecidedByAThirdParty
--------------------------------------------------------------------------------
\* The refinement: what each step is in the abstract register.

LEMMA CommitIsSubmit ==
    ASSUME IInv, NEW w \in Workers, CommitSubmission(w)
    PROVE  Register!Submit(call[w].doc, seen[w].last + 1, seen[w].author)
<1> DEFINE d == call[w].doc
           n == seen[w].last
<1>1. /\ d \in Documents /\ n \in 0..MaxVersion /\ n + 1 \in Versions
      /\ IsLastVersion(d, n)
      /\ status[d][n + 1] = "ABSENT"
  BY CommitEffect
<1>2. ASSUME NEW x \in Versions, x < n + 1
      PROVE  status[d][x] # "ABSENT"
  <2>1. n \in Versions /\ x \in 1..n
    BY <1>1, <1>2 DEF Versions
  <2>2. status[d][n] # "ABSENT"
    BY <1>1, <2>1 DEF IsLastVersion, Versions
  <2>3. QED
    BY <1>1, <2>1, <2>2 DEF IInv, VersionsContiguous
<1>3. /\ status' = [status EXCEPT ![d][n + 1] = "PENDING"]
      /\ author' = [author EXCEPT ![d][n + 1] = seen[w].author]
      /\ UNCHANGED <<auditor, responsible>>
  BY DEF CommitSubmission, documentTable
<1>4. QED
  BY <1>1, <1>2, <1>3 DEF Register!Submit, Register!Versions, Versions

LEMMA ApproveIsApprove ==
    ASSUME IInv, NEW w \in Workers, ApproveRevision(w)
    PROVE  Register!Approve(call[w].doc, call[w].version, call[w].user)
<1> DEFINE d == call[w].doc
           v == call[w].version
           u == call[w].user
           after == [x \in Versions |-> IF x = v THEN "APPROVED"
                                       ELSE IF status[d][x] = "APPROVED" THEN "OBSOLETE"
                                       ELSE status[d][x]]
<1>1. /\ d \in Documents /\ v \in Versions
      /\ status[d][v] = "PENDING"
      /\ u \notin {author[d][v], responsible[d]}
  BY DecideEffect
<1>2. \A x \in Versions : x > v => status[d][x] # "APPROVED"
  BY <1>1, ApproveEffect DEF Versions
<1>3. status' = [status EXCEPT ![d] = Supersede(status[d], seen[w].previous, v)]
  BY DEF ApproveRevision
<1>4. status \in [Documents -> [Versions -> Status]]
  BY DEF IInv, TypeOK
<1>5. Supersede(status[d], seen[w].previous, v) = after
  <2> DEFINE new == Supersede(status[d], seen[w].previous, v)
  <2>1. status'[d] = new
    BY <1>1, <1>3, <1>4
  <2>2. \A x \in Versions : status'[d][x] = after[x]
    BY <1>1, ApproveEffect
  <2>3. \A x \in Versions : new[x] = after[x]
    BY <2>1, <2>2
  <2>4. new = [x \in Versions |-> new[x]]
    BY DEF Supersede
  <2>5. QED
    BY <2>3, <2>4
<1>6. /\ auditor' = [auditor EXCEPT ![d][v] = u]
      /\ UNCHANGED <<author, responsible>>
  BY DEF ApproveRevision
<1>7. QED
  BY <1>1, <1>2, <1>3, <1>5, <1>6
     DEF Register!Approve, Register!MayDecide, Register!Versions, Versions

LEMMA RejectIsReject ==
    ASSUME IInv, NEW w \in Workers, RejectRevision(w)
    PROVE  Register!Reject(call[w].doc, call[w].version, call[w].user)
BY DecideEffect DEF RejectRevision, Register!Reject, Register!MayDecide,
   documentTable

LEMMA EraseIsErase ==
    ASSUME NEW u \in Users, NEW r \in Users, EraseAccount(u, r)
    PROVE  Register!Erase(u, r)
BY DEF EraseAccount, Reassign, Replaced, Register!Erase, Register!Versions, Versions

LEMMA RegisterStep ==
    ASSUME IInv, [Next]_vars
    PROVE  [Register!Next]_(Register!vars)
<1>1. ASSUME NEW w \in Workers, CommitSubmission(w)
      PROVE  Register!Next
  BY <1>1, CommitEffect, CommitIsSubmit DEF Register!Next, Register!Versions, Versions
<1>2. ASSUME NEW w \in Workers, ApproveRevision(w)
      PROVE  Register!Next
  BY <1>2, DecideEffect, ApproveIsApprove DEF Register!Next, Register!Versions, Versions
<1>3. ASSUME NEW w \in Workers, RejectRevision(w)
      PROVE  Register!Next
  BY <1>3, DecideEffect, RejectIsReject DEF Register!Next, Register!Versions, Versions
<1>4. ASSUME NEW d \in Documents, NEW u \in Users, HandOver(d, u)
      PROVE  Register!Next
  BY <1>4 DEF HandOver, revisionTable, Register!Next, Register!HandOver
<1>5. ASSUME NEW w \in Workers, Arrive(w)
      PROVE  UNCHANGED Register!vars
  BY <1>5 DEF Arrive, FindRevisable, FindRevision, FindToArchive, FindToRestore,
              revisionTable, documentTable, surroundings, Register!vars
<1>6. ASSUME NEW w \in Workers,
             \/ ReadLastVersion(w) \/ InsertRevision(w) \/ RefuseInsert(w)
             \/ LockDocument(w) \/ RefuseDecision(w) \/ RefuseArchiving(w)
             \/ ArchiveDocument(w) \/ RestoreDocument(w) \/ RefuseOrphan(w)
             \/ Fail(w)
      PROVE  UNCHANGED Register!vars
  BY <1>6 DEF ReadLastVersion, InsertRevision, RefuseInsert, LockDocument,
              RefuseDecision, RefuseArchiving, ArchiveDocument, RestoreDocument,
              RefuseOrphan, Fail, revisionTable, documentTable, surroundings, Register!vars
<1>7. ASSUME NEW d \in Documents, SwitchType(d)
      PROVE  UNCHANGED Register!vars
  BY <1>7 DEF SwitchType, revisionTable, documentTable, surroundings, Register!vars
<1>8. CASE UNCHANGED vars
  BY <1>8 DEF vars, Register!vars
<1>9. ASSUME NEW u \in Users, NEW r \in Users, EraseAccount(u, r)
      PROVE  Register!Next
  BY <1>9, EraseIsErase DEF Register!Next
<1>10. QED
  BY <1>1, <1>2, <1>3, <1>4, <1>5, <1>6, <1>7, <1>8, <1>9
     DEF Next, Proceed, Environment

\* Requests, stale reads and locks together implement the atomic register.
THEOREM LifecycleImplementsRegister == Spec => ImplementsRegister
<1>1. Init => Register!Init
  BY DEF Init, Register!Init, Register!Versions, Versions
<1>2. IInv /\ [Next]_vars => [Register!Next]_(Register!vars)
  BY RegisterStep
<1>3. QED
  BY <1>1, <1>2, Invariance, PTL DEF Spec, ImplementsRegister, Register!Spec
================================================================================
