--------------------------- MODULE LegalConsentProofs --------------------------
(***************************************************************************)
(* Machine-checked theorems about LegalConsent, for any users, legal       *)
(* documents and number of requests at a time.                             *)
(***************************************************************************)
EXTENDS LegalConsent, TLAPS

USE ConstantsAssumption

LEMMA TypeInit == Init => TypeOK
<1> SUFFICES ASSUME Init PROVE TypeOK
  OBVIOUS
<1>1. status \in [Editions -> {"DRAFT", "PUBLISHED", "RETIRED"}]
  BY DEF Init
<1>2. edition \in [Ids -> Editions]
  <2>1. PICK t \in Terms : TRUE
    OBVIOUS
  <2>2. <<t, 1>> \in Editions
    BY DEF Editions
  <2>3. QED
    BY <2>2 DEF Init
<1>3. QED
  BY <1>1, <1>2 DEF Init, TypeOK, Ids, AcceptSteps, RevokeSteps

\* A request that ends leaves the requests well typed.
LEMMA EndType ==
    ASSUME TypeOK, NEW w \in Workers, End(w)
    PROVE  /\ pc' \in [Workers -> {"idle"} \cup AcceptSteps \cup RevokeSteps]
           /\ call' \in [Workers -> AcceptCall \cup RevokeCall \cup {Idle}]
           /\ seen' \in [Workers -> 0..MaxAcceptances]
           /\ \A o \in Workers :
                /\ pc'[o] \in AcceptSteps => call'[o] \in AcceptCall
                /\ pc'[o] \in RevokeSteps => call'[o] \in RevokeCall
BY DEF TypeOK, End, AcceptSteps, RevokeSteps

\* A revocation reads a date only of an acceptance that was inserted.
LEMMA TypeStep == TypeOK /\ [Next]_vars => TypeOK'
<1> SUFFICES ASSUME TypeOK, [Next]_vars PROVE TypeOK'
  OBVIOUS
<1> USE DEF acceptanceTable, userTable, local, AcceptSteps, RevokeSteps
<1>1. ASSUME NEW w \in Workers, Fail(w) \/ RefuseAcceptance(w) \/ RefuseRevocation(w)
      PROVE  TypeOK'
  <2>1. End(w) /\ UNCHANGED <<status, acceptanceTable, userTable, inserted>>
    BY <1>1 DEF Fail, RefuseAcceptance, RefuseRevocation
  <2>2. QED
    BY <2>1, EndType DEF TypeOK
<1>2. ASSUME NEW w \in Workers, NEW u \in Users, NEW e \in Editions,
             StartAcceptance(w, u, e)
      PROVE  TypeOK'
  BY <1>2 DEF TypeOK, StartAcceptance, AcceptCall
<1>3. ASSUME NEW w \in Workers, NEW u \in Users, NEW a \in Ids,
             StartRevocation(w, u, a)
      PROVE  TypeOK'
  BY <1>3 DEF TypeOK, StartRevocation, RevokeCall
<1>4. ASSUME NEW w \in Workers, ExamineEdition(w)
      PROVE  TypeOK'
  BY <1>4 DEF TypeOK, ExamineEdition
<1>5. ASSUME NEW w \in Workers, SignEdition(w)
      PROVE  TypeOK'
  <2>1. inserted + 1 \in 0..MaxAcceptances
    BY <1>5 DEF TypeOK, SignEdition
  <2>2. QED
    BY <1>5, <2>1 DEF TypeOK, SignEdition
<1>6. ASSUME NEW w \in Workers, CommitAcceptance(w)
      PROVE  TypeOK'
  <2>1. call[w].user \in Users /\ call[w].edition \in Editions
    BY <1>6 DEF TypeOK, CommitAcceptance, AcceptCall
  <2>2. End(w) /\ seen[w] \in 0..MaxAcceptances
    BY <1>6 DEF TypeOK, CommitAcceptance
  <2>3. QED
    BY <1>6, <2>1, <2>2, EndType DEF TypeOK, CommitAcceptance
<1>7. ASSUME NEW w \in Workers, RevokeAcceptance(w)
      PROVE  TypeOK'
  BY <1>7 DEF TypeOK, RevokeAcceptance
<1>8. ASSUME NEW w \in Workers, CommitRevocation(w)
      PROVE  TypeOK'
  <2>1. call[w].user \in Users /\ call[w].id \in Ids
    BY <1>8 DEF TypeOK, CommitRevocation, RevokeCall
  <2>2. End(w) /\ seen[w] \in 0..MaxAcceptances
    BY <1>8 DEF TypeOK, CommitRevocation
  <2>3. QED
    BY <1>8, <2>1, <2>2, EndType DEF TypeOK, CommitRevocation
<1>9. ASSUME NEW e \in Editions, Publish(e) \/ Retire(e)
      PROVE  TypeOK'
  BY <1>9 DEF TypeOK, Publish, Retire
<1>10. ASSUME NEW u \in Users, RemoveAccount(u)
       PROVE  TypeOK'
  BY <1>10 DEF TypeOK, RemoveAccount
<1>11. ASSUME NEW u \in Users, EraseAccount(u)
       PROVE  TypeOK'
  BY <1>11 DEF TypeOK, EraseAccount
<1>12. CASE UNCHANGED vars
  BY <1>12 DEF TypeOK, vars
<1>13. QED
  BY <1>1, <1>2, <1>3, <1>4, <1>5, <1>6, <1>7, <1>8, <1>9, <1>10, <1>11,
     <1>12 DEF Next, Start, Proceed
--------------------------------------------------------------------------------
\* The invariant, one lemma for each kind of step.

LEMMA InvInit == Init => IInv
<1> SUFFICES ASSUME Init PROVE IInv
  OBVIOUS
<1>1. TypeOK
  BY TypeInit
<1>2. DateIsOfOwnAcceptance /\ OneInForce
  BY DEF Init, DateIsOfOwnAcceptance, OneInForce
<1>3. IndexIsNeverNeeded /\ EditionsAreHeld /\ NumbersAreFresh /\ ReadDatesRemain
  BY DEF Init, IndexIsNeverNeeded, EditionsAreHeld, NumbersAreFresh, ReadDatesRemain
<1>4. QED
  BY <1>1, <1>2, <1>3 DEF IInv, RowsAreSound

\* A request that begins or gives up holds nothing afterwards, and the others are
\* where they were.
LEMMA IdleStep ==
    ASSUME IInv, TypeOK', NEW w \in Workers,
           pc'[w] \in {"idle", "accepting", "revoking"},
           \A o \in Workers \ {w} :
             pc'[o] = pc[o] /\ call'[o] = call[o] /\ seen'[o] = seen[o],
           UNCHANGED <<status, acceptanceTable, userTable, inserted>>
    PROVE  IInv'
<1> USE DEF IInv, acceptanceTable, userTable
<1>1. DateIsOfOwnAcceptance' /\ OneInForce'
  BY DEF RowsAreSound, DateIsOfOwnAcceptance, OneInForce
<1>2. IndexIsNeverNeeded' /\ ReadDatesRemain'
  BY DEF IndexIsNeverNeeded, InForce, ReadDatesRemain
<1>3. EditionsAreHeld'
  BY DEF EditionsAreHeld, EditionLocked
<1>4. NumbersAreFresh'
  BY DEF NumbersAreFresh
<1>5. QED
  BY <1>1, <1>2, <1>3, <1>4 DEF RowsAreSound

\* Who passes the checks finds the version published and free.
LEMMA ExamineStep ==
    ASSUME IInv, TypeOK', NEW w \in Workers, ExamineEdition(w)
    PROVE  IInv'
<1> USE DEF IInv, acceptanceTable, userTable, ExamineEdition, TypeOK, RowsAreSound
<1>1. DateIsOfOwnAcceptance' /\ OneInForce'
  BY DEF DateIsOfOwnAcceptance, OneInForce
<1>2. IndexIsNeverNeeded' /\ ReadDatesRemain'
  BY DEF IndexIsNeverNeeded, InForce, ReadDatesRemain, Acceptable
<1>3. EditionsAreHeld'
  BY DEF EditionsAreHeld, EditionLocked, Acceptable, IsCurrent
<1>4. NumbersAreFresh'
  BY DEF NumbersAreFresh
<1>5. QED
  BY <1>1, <1>2, <1>3, <1>4

\* The number of an INSERT is above all that were given.
LEMMA SignStep ==
    ASSUME IInv, TypeOK', NEW w \in Workers, SignEdition(w)
    PROVE  IInv'
<1> USE DEF IInv, acceptanceTable, userTable, SignEdition, TypeOK, RowsAreSound
<1>1. DateIsOfOwnAcceptance' /\ OneInForce'
  BY DEF DateIsOfOwnAcceptance, OneInForce
<1>2. IndexIsNeverNeeded' /\ ReadDatesRemain'
  BY DEF IndexIsNeverNeeded, InForce, ReadDatesRemain
<1>3. EditionsAreHeld'
  BY DEF EditionsAreHeld, EditionLocked
<1>4. NumbersAreFresh'
  <2>1. inserted + 1 \in Ids /\ signer[inserted + 1] = Nobody
    BY DEF NumbersAreFresh, Ids
  <2>2. \A o \in Workers \ {w} : pc[o] = "signed" => seen[o] # inserted + 1
    BY DEF NumbersAreFresh
  <2>3. QED
    BY <2>1, <2>2 DEF NumbersAreFresh, Ids
<1>5. QED
  BY <1>1, <1>2, <1>3, <1>4

\* The row that is committed is the first in force of its user and version: the
\* lock has kept every other one out since the checks.
LEMMA CommitAcceptanceStep ==
    ASSUME IInv, TypeOK', NEW w \in Workers, CommitAcceptance(w)
    PROVE  IInv'
<1> DEFINE a == seen[w]
           u == call[w].user
           e == call[w].edition
<1> USE DEF IInv, TypeOK, RowsAreSound
<1>1. /\ a \in Ids /\ a <= inserted /\ signer[a] = Nobody
      /\ u \in Users /\ e \in Editions
      /\ pc[w] = "signed" /\ InForce(u, e) = {}
  <2>1. pc[w] = "signed"
    BY DEF CommitAcceptance
  <2>2. u \in Users /\ e \in Editions
    BY <2>1 DEF AcceptSteps, AcceptCall
  <2>3. a \in Ids /\ a <= inserted /\ signer[a] = Nobody
    BY <2>1 DEF NumbersAreFresh, Ids
  <2>4. InForce(u, e) = {}
    BY <2>1 DEF IndexIsNeverNeeded
  <2>5. QED
    BY <2>1, <2>2, <2>3, <2>4
<1>2. /\ signer' = [signer EXCEPT ![a] = u]
      /\ edition' = [edition EXCEPT ![a] = e]
      /\ terms' = [terms EXCEPT ![u] = a]
      /\ UNCHANGED <<status, revoked, account, inserted>>
      /\ pc'[w] = "idle"
      /\ \A o \in Workers \ {w} :
           pc'[o] = pc[o] /\ call'[o] = call[o] /\ seen'[o] = seen[o]
  BY DEF CommitAcceptance, End
<1>3. DateIsOfOwnAcceptance'
  <2>1. ASSUME NEW v \in Users, terms'[v] # 0
        PROVE  signer'[terms'[v]] = v
    BY <2>1, <1>1, <1>2 DEF DateIsOfOwnAcceptance, Ids
  <2>2. QED
    BY <2>1 DEF DateIsOfOwnAcceptance
<1>4. OneInForce'
  <2>1. ASSUME NEW x \in Ids, NEW y \in Ids, x # y,
               signer'[x] # Nobody, ~revoked'[x], ~revoked'[y],
               signer'[x] = signer'[y], edition'[x] = edition'[y]
        PROVE  FALSE
    <3>1. CASE x = a
      BY <3>1, <2>1, <1>1, <1>2 DEF InForce
    <3>2. CASE y = a
      BY <3>2, <2>1, <1>1, <1>2 DEF InForce
    <3>3. CASE x # a /\ y # a
      BY <3>3, <2>1, <1>1, <1>2 DEF OneInForce
    <3>4. QED
      BY <3>1, <3>2, <3>3
  <2>2. QED
    BY <2>1 DEF OneInForce
<1>5. IndexIsNeverNeeded'
  <2>1. ASSUME NEW o \in Workers, pc'[o] \in {"examined", "signed"}
        PROVE  InForce(call[o].user, call[o].edition)' = {}
    <3>1. o # w /\ call'[o] = call[o] /\ pc[o] \in {"examined", "signed"}
      BY <2>1, <1>2
    <3>2. call[o].edition # e
      BY <3>1, <1>1 DEF EditionsAreHeld, EditionLocked
    <3>3. InForce(call[o].user, call[o].edition) = {}
      BY <3>1 DEF IndexIsNeverNeeded
    <3>4. QED
      BY <3>1, <3>2, <3>3, <1>1, <1>2 DEF InForce
  <2>2. QED
    BY <2>1 DEF IndexIsNeverNeeded, InForce
<1>6. EditionsAreHeld'
  BY <1>2 DEF EditionsAreHeld, EditionLocked
<1>7. NumbersAreFresh'
  <2>1. \A x \in Ids : signer'[x] # Nobody => x <= inserted'
    BY <1>1, <1>2 DEF NumbersAreFresh
  <2>2. ASSUME NEW o \in Workers, pc'[o] = "signed"
        PROVE  /\ seen'[o] \in 1..inserted'
               /\ signer'[seen'[o]] = Nobody
               /\ \A x \in Workers \ {o} : pc'[x] = "signed" => seen'[x] # seen'[o]
    <3>1. o # w /\ pc[o] = "signed" /\ seen'[o] = seen[o] /\ seen[o] # a
      BY <2>2, <1>1, <1>2 DEF NumbersAreFresh
    <3>2. QED
      BY <3>1, <1>1, <1>2 DEF NumbersAreFresh
  <2>3. QED
    BY <2>1, <2>2 DEF NumbersAreFresh
<1>8. ReadDatesRemain'
  <2>1. ASSUME NEW o \in Workers, pc'[o] = "revoked"
        PROVE  /\ signer'[call'[o].id] = call'[o].user
               /\ seen'[o] # 0 => signer'[seen'[o]] = call'[o].user
    <3>1. o # w /\ pc[o] = "revoked" /\ call'[o] = call[o] /\ seen'[o] = seen[o]
      BY <2>1, <1>2
    <3>2. call[o].user # Nobody /\ call[o].id \in Ids
      BY <3>1 DEF RevokeSteps, RevokeCall
    <3>3. /\ signer[call[o].id] = call[o].user
          /\ seen[o] # 0 => seen[o] \in Ids /\ signer[seen[o]] = call[o].user
      BY <3>1 DEF ReadDatesRemain, Ids
    <3>4. QED
      BY <3>1, <3>2, <3>3, <1>1, <1>2
  <2>2. QED
    BY <2>1 DEF ReadDatesRemain
<1>9. QED
  BY <1>3, <1>4, <1>5, <1>6, <1>7, <1>8

\* A revocation reads, under the lock of its row, a date of the same user.
LEMMA RevokeStep ==
    ASSUME IInv, TypeOK', NEW w \in Workers, RevokeAcceptance(w)
    PROVE  IInv'
<1> USE DEF IInv, acceptanceTable, userTable, RevokeAcceptance, TypeOK, RowsAreSound
<1>1. DateIsOfOwnAcceptance' /\ OneInForce'
  BY DEF DateIsOfOwnAcceptance, OneInForce
<1>2. IndexIsNeverNeeded'
  BY DEF IndexIsNeverNeeded, InForce
<1>3. EditionsAreHeld' /\ NumbersAreFresh'
  BY DEF EditionsAreHeld, EditionLocked, NumbersAreFresh
<1>4. ReadDatesRemain'
  BY DEF ReadDatesRemain, Revocable, IsLatest
<1>5. QED
  BY <1>1, <1>2, <1>3, <1>4

\* The date that was read is still of a row of the user.
LEMMA CommitRevocationStep ==
    ASSUME IInv, TypeOK', NEW w \in Workers, CommitRevocation(w)
    PROVE  IInv'
<1> DEFINE a == call[w].id
           u == call[w].user
<1> USE DEF IInv, TypeOK, RowsAreSound
<1>1. /\ a \in Ids /\ u \in Users /\ pc[w] = "revoked"
      /\ seen[w] # 0 => signer[seen[w]] = u
  BY DEF CommitRevocation, ReadDatesRemain, RevokeSteps, RevokeCall
<1>2. /\ revoked' = [revoked EXCEPT ![a] = TRUE]
      /\ terms' = [terms EXCEPT ![u] = seen[w]]
      /\ UNCHANGED <<status, signer, edition, account, inserted>>
      /\ pc'[w] = "idle"
      /\ \A o \in Workers \ {w} :
           pc'[o] = pc[o] /\ call'[o] = call[o] /\ seen'[o] = seen[o]
  BY DEF CommitRevocation, End
<1>3. DateIsOfOwnAcceptance'
  BY <1>1, <1>2 DEF DateIsOfOwnAcceptance
<1>4. \A x \in Ids : ~revoked'[x] => ~revoked[x]
  BY <1>1, <1>2
<1>5. OneInForce'
  BY <1>2, <1>4 DEF OneInForce
<1>6. IndexIsNeverNeeded'
  BY <1>2, <1>4 DEF IndexIsNeverNeeded, InForce
<1>7. EditionsAreHeld' /\ NumbersAreFresh' /\ ReadDatesRemain'
  BY <1>2 DEF EditionsAreHeld, EditionLocked, NumbersAreFresh, ReadDatesRemain
<1>8. QED
  BY <1>3, <1>5, <1>6, <1>7

\* Only a version that nobody has examined is retired.
LEMMA StatusStep ==
    ASSUME IInv, TypeOK', NEW e \in Editions, Publish(e) \/ Retire(e)
    PROVE  IInv'
<1> USE DEF IInv, acceptanceTable, userTable, local, Publish, Retire, TypeOK,
            RowsAreSound
<1>1. DateIsOfOwnAcceptance' /\ OneInForce'
  BY DEF DateIsOfOwnAcceptance, OneInForce
<1>2. IndexIsNeverNeeded'
  BY DEF IndexIsNeverNeeded, InForce
<1>3. NumbersAreFresh' /\ ReadDatesRemain'
  BY DEF NumbersAreFresh, ReadDatesRemain
<1>4. ASSUME NEW w \in Workers, pc'[w] \in {"examined", "signed"}
      PROVE  status'[call'[w].edition] = "PUBLISHED"
  <2>1. status[call[w].edition] = "PUBLISHED" /\ call[w].edition \in Editions
    BY <1>4 DEF EditionsAreHeld, AcceptSteps, AcceptCall
  <2>2. CASE Publish(e)
    BY <2>1, <2>2
  <2>3. CASE Retire(e)
    BY <2>1, <2>3, <1>4 DEF EditionLocked
  <2>4. QED
    BY <2>2, <2>3
<1>5. EditionsAreHeld'
  BY <1>4 DEF EditionsAreHeld, EditionLocked
<1>6. QED
  BY <1>1, <1>2, <1>3, <1>5

\* Erasing waits for the revocations of the user, and takes only rows of the user.
LEMMA AccountStep ==
    ASSUME IInv, TypeOK', NEW u \in Users, RemoveAccount(u) \/ EraseAccount(u)
    PROVE  IInv'
<1> USE DEF IInv, acceptanceTable, userTable, local, TypeOK, RowsAreSound
<1>1. /\ UNCHANGED <<status, edition, inserted, pc, call, seen>>
      /\ terms' = [terms EXCEPT ![u] = 0]
      /\ \A a \in Ids : \/ signer'[a] = signer[a] /\ (revoked'[a] <=> revoked[a])
                        \/ signer[a] = u /\ signer'[a] = Nobody
  <2>1. CASE RemoveAccount(u)
    BY <2>1 DEF RemoveAccount
  <2>2. CASE EraseAccount(u)
    <3>1. \A a \in Ids : IF signer[a] = u THEN signer'[a] = Nobody
                         ELSE signer'[a] = signer[a] /\ (revoked'[a] <=> revoked[a])
      BY <2>2 DEF EraseAccount
    <3>2. QED
      BY <2>2, <3>1 DEF EraseAccount
  <2>3. QED
    BY <2>1, <2>2
<1>2. DateIsOfOwnAcceptance'
  <2>1. ASSUME NEW v \in Users, terms'[v] # 0
        PROVE  signer'[terms'[v]] = v
    <3>1. v # u /\ terms'[v] = terms[v]
      BY <2>1, <1>1
    <3>2. terms[v] \in Ids /\ signer[terms[v]] = v
      BY <2>1, <3>1 DEF DateIsOfOwnAcceptance, Ids
    <3>3. QED
      BY <3>1, <3>2, <1>1
  <2>2. QED
    BY <2>1 DEF DateIsOfOwnAcceptance
<1>3. OneInForce'
  <2>1. ASSUME NEW a \in Ids, NEW x \in Ids, signer'[a] # Nobody,
               ~revoked'[a], ~revoked'[x], signer'[a] = signer'[x],
               edition'[a] = edition'[x]
        PROVE  a = x
    BY <2>1, <1>1 DEF OneInForce
  <2>2. QED
    BY <2>1 DEF OneInForce
<1>4. IndexIsNeverNeeded'
  <2>1. ASSUME NEW w \in Workers, pc[w] \in {"examined", "signed"}
        PROVE  InForce(call[w].user, call[w].edition)' = {}
    <3>1. call[w].user # Nobody
      BY <2>1 DEF AcceptSteps, AcceptCall
    <3>2. InForce(call[w].user, call[w].edition) = {}
      BY <2>1 DEF IndexIsNeverNeeded
    <3>3. QED
      BY <3>1, <3>2, <1>1 DEF InForce
  <2>2. QED
    BY <2>1, <1>1 DEF IndexIsNeverNeeded, InForce
<1>5. EditionsAreHeld'
  BY <1>1 DEF EditionsAreHeld, EditionLocked
<1>6. NumbersAreFresh'
  BY <1>1 DEF NumbersAreFresh, Ids
<1>7. ReadDatesRemain'
  <2>1. ASSUME NEW w \in Workers, pc[w] = "revoked"
        PROVE  /\ signer'[call[w].id] = call[w].user
               /\ seen[w] # 0 => signer'[seen[w]] = call[w].user
    <3>1. /\ call[w].id \in Ids /\ signer[call[w].id] = call[w].user
          /\ seen[w] # 0 => seen[w] \in Ids /\ signer[seen[w]] = call[w].user
      BY <2>1 DEF ReadDatesRemain, RevokeSteps, RevokeCall, Ids
    <3>2. CASE RemoveAccount(u)
      BY <3>1, <3>2 DEF RemoveAccount
    <3>3. CASE EraseAccount(u)
      <4>1. call[w].user # u
        BY <2>1, <3>1, <3>3 DEF EraseAccount, AcceptanceLocked
      <4>2. QED
        BY <3>1, <4>1, <1>1
    <3>4. QED
      BY <3>2, <3>3
  <2>2. QED
    BY <2>1, <1>1 DEF ReadDatesRemain
<1>8. QED
  BY <1>2, <1>3, <1>4, <1>5, <1>6, <1>7

LEMMA InvStep == IInv /\ [Next]_vars => IInv'
<1> SUFFICES ASSUME IInv, [Next]_vars PROVE IInv'
  OBVIOUS
<1>1. TypeOK /\ TypeOK'
  BY TypeStep DEF IInv, RowsAreSound
<1> USE <1>1 DEF acceptanceTable, userTable
<1>2. ASSUME NEW w \in Workers, Start(w)
      PROVE  IInv'
  BY <1>2, IdleStep DEF Start, StartAcceptance, StartRevocation, TypeOK
<1>3. ASSUME NEW w \in Workers, Fail(w) \/ RefuseAcceptance(w) \/ RefuseRevocation(w)
      PROVE  IInv'
  BY <1>3, IdleStep DEF Fail, RefuseAcceptance, RefuseRevocation, End, TypeOK
<1>4. ASSUME NEW w \in Workers,
             \/ ExamineEdition(w) \/ SignEdition(w) \/ CommitAcceptance(w)
             \/ RevokeAcceptance(w) \/ CommitRevocation(w)
      PROVE  IInv'
  BY <1>4, ExamineStep, SignStep, CommitAcceptanceStep, RevokeStep,
     CommitRevocationStep
<1>5. ASSUME NEW e \in Editions, Publish(e) \/ Retire(e)
      PROVE  IInv'
  BY <1>5, StatusStep
<1>6. ASSUME NEW u \in Users, RemoveAccount(u) \/ EraseAccount(u)
      PROVE  IInv'
  BY <1>6, AccountStep
<1>7. CASE UNCHANGED vars
  <2>1. DateIsOfOwnAcceptance' /\ OneInForce' /\ IndexIsNeverNeeded'
    BY <1>7 DEF vars, IInv, RowsAreSound, DateIsOfOwnAcceptance, OneInForce,
                IndexIsNeverNeeded, InForce
  <2>2. EditionsAreHeld' /\ NumbersAreFresh' /\ ReadDatesRemain'
    BY <1>7 DEF vars, IInv, EditionsAreHeld, EditionLocked, NumbersAreFresh,
                ReadDatesRemain
  <2>3. QED
    BY <2>1, <2>2 DEF IInv, RowsAreSound
<1>8. QED
  BY <1>2, <1>3, <1>4, <1>5, <1>6, <1>7 DEF Next, Proceed
--------------------------------------------------------------------------------
\* The theorems.

\* What the locks, the numbers and the dates keep true together.
THEOREM InvariantHolds == Spec => []IInv
BY InvInit, InvStep, PTL DEF Spec

\* Rows and requests are well typed, and the date of a user is the date of a
\* committed acceptance of that user, whatever requests race.
THEOREM RowsSound == Spec => []RowsAreSound
<1>1. IInv => RowsAreSound
  BY DEF IInv
<1>2. QED
  BY <1>1, InvariantHolds, PTL

\* A user never has two acceptances of one version in force.
THEOREM AtMostOneInForce == Spec => []OneInForce
<1>1. IInv => OneInForce
  BY DEF IInv
<1>2. QED
  BY <1>1, InvariantHolds, PTL

\* The lock on the version suffices: nobody who passed the checks ever meets the
\* unique index.
THEOREM IndexNotNeeded == Spec => []IndexIsNeverNeeded
<1>1. IInv => IndexIsNeverNeeded
  BY DEF IInv
<1>2. QED
  BY <1>1, InvariantHolds, PTL

\* What one step does to a committed acceptance.
LEMMA KeptStep ==
    ASSUME IInv, [Next]_vars, NEW a \in Ids, signer[a] # Nobody,
           account'[signer[a]] # "erased"
    PROVE  signer'[a] = signer[a] /\ edition'[a] = edition[a] /\ (revoked[a] => revoked'[a])
<1> USE DEF acceptanceTable, userTable, IInv, RowsAreSound, TypeOK
<1>1. ASSUME NEW w \in Workers, CommitAcceptance(w)
      PROVE  signer'[a] = signer[a] /\ edition'[a] = edition[a] /\ revoked'[a] = revoked[a]
  <2>1. seen[w] # a
    BY <1>1 DEF CommitAcceptance, NumbersAreFresh
  <2>2. QED
    BY <1>1, <2>1 DEF CommitAcceptance
<1>2. ASSUME NEW w \in Workers, CommitRevocation(w)
      PROVE  signer'[a] = signer[a] /\ edition'[a] = edition[a] /\ (revoked[a] => revoked'[a])
  BY <1>2 DEF CommitRevocation
<1>3. ASSUME NEW u \in Users, EraseAccount(u)
      PROVE  signer'[a] = signer[a] /\ edition'[a] = edition[a] /\ revoked'[a] = revoked[a]
  <2>1. signer[a] # u
    BY <1>3 DEF EraseAccount
  <2>2. QED
    BY <1>3, <2>1 DEF EraseAccount
<1>4. ASSUME NEW w \in Workers,
             \/ Start(w) \/ Fail(w) \/ ExamineEdition(w) \/ RefuseAcceptance(w)
             \/ SignEdition(w) \/ RevokeAcceptance(w) \/ RefuseRevocation(w)
      PROVE  UNCHANGED <<signer, edition, revoked>>
  BY <1>4 DEF Start, StartAcceptance, StartRevocation, Fail, ExamineEdition,
     RefuseAcceptance, SignEdition, RevokeAcceptance, RefuseRevocation
<1>5. ASSUME NEW e \in Editions, Publish(e) \/ Retire(e)
      PROVE  UNCHANGED <<signer, edition, revoked>>
  BY <1>5 DEF Publish, Retire
<1>6. ASSUME NEW u \in Users, RemoveAccount(u)
      PROVE  UNCHANGED <<signer, edition, revoked>>
  BY <1>6 DEF RemoveAccount
<1>7. CASE UNCHANGED vars
  BY <1>7 DEF vars
<1>8. QED
  BY <1>1, <1>2, <1>3, <1>4, <1>5, <1>6, <1>7 DEF Next, Proceed

\* A committed acceptance keeps its signer and its version, and a revocation is not
\* taken back, until the account of the signer is erased.
THEOREM EvidenceKept == Spec => EvidenceIsKept
<1>1. IInv /\ [Next]_vars =>
        [\A a \in Ids : signer[a] # Nobody /\ account'[signer[a]] # "erased" =>
           /\ signer'[a] = signer[a]
           /\ edition'[a] = edition[a]
           /\ revoked[a] => revoked'[a]]_vars
  BY KeptStep
<1>2. QED
  BY <1>1, InvariantHolds, PTL DEF Spec, EvidenceIsKept

\* What a new row was signed for is published: its version is held from the checks
\* to the commit.
LEMMA SignedStep ==
    ASSUME IInv, [Next]_vars, NEW a \in Ids, signer[a] = Nobody, signer'[a] # Nobody
    PROVE  status[edition'[a]] = "PUBLISHED"
<1> USE DEF acceptanceTable, userTable, IInv, RowsAreSound, TypeOK
<1>1. ASSUME NEW w \in Workers, CommitAcceptance(w)
      PROVE  status[edition'[a]] = "PUBLISHED"
  <2>1. a = seen[w]
    BY <1>1 DEF CommitAcceptance
  <2>2. edition'[a] = call[w].edition
    BY <1>1, <2>1 DEF CommitAcceptance
  <2>3. QED
    BY <1>1, <2>2 DEF CommitAcceptance, EditionsAreHeld
<1>2. ASSUME NEW w \in Workers,
             \/ Start(w) \/ Fail(w) \/ ExamineEdition(w) \/ RefuseAcceptance(w)
             \/ SignEdition(w) \/ RevokeAcceptance(w) \/ RefuseRevocation(w)
             \/ CommitRevocation(w)
      PROVE  UNCHANGED signer
  BY <1>2 DEF Start, StartAcceptance, StartRevocation, Fail, ExamineEdition,
     RefuseAcceptance, SignEdition, RevokeAcceptance, RefuseRevocation,
     CommitRevocation
<1>3. ASSUME NEW e \in Editions, Publish(e) \/ Retire(e)
      PROVE  UNCHANGED signer
  BY <1>3 DEF Publish, Retire
<1>4. ASSUME NEW u \in Users, RemoveAccount(u) \/ EraseAccount(u)
      PROVE  signer'[a] = signer[a]
  BY <1>4 DEF RemoveAccount, EraseAccount
<1>5. CASE UNCHANGED vars
  BY <1>5 DEF vars
<1>6. QED
  BY <1>1, <1>2, <1>3, <1>4, <1>5 DEF Next, Proceed

\* A version that is retired while somebody is accepting it gets no acceptance
\* after its retirement.
THEOREM OnlyPublishedIsSigned == Spec => SignedWhilePublished
<1>1. IInv /\ [Next]_vars =>
        [\A a \in Ids : signer[a] = Nobody /\ signer'[a] # Nobody =>
           status[edition'[a]] = "PUBLISHED"]_vars
  BY SignedStep
<1>2. QED
  BY <1>1, InvariantHolds, PTL DEF Spec, SignedWhilePublished
================================================================================
