------------------------ MODULE AccountsAndAccessProofs ------------------------
(***************************************************************************)
(* Machine-checked theorems about AccountsAndAccess, for any users, areas, *)
(* documents, addresses and workers, whoever manages what at first.        *)
(***************************************************************************)
EXTENDS AccountsAndAccess, TLAPS

USE AccountsAssumption

Calls == {Idle} \cup UpdateCall \cup RemovalCall \cup DecisionCall \cup AccessCall

Steps == {"idle", "updating", "chosen", "judging", "deciding", "asking"} \cup Taking

Takes(w) == TakeDocuments(w) \/ TakeAreas(w) \/ TakeRequests(w)

\* The part of the type that is about the requests under way.
CallsFit ==
    /\ late \subseteq Workers
    /\ pc \in [Workers -> Steps]
    /\ call \in [Workers -> Calls]
    /\ \A w \in Workers :
         /\ pc[w] = "idle" => call[w] = Idle
         /\ pc[w] = "updating" => call[w] \in UpdateCall
         /\ pc[w] \in {"chosen"} \cup Taking => call[w] \in RemovalCall
         /\ pc[w] \in {"judging", "deciding"} => call[w] \in DecisionCall
         /\ pc[w] = "asking" => call[w] \in AccessCall

\* A request that ends leaves the arguments of all requests well typed.
LEMMA EndType ==
    ASSUME TypeOK, NEW w \in Workers, NEW missed \in SUBSET Workers, EndPast(w, missed)
    PROVE  /\ CallsFit'
           /\ pc'[w] = "idle"
           /\ \A o \in Workers \ {w} : pc'[o] = pc[o] /\ call'[o] = call[o]
BY DEF TypeOK, CallsFit, Calls, Steps, Taking, EndPast

\* So does one that begins with arguments that fit its step.
LEMMA BeginType ==
    ASSUME TypeOK, NEW w \in Workers, NEW step, NEW c, Begin(w, step, c),
           \/ step = "updating" /\ c \in UpdateCall
           \/ step = "chosen" /\ c \in RemovalCall
           \/ step = "judging" /\ c \in DecisionCall
           \/ step = "asking" /\ c \in AccessCall
    PROVE  /\ CallsFit'
           /\ pc[w] = "idle" /\ pc'[w] = step /\ call'[w] = c /\ late' = late
           /\ \A o \in Workers \ {w} : pc'[o] = pc[o] /\ call'[o] = call[o]
BY DEF TypeOK, CallsFit, Calls, Steps, Taking, Begin

LEMMA TypeInit == Init => TypeOK
BY DEF Init, TypeOK, Pairs, Taking

\* What a statement of a removal notes.
LEMMA TakenCall ==
    ASSUME NEW c \in RemovalCall,
           NEW ds \in SUBSET Documents, NEW rs \in SUBSET Areas
    PROVE  /\ [c EXCEPT !.documents = ds] = [user |-> c.user, kind |-> c.kind,
                address |-> c.address, replacement |-> c.replacement,
                documents |-> ds, areas |-> c.areas, requests |-> c.requests]
           /\ [c EXCEPT !.areas = rs] = [user |-> c.user, kind |-> c.kind,
                address |-> c.address, replacement |-> c.replacement,
                documents |-> c.documents, areas |-> rs, requests |-> c.requests]
           /\ [c EXCEPT !.requests = ds] = [user |-> c.user, kind |-> c.kind,
                address |-> c.address, replacement |-> c.replacement,
                documents |-> c.documents, areas |-> c.areas, requests |-> ds]
           /\ [c EXCEPT !.documents = ds] \in RemovalCall
           /\ [c EXCEPT !.areas = rs] \in RemovalCall
           /\ [c EXCEPT !.requests = ds] \in RemovalCall
<1>1. c = [user |-> c.user, kind |-> c.kind, address |-> c.address,
           replacement |-> c.replacement, documents |-> c.documents,
           areas |-> c.areas, requests |-> c.requests]
  BY DEF RemovalCall
<1>2. [c EXCEPT !.documents = ds] = [user |-> c.user, kind |-> c.kind,
        address |-> c.address, replacement |-> c.replacement,
        documents |-> ds, areas |-> c.areas, requests |-> c.requests]
  BY <1>1
<1>3. [c EXCEPT !.areas = rs] = [user |-> c.user, kind |-> c.kind,
        address |-> c.address, replacement |-> c.replacement,
        documents |-> c.documents, areas |-> rs, requests |-> c.requests]
  BY <1>1
<1>4. [c EXCEPT !.requests = ds] = [user |-> c.user, kind |-> c.kind,
        address |-> c.address, replacement |-> c.replacement,
        documents |-> c.documents, areas |-> c.areas, requests |-> ds]
  BY <1>1
<1>5. /\ c.user \in Users /\ c.kind \in {"removed", "erased"}
      /\ c.address \in Addresses \cup {Nothing} /\ c.replacement \in Users
      /\ c.documents \in SUBSET Documents /\ c.areas \in SUBSET Areas
      /\ c.requests \in SUBSET Documents
  BY DEF RemovalCall
<1>6. QED
  BY <1>2, <1>3, <1>4, <1>5 DEF RemovalCall

\* A statement changes what its own request has noted, and nothing else.
LEMMA StatementEffect ==
    ASSUME TypeOK, NEW w \in Workers, NEW to \in Taking, NEW taken \in RemovalCall,
           Statement(w, to, taken)
    PROVE  /\ CallsFit'
           /\ pc'[w] = to /\ call'[w] = taken
           /\ call[w].kind = "removed"
           /\ \A o \in Workers \ {w} : pc'[o] = pc[o] /\ call'[o] = call[o]
           /\ UNCHANGED <<users, work, state, grants, late>>
<1>1. /\ pc' = [pc EXCEPT ![w] = to] /\ call' = [call EXCEPT ![w] = taken]
      /\ call[w].kind = "removed"
      /\ UNCHANGED <<users, work, state, grants, late>>
  BY DEF Statement
<1>2. pc \in [Workers -> Steps] /\ call \in [Workers -> Calls]
  BY DEF TypeOK, Steps, Calls
<1>3. /\ pc' \in [Workers -> Steps] /\ call' \in [Workers -> Calls]
      /\ pc'[w] = to /\ call'[w] = taken
      /\ \A o \in Workers \ {w} : pc'[o] = pc[o] /\ call'[o] = call[o]
  BY <1>1, <1>2 DEF Steps, Calls
<1>4. CallsFit'
  BY <1>1, <1>3 DEF CallsFit, TypeOK, Taking
<1>5. QED
  BY <1>1, <1>3, <1>4

\* What the three statements find.
LEMMA TakeEffect ==
    ASSUME TypeOK, NEW w \in Workers, Takes(w)
    PROVE  /\ CallsFit'
           /\ UNCHANGED <<users, work, state, grants, late>>
           /\ \A o \in Workers \ {w} : pc'[o] = pc[o] /\ call'[o] = call[o]
           /\ call[w] \in RemovalCall /\ call'[w] \in RemovalCall
           /\ call[w].kind = "removed" /\ call'[w].kind = "removed"
           /\ call'[w].user = call[w].user
           /\ call'[w].replacement = call[w].replacement
           /\ Removing(w)
           /\ \/ /\ pc[w] = "chosen" /\ pc'[w] = "documents"
                 /\ call'[w].documents = {d \in Documents : responsible[d] = call[w].user}
                 /\ call'[w].documents \cap Locked(w).documents = {}
                 /\ call'[w].areas = call[w].areas
                 /\ call'[w].requests = call[w].requests
              \/ /\ pc[w] = "documents" /\ pc'[w] = "areas"
                 /\ call'[w].areas = {a \in Areas : manager[a] = call[w].user}
                 /\ call'[w].areas \cap Locked(w).areas = {}
                 /\ call'[w].areas # {} => MayManage(w, call[w].replacement)
                 /\ call'[w].documents = call[w].documents
                 /\ call'[w].requests = call[w].requests
              \/ /\ pc[w] = "areas" /\ pc'[w] = "requests"
                 /\ call'[w].requests = PendingRequests(call[w].user)
                 /\ (call'[w].requests \X {call[w].user}) \cap Locked(w).requests = {}
                 /\ call'[w].requests # {} => NotUnderDecision(call[w].user)
                 /\ call'[w].documents = call[w].documents
                 /\ call'[w].areas = call[w].areas
<1>1. CASE TakeDocuments(w)
  <2> DEFINE found == {d \in Documents : responsible[d] = call[w].user}
  <2>1. /\ pc[w] = "chosen" /\ found \cap Locked(w).documents = {}
        /\ Statement(w, "documents", [call[w] EXCEPT !.documents = found])
    BY <1>1 DEF TakeDocuments
  <2>2. call[w] \in RemovalCall /\ Removing(w)
    BY <2>1 DEF TypeOK, Removing
  <2>3. found \in SUBSET Documents /\ {} \in SUBSET Areas
    OBVIOUS
  <2> HIDE DEF found
  <2>4. /\ [call[w] EXCEPT !.documents = found] \in RemovalCall
        /\ [call[w] EXCEPT !.documents = found] =
             [user |-> call[w].user, kind |-> call[w].kind,
              address |-> call[w].address, replacement |-> call[w].replacement,
              documents |-> found, areas |-> call[w].areas, requests |-> call[w].requests]
    BY <2>2, <2>3, TakenCall
  <2>5. "documents" \in Taking
    BY DEF Taking
  <2>6. /\ CallsFit'
        /\ pc'[w] = "documents" /\ call'[w] = [call[w] EXCEPT !.documents = found]
        /\ call[w].kind = "removed"
        /\ \A o \in Workers \ {w} : pc'[o] = pc[o] /\ call'[o] = call[o]
        /\ UNCHANGED <<users, work, state, grants, late>>
    BY <2>1, <2>4, <2>5, StatementEffect
  <2>7. /\ call'[w].documents = found /\ call'[w].areas = call[w].areas
        /\ call'[w].requests = call[w].requests /\ call'[w].user = call[w].user
        /\ call'[w].replacement = call[w].replacement /\ call'[w].kind = call[w].kind
        /\ call'[w] \in RemovalCall
    BY <2>4, <2>6
  <2>8. QED
    BY <2>1, <2>2, <2>6, <2>7 DEF found
<1>2. CASE TakeAreas(w)
  <2> DEFINE found == {a \in Areas : manager[a] = call[w].user}
  <2>1. /\ pc[w] = "documents" /\ found \cap Locked(w).areas = {}
        /\ found # {} => MayManage(w, call[w].replacement)
        /\ Statement(w, "areas", [call[w] EXCEPT !.areas = found])
    BY <1>2 DEF TakeAreas
  <2>2. call[w] \in RemovalCall /\ Removing(w)
    BY <2>1 DEF TypeOK, Removing, Taking
  <2>3. found \in SUBSET Areas /\ {} \in SUBSET Documents
    OBVIOUS
  <2> HIDE DEF found
  <2>4. /\ [call[w] EXCEPT !.areas = found] \in RemovalCall
        /\ [call[w] EXCEPT !.areas = found] =
             [user |-> call[w].user, kind |-> call[w].kind,
              address |-> call[w].address, replacement |-> call[w].replacement,
              documents |-> call[w].documents, areas |-> found,
              requests |-> call[w].requests]
    BY <2>2, <2>3, TakenCall
  <2>5. "areas" \in Taking
    BY DEF Taking
  <2>6. /\ CallsFit'
        /\ pc'[w] = "areas" /\ call'[w] = [call[w] EXCEPT !.areas = found]
        /\ call[w].kind = "removed"
        /\ \A o \in Workers \ {w} : pc'[o] = pc[o] /\ call'[o] = call[o]
        /\ UNCHANGED <<users, work, state, grants, late>>
    BY <2>1, <2>4, <2>5, StatementEffect
  <2>7. /\ call'[w].areas = found /\ call'[w].documents = call[w].documents
        /\ call'[w].requests = call[w].requests /\ call'[w].user = call[w].user
        /\ call'[w].replacement = call[w].replacement /\ call'[w].kind = call[w].kind
        /\ call'[w] \in RemovalCall
    BY <2>4, <2>6
  <2>8. QED
    BY <2>1, <2>2, <2>6, <2>7 DEF found
<1>3. CASE TakeRequests(w)
  <2> DEFINE found == PendingRequests(call[w].user)
  <2>1. /\ pc[w] = "areas" /\ (found \X {call[w].user}) \cap Locked(w).requests = {}
        /\ found # {} => NotUnderDecision(call[w].user)
        /\ Statement(w, "requests", [call[w] EXCEPT !.requests = found])
    BY <1>3 DEF TakeRequests
  <2>2. call[w] \in RemovalCall /\ Removing(w)
    BY <2>1 DEF TypeOK, Removing, Taking
  <2>3. found \in SUBSET Documents /\ {} \in SUBSET Areas
    BY DEF PendingRequests
  <2> HIDE DEF found
  <2>4. /\ [call[w] EXCEPT !.requests = found] \in RemovalCall
        /\ [call[w] EXCEPT !.requests = found] =
             [user |-> call[w].user, kind |-> call[w].kind,
              address |-> call[w].address, replacement |-> call[w].replacement,
              documents |-> call[w].documents, areas |-> call[w].areas,
              requests |-> found]
    BY <2>2, <2>3, TakenCall
  <2>5. "requests" \in Taking
    BY DEF Taking
  <2>6. /\ CallsFit'
        /\ pc'[w] = "requests" /\ call'[w] = [call[w] EXCEPT !.requests = found]
        /\ call[w].kind = "removed"
        /\ \A o \in Workers \ {w} : pc'[o] = pc[o] /\ call'[o] = call[o]
        /\ UNCHANGED <<users, work, state, grants, late>>
    BY <2>1, <2>4, <2>5, StatementEffect
  <2>7. /\ call'[w].requests = found /\ call'[w].documents = call[w].documents
        /\ call'[w].areas = call[w].areas /\ call'[w].user = call[w].user
        /\ call'[w].replacement = call[w].replacement /\ call'[w].kind = call[w].kind
        /\ call'[w] \in RemovalCall
    BY <2>4, <2>6
  <2>8. QED
    BY <2>1, <2>2, <2>6, <2>7 DEF found
<1>4. QED
  BY <1>1, <1>2, <1>3 DEF Takes

\* What the end of a removal or of an erasure writes.
Departed(w, documents, areas) ==
    LET u == call[w].user
        r == call[w].replacement
    IN
    /\ CallsFit'
    /\ pc'[w] = "idle"
    /\ \A o \in Workers \ {w} : pc'[o] = pc[o] /\ call'[o] = call[o]
    /\ u \in Users /\ r \in Users /\ call[w].kind \in {"removed", "erased"}
    /\ account[u] # "erased"
    /\ documents \cup areas # {} => account[r] # "erased"
    /\ account' \in [Users -> {"active", "removed", "erased"}]
    /\ email' \in [Users -> Addresses \cup {Nothing}]
    /\ \A v \in Users : /\ account'[v] = IF v = u THEN call[w].kind ELSE account[v]
                       /\ email'[v] = IF v = u THEN Nothing ELSE email[v]
    /\ excluded' \subseteq Addresses /\ crossed' \subseteq Users
    /\ UNCHANGED <<raced, state>>
    /\ crossed \subseteq crossed'
    /\ w \in late => u \in crossed'
    /\ \A o \in Workers \ {w} : Holds(o, u) => u \in crossed'
    /\ late' = (late \cup MissedBy(r, documents, areas)) \ {w}
    /\ manager' \in [Areas -> Users \cup {Nothing}]
    /\ responsible' \in [Documents -> Users]
    /\ \A a \in Areas : manager'[a] = IF a \in areas THEN r ELSE manager[a]
    /\ \A d \in Documents :
         responsible'[d] = IF d \in documents THEN r ELSE responsible[d]

LEMMA DepartEffect ==
    ASSUME TypeOK, NEW w \in Workers, call[w] \in RemovalCall,
           NEW documents \in SUBSET Documents, NEW areas \in SUBSET Areas,
           Depart(w, documents, areas)
    PROVE  Departed(w, documents, areas)
<1> DEFINE u == call[w].user
           r == call[w].replacement
<1>1. u \in Users /\ r \in Users /\ call[w].kind \in {"removed", "erased"}
  BY DEF RemovalCall
<1>2. /\ account[u] # "erased"
      /\ documents \cup areas # {} => account[r] # "erased"
      /\ UNCHANGED <<raced, state>>
  BY DEF Depart
<1>3. /\ account' \in [Users -> {"active", "removed", "erased"}]
      /\ email' \in [Users -> Addresses \cup {Nothing}]
      /\ \A v \in Users : /\ account'[v] = IF v = u THEN call[w].kind ELSE account[v]
                         /\ email'[v] = IF v = u THEN Nothing ELSE email[v]
  BY <1>1 DEF TypeOK, Depart
<1>4. /\ excluded' \subseteq Addresses /\ crossed' \subseteq Users
      /\ crossed \subseteq crossed'
      /\ w \in late => u \in crossed'
      /\ \A o \in Workers \ {w} : Holds(o, u) => u \in crossed'
  BY <1>1 DEF TypeOK, Depart
<1>5. /\ manager' \in [Areas -> Users \cup {Nothing}]
      /\ responsible' \in [Documents -> Users]
      /\ \A a \in Areas : manager'[a] = IF a \in areas THEN r ELSE manager[a]
      /\ \A d \in Documents :
           responsible'[d] = IF d \in documents THEN r ELSE responsible[d]
  BY <1>1 DEF TypeOK, Depart, HandOver
<1>6. EndPast(w, MissedBy(r, documents, areas))
  BY DEF Depart
<1>7. /\ MissedBy(r, documents, areas) \in SUBSET Workers
      /\ late' = (late \cup MissedBy(r, documents, areas)) \ {w}
  BY <1>6 DEF MissedBy, EndPast
<1>8. /\ CallsFit'
      /\ pc'[w] = "idle"
      /\ \A o \in Workers \ {w} : pc'[o] = pc[o] /\ call'[o] = call[o]
  BY <1>6, <1>7, EndType
<1>9. QED
  BY <1>1, <1>2, <1>3, <1>4, <1>5, <1>7, <1>8 DEF Departed

\* The end of a removal, and of an erasure, writes as they depart.
LEMMA RemovalDeparts ==
    ASSUME TypeOK, NEW w \in Workers, FinishRemoval(w)
    PROVE  /\ pc[w] = "requests" /\ Removing(w)
           /\ call[w] \in RemovalCall
           /\ call[w].documents \in SUBSET Documents
           /\ call[w].areas \in SUBSET Areas
           /\ Depart(w, call[w].documents, call[w].areas)
           /\ access' \in [Pairs -> {"NONE", "PENDING", "APPROVED", "REJECTED"}]
           /\ \A p \in Pairs : access'[p] =
                IF p[2] = call[w].user /\ p[1] \in call[w].requests THEN "NONE" ELSE access[p]
           /\ UNCHANGED approver
<1>1. pc[w] = "requests"
  BY DEF FinishRemoval
<1>2. Removing(w) /\ call[w] \in RemovalCall
  BY <1>1 DEF TypeOK, Removing, Taking
<1>3. call[w].documents \in SUBSET Documents /\ call[w].areas \in SUBSET Areas
  BY <1>2 DEF RemovalCall
<1>4. QED
  BY <1>1, <1>2, <1>3 DEF FinishRemoval, TypeOK

LEMMA ErasureDeparts ==
    ASSUME TypeOK, NEW w \in Workers, FinishErasure(w),
           NEW documents, documents = {d \in Documents : responsible[d] = call[w].user},
           NEW areas, areas = {a \in Areas : manager[a] = call[w].user}
    PROVE  /\ pc[w] = "chosen" /\ Removing(w)
           /\ call[w] \in RemovalCall /\ call[w].kind = "erased"
           /\ documents \in SUBSET Documents /\ areas \in SUBSET Areas
           /\ Depart(w, documents, areas)
           /\ documents \cap Locked(w).documents = {}
           /\ areas \cap Locked(w).areas = {}
           /\ (Documents \X {call[w].user}) \cap Locked(w).requests = {}
           /\ NotUnderDecision(call[w].user)
           /\ areas # {} => MayManage(w, call[w].replacement)
           /\ access' \in [Pairs -> {"NONE", "PENDING", "APPROVED", "REJECTED"}]
           /\ approver' \in [Pairs -> Users \cup {Nothing}]
<1>1. pc[w] = "chosen" /\ call[w].kind = "erased"
  BY DEF FinishErasure
<1>2. Removing(w) /\ call[w] \in RemovalCall
  BY <1>1 DEF TypeOK, Removing
<1>3. call[w].replacement \in Users
  BY <1>2 DEF RemovalCall
<1>4. /\ Depart(w, documents, areas)
      /\ documents \cap Locked(w).documents = {}
      /\ areas \cap Locked(w).areas = {}
      /\ (Documents \X {call[w].user}) \cap Locked(w).requests = {}
      /\ NotUnderDecision(call[w].user)
      /\ areas # {} => MayManage(w, call[w].replacement)
  BY DEF FinishErasure
<1>5. access' \in [Pairs -> {"NONE", "PENDING", "APPROVED", "REJECTED"}]
  BY DEF FinishErasure, TypeOK
<1>6. approver' \in [Pairs -> Users \cup {Nothing}]
  BY <1>3 DEF FinishErasure, ReassignApprovals, TypeOK
<1>7. documents \in SUBSET Documents /\ areas \in SUBSET Areas
  OBVIOUS
<1>8. QED
  BY <1>1, <1>2, <1>4, <1>5, <1>6, <1>7

\* The rows of document_access after an erasure.
LEMMA ErasureRows ==
    ASSUME TypeOK, NEW w \in Workers, FinishErasure(w), NEW p \in Pairs
    PROVE  /\ access'[p] = IF p[2] = call[w].user THEN "NONE" ELSE access[p]
           /\ approver'[p] = IF p[2] = call[w].user THEN Nothing
                             ELSE IF approver[p] = call[w].user
                             THEN call[w].replacement ELSE approver[p]
           /\ p[2] # call[w].user /\ approver[p] = call[w].user
                => account[call[w].replacement] # "erased"
BY DEF FinishErasure, ReassignApprovals

\* Removals and erasures write values of the right types.
LEMMA DepartType ==
    ASSUME TypeOK, NEW w \in Workers, FinishRemoval(w) \/ FinishErasure(w)
    PROVE  TypeOK'
<1>1. CASE FinishRemoval(w)
  <2>1. /\ call[w] \in RemovalCall
        /\ call[w].documents \in SUBSET Documents /\ call[w].areas \in SUBSET Areas
        /\ Depart(w, call[w].documents, call[w].areas)
        /\ access' \in [Pairs -> {"NONE", "PENDING", "APPROVED", "REJECTED"}]
        /\ UNCHANGED approver
    BY <1>1, RemovalDeparts
  <2>2. /\ CallsFit'
        /\ account' \in [Users -> {"active", "removed", "erased"}]
        /\ email' \in [Users -> Addresses \cup {Nothing}]
        /\ excluded' \subseteq Addresses /\ crossed' \subseteq Users
        /\ UNCHANGED <<raced, state>>
        /\ manager' \in [Areas -> Users \cup {Nothing}]
        /\ responsible' \in [Documents -> Users]
    BY <2>1, DepartEffect DEF Departed
  <2>3. QED
    BY <2>1, <2>2 DEF TypeOK, CallsFit, Calls, Steps
<1>2. CASE FinishErasure(w)
  <2> DEFINE documents == {d \in Documents : responsible[d] = call[w].user}
             areas == {a \in Areas : manager[a] = call[w].user}
  <2>1. /\ call[w] \in RemovalCall
        /\ documents \in SUBSET Documents /\ areas \in SUBSET Areas
        /\ Depart(w, documents, areas)
        /\ access' \in [Pairs -> {"NONE", "PENDING", "APPROVED", "REJECTED"}]
        /\ approver' \in [Pairs -> Users \cup {Nothing}]
    BY <1>2, ErasureDeparts
  <2> HIDE DEF documents, areas
  <2>2. /\ CallsFit'
        /\ account' \in [Users -> {"active", "removed", "erased"}]
        /\ email' \in [Users -> Addresses \cup {Nothing}]
        /\ excluded' \subseteq Addresses /\ crossed' \subseteq Users
        /\ UNCHANGED <<raced, state>>
        /\ manager' \in [Areas -> Users \cup {Nothing}]
        /\ responsible' \in [Documents -> Users]
    BY <2>1, DepartEffect DEF Departed
  <2>3. QED
    BY <2>1, <2>2 DEF TypeOK, CallsFit, Calls, Steps
<1>3. QED
  BY <1>1, <1>2

LEMMA TypeStep == TypeOK /\ [Next]_vars => TypeOK'
<1> SUFFICES ASSUME TypeOK, [Next]_vars PROVE TypeOK'
  OBVIOUS
<1> USE DEF users, work, grants
<1>0. ASSUME CallsFit', UNCHANGED <<users, work, state, grants>>
      PROVE  TypeOK'
  BY <1>0 DEF TypeOK, CallsFit, Calls, Steps
<1>1. ASSUME NEW w \in Workers, NEW u \in Users, NEW x \in Addresses,
             StartUpdate(w, u, x)
      PROVE  TypeOK'
  <2>1. Begin(w, "updating", [user |-> u, address |-> x]) /\ raced' \subseteq Addresses
    BY <1>1 DEF StartUpdate, BeginUpdate, TypeOK
  <2>2. [user |-> u, address |-> x] \in UpdateCall
    BY DEF UpdateCall
  <2>3. CallsFit'
    BY <2>1, <2>2, BeginType
  <2>4. QED
    BY <1>1, <2>1, <2>3 DEF StartUpdate, BeginUpdate, TypeOK, CallsFit, Calls, Steps
<1>2. ASSUME NEW w \in Workers, NEW u \in Users, NEW r \in Users,
             StartRemoval(w, u, r) \/ StartErasure(w, u, r)
      PROVE  TypeOK'
  <2>1. email[u] \in Addresses \cup {Nothing}
    BY DEF TypeOK
  <2>2. \A kind \in {"removed", "erased"} : Chosen(u, kind, r) \in RemovalCall
    BY <2>1 DEF Chosen, RemovalCall
  <2>3. CallsFit'
    BY <1>2, <2>2, BeginType DEF StartRemoval, StartErasure
  <2>4. QED
    BY <1>0, <1>2, <2>3 DEF StartRemoval, StartErasure
<1>3. ASSUME NEW w \in Workers, NEW u \in Users, NEW d \in Documents,
             StartAccessRequest(w, d, u)
      PROVE  TypeOK'
  <2>1. [user |-> u, document |-> d] \in AccessCall
    BY DEF AccessCall
  <2>2. CallsFit'
    BY <1>3, <2>1, BeginType DEF StartAccessRequest
  <2>3. QED
    BY <1>0, <1>3, <2>2 DEF StartAccessRequest
<1>4. ASSUME NEW w \in Workers, NEW u \in Users, NEW p \in Pairs,
             StartDecision(w, u, p)
      PROVE  TypeOK'
  <2>1. [user |-> u, pair |-> p] \in DecisionCall
    BY DEF DecisionCall
  <2>2. CallsFit'
    BY <1>4, <2>1, BeginType DEF StartDecision
  <2>3. QED
    BY <1>0, <1>4, <2>2 DEF StartDecision
<1>5. ASSUME NEW w \in Workers, SaveUpdate(w)
      PROVE  TypeOK'
  <2>1. call[w].user \in Users /\ call[w].address \in Addresses
    BY <1>5 DEF TypeOK, SaveUpdate, UpdateCall
  <2>2. EndPast(w, {})
    BY <1>5 DEF SaveUpdate, End
  <2>3. CallsFit'
    BY <2>2, EndType
  <2>4. QED
    BY <1>5, <2>1, <2>3 DEF TypeOK, SaveUpdate, CallsFit, Calls, Steps
<1>6. ASSUME NEW w \in Workers, Takes(w)
      PROVE  TypeOK'
  BY <1>0, <1>6, TakeEffect
<1>7. ASSUME NEW w \in Workers, FileAccessRequest(w)
      PROVE  TypeOK'
  <2>1. PICK missed \in SUBSET Workers : EndPast(w, missed)
    BY <1>7 DEF FileAccessRequest
  <2>2. access' \in [Pairs -> {"NONE", "PENDING", "APPROVED", "REJECTED"}]
    BY <1>7 DEF TypeOK, FileAccessRequest
  <2>3. CallsFit'
    BY <2>1, EndType
  <2>4. QED
    BY <1>7, <2>2, <2>3 DEF TypeOK, FileAccessRequest, CallsFit, Calls, Steps
<1>8. ASSUME NEW w \in Workers, LockRequest(w)
      PROVE  TypeOK'
  BY <1>8 DEF TypeOK, LockRequest, Taking
<1>9. ASSUME NEW w \in Workers, Decide(w)
      PROVE  TypeOK'
  <2>1. call[w].user \in Users /\ call[w].pair \in Pairs /\ EndPast(w, {})
    BY <1>9 DEF TypeOK, Decide, DecisionCall, End
  <2>2. CallsFit'
    BY <2>1, EndType
  <2>3. QED
    BY <1>9, <2>1, <2>2 DEF TypeOK, Decide, CallsFit, Calls, Steps
<1>10. ASSUME NEW w \in Workers, RefuseDecision(w) \/ Fail(w)
       PROVE  TypeOK'
  <2>1. EndPast(w, {}) /\ UNCHANGED <<users, work, state, grants>>
    BY <1>10 DEF RefuseDecision, Fail, End
  <2>2. CallsFit'
    BY <2>1, EndType
  <2>3. QED
    BY <1>0, <2>1, <2>2
<1>11. ASSUME NEW d \in Documents, NEW s \in {"listed", "archived", "withdrawn"},
              ChangeState(d, s)
       PROVE  TypeOK'
  BY <1>11 DEF TypeOK, ChangeState
<1>12. CASE UNCHANGED vars
  BY <1>12 DEF TypeOK, vars
<1>13. ASSUME NEW w \in Workers, FinishRemoval(w) \/ FinishErasure(w)
       PROVE  TypeOK'
  BY <1>13, DepartType
<1>14. QED
  BY <1>1, <1>2, <1>3, <1>4, <1>5, <1>6, <1>7, <1>8, <1>9, <1>10, <1>11,
     <1>12, <1>13 DEF Next, Start, Proceed, Takes

\* Every reachable state is well typed: a request carries the arguments its
\* step needs.
THEOREM TypeCorrect == Spec => []TypeOK
BY TypeInit, TypeStep, PTL DEF Spec
--------------------------------------------------------------------------------
\* What the steps do to the tables.

\* Only five steps write the tables of accounts, work and grants.
LEMMA WriteSteps ==
    ASSUME [Next]_vars
    PROVE  \/ UNCHANGED <<account, email, excluded, crossed, work, grants>>
           \/ \E w \in Workers : \/ SaveUpdate(w) \/ FileAccessRequest(w) \/ Decide(w)
                                \/ FinishRemoval(w) \/ FinishErasure(w)
<1> DEFINE Kept == UNCHANGED <<account, email, excluded, crossed, work, grants>>
<1>1. ASSUME NEW w \in Workers, Start(w)
      PROVE  Kept
  BY <1>1 DEF Start, StartUpdate, BeginUpdate, StartRemoval, StartErasure,
              StartAccessRequest, StartDecision, users
<1>2. ASSUME NEW w \in Workers, Proceed(w) \/ Fail(w)
      PROVE  \/ Kept
             \/ SaveUpdate(w) \/ FileAccessRequest(w) \/ Decide(w)
             \/ FinishRemoval(w) \/ FinishErasure(w)
  BY <1>2 DEF Proceed, TakeDocuments, TakeAreas, TakeRequests, Statement,
              LockRequest, RefuseDecision, Fail, users
<1>3. ASSUME NEW d \in Documents, NEW s, ChangeState(d, s)
      PROVE  Kept
  BY <1>3 DEF ChangeState, users
<1>4. CASE UNCHANGED vars
  BY <1>4 DEF vars, users, work, grants
<1>5. QED
  BY <1>1, <1>2, <1>3, <1>4 DEF Next

\* A profile update writes one address.
LEMMA UpdateEffect ==
    ASSUME TypeOK, NEW w \in Workers, SaveUpdate(w)
    PROVE  /\ call[w].user \in Users
           /\ call[w].address \in Addresses
           /\ pc[w] = "updating" /\ pc'[w] = "idle"
           /\ \A o \in Workers \ {w} : pc'[o] = pc[o] /\ call'[o] = call[o]
           /\ late' = late \ {w}
           /\ \A v \in Users : email'[v] = IF v = call[w].user THEN call[w].address ELSE email[v]
           /\ UNCHANGED <<account, excluded, crossed, raced, work, state, grants>>
<1>1. pc[w] = "updating" /\ EndPast(w, {})
  BY DEF SaveUpdate, End
<1>2. late' = late \ {w}
  BY <1>1 DEF EndPast
<1>3. call[w].user \in Users /\ call[w].address \in Addresses
  BY <1>1 DEF TypeOK, UpdateCall
<1>4. QED
  BY <1>1, <1>2, <1>3, EndType DEF TypeOK, SaveUpdate, grants

\* A request for access makes one row pending, if there was none.
LEMMA FileEffect ==
    ASSUME TypeOK, NEW w \in Workers, FileAccessRequest(w)
    PROVE  /\ \A p \in Pairs : access'[p] # access[p] =>
                /\ access[p] = "NONE" /\ access'[p] = "PENDING"
                /\ \A o \in Workers : pc[o] = "requests" /\ call[o].user = p[2] /\ o # w
                     => o \in late'
           /\ late \ {w} \subseteq late'
           /\ pc[w] = "asking" /\ pc'[w] = "idle"
           /\ \A o \in Workers \ {w} : pc'[o] = pc[o] /\ call'[o] = call[o]
           /\ UNCHANGED <<users, work, state, approver>>
<1> DEFINE q == <<call[w].document, call[w].user>>
           missed == {o \in Workers : access[q] = "NONE" /\ pc[o] = "requests"
                                      /\ call[o].user = q[2]}
<1>1. /\ pc[w] = "asking"
      /\ EndPast(w, missed)
      /\ access' = [access EXCEPT ![q] = IF @ = "NONE" THEN "PENDING" ELSE @]
      /\ UNCHANGED <<users, work, state, approver>>
  BY DEF FileAccessRequest
<1>2. \A p \in Pairs : access'[p] # access[p] =>
        p = q /\ access[p] = "NONE" /\ access'[p] = "PENDING"
  BY <1>1 DEF TypeOK
<1>3. missed \in SUBSET Workers /\ late' = (late \cup missed) \ {w}
  BY <1>1 DEF EndPast
<1> HIDE DEF q
<1>4. /\ pc'[w] = "idle"
      /\ \A o \in Workers \ {w} : pc'[o] = pc[o] /\ call'[o] = call[o]
  BY <1>1, <1>3, EndType
<1>5. QED
  BY <1>1, <1>2, <1>3, <1>4

\* A decision writes the row it has locked.
LEMMA DecideEffect ==
    ASSUME TypeOK, NEW w \in Workers, Decide(w)
    PROVE  /\ pc[w] = "deciding" /\ pc'[w] = "idle"
           /\ \A o \in Workers \ {w} : pc'[o] = pc[o] /\ call'[o] = call[o]
           /\ late' = late \ {w}
           /\ call[w].user \in Users /\ call[w].pair \in Pairs
           /\ account[call[w].user] # "erased"
           /\ access'[call[w].pair] \in {"APPROVED", "REJECTED"}
           /\ approver'[call[w].pair] = call[w].user
           /\ \A p \in Pairs : p # call[w].pair =>
                access'[p] = access[p] /\ approver'[p] = approver[p]
           /\ UNCHANGED <<users, work, state>>
<1>1. pc[w] = "deciding" /\ account[call[w].user] # "erased" /\ EndPast(w, {})
  BY DEF Decide, End
<1>2. call[w].user \in Users /\ call[w].pair \in Pairs
  BY <1>1 DEF TypeOK, DecisionCall
<1>3. /\ pc'[w] = "idle"
      /\ \A o \in Workers \ {w} : pc'[o] = pc[o] /\ call'[o] = call[o]
  BY <1>1, EndType
<1>4. late' = late \ {w}
  BY <1>1 DEF EndPast
<1>5. QED
  BY <1>1, <1>2, <1>3, <1>4 DEF TypeOK, Decide

\* What other removals have taken is locked.
LEMMA LockedBy ==
    ASSUME NEW w \in Workers, NEW o \in Workers \ {w}, pc[o] \in Taking
    PROVE  /\ call[o].documents \subseteq Locked(w).documents
           /\ call[o].areas \subseteq Locked(w).areas
           /\ call[o].requests \X {call[o].user} \subseteq Locked(w).requests
BY DEF Locked

\* Nothing else is, now or after a step.
LEMMA LockedOnly ==
    ASSUME NEW w \in Workers, NEW x
    PROVE  /\ x \in Locked(w).documents =>
                \E o \in Workers \ {w} : pc[o] \in Taking /\ x \in call[o].documents
           /\ x \in Locked(w).areas =>
                \E o \in Workers \ {w} : pc[o] \in Taking /\ x \in call[o].areas
           /\ x \in Locked(w).requests =>
                \E o \in Workers \ {w} : /\ pc[o] \in Taking
                                         /\ x \in call[o].requests \X {call[o].user}
BY DEF Locked

LEMMA LockedOnlyNext ==
    ASSUME NEW w \in Workers, NEW x
    PROVE  /\ x \in Locked(w)'.documents =>
                \E o \in Workers \ {w} : pc'[o] \in Taking /\ x \in call'[o].documents
           /\ x \in Locked(w)'.areas =>
                \E o \in Workers \ {w} : pc'[o] \in Taking /\ x \in call'[o].areas
           /\ x \in Locked(w)'.requests =>
                \E o \in Workers \ {w} : /\ pc'[o] \in Taking
                                         /\ x \in call'[o].requests \X {call'[o].user}
BY DEF Locked, Taking

\* The work a removal or an erasure moves: it was the user's, nobody else had
\* taken it, and it is all there was, unless a row was missed.
Moves(w, documents, areas) ==
    LET u == call[w].user
        r == call[w].replacement
    IN
    /\ documents \in SUBSET Documents /\ areas \in SUBSET Areas
    /\ Departed(w, documents, areas)
    /\ \A d \in documents : responsible[d] = u
    /\ \A a \in areas : manager[a] = u
    /\ \/ w \in late /\ FinishRemoval(w)
       \/ /\ \A d \in Documents : responsible[d] = u => d \in documents
          /\ \A a \in Areas : manager[a] = u => a \in areas
    /\ documents \cap Locked(w).documents = {}
    /\ areas \cap Locked(w).areas = {}
    /\ areas # {} => MayManage(w, r)
    /\ r # u /\ Removing(w)
    /\ FinishErasure(w) => call[w].kind = "erased"
    /\ FinishRemoval(w) => call[w].kind = "removed" /\ pc[w] = "requests"

LEMMA WorkMoves ==
    ASSUME IInv, NEW w \in Workers, FinishRemoval(w) \/ FinishErasure(w)
    PROVE  \E documents, areas : Moves(w, documents, areas)
<1> DEFINE u == call[w].user
           r == call[w].replacement
<1> TypeOK /\ TakenRows /\ NothingElse /\ ReplacementIsAnother
  BY DEF IInv
<1>1. CASE FinishRemoval(w)
  <2> DEFINE documents == call[w].documents
             areas == call[w].areas
  <2>1. /\ pc[w] = "requests" /\ pc[w] \in Taking /\ Removing(w)
        /\ call[w] \in RemovalCall
        /\ documents \in SUBSET Documents /\ areas \in SUBSET Areas
        /\ Depart(w, documents, areas)
    BY <1>1, RemovalDeparts DEF Taking
  <2>2. /\ call[w].kind = "removed"
        /\ \A d \in documents : responsible[d] = u
        /\ \A a \in areas : manager[a] = u
        /\ documents \cap Locked(w).documents = {}
        /\ areas \cap Locked(w).areas = {}
        /\ areas # {} => MayManage(w, r)
    BY <2>1 DEF TakenRows
  <2>3. \/ w \in late
        \/ /\ \A d \in Documents : responsible[d] = u => d \in documents
           /\ \A a \in Areas : manager[a] = u => a \in areas
    BY <2>1 DEF NothingElse
  <2>4. r # u /\ ~FinishErasure(w)
    BY <2>1 DEF ReplacementIsAnother, FinishErasure
  <2> HIDE DEF documents, areas
  <2>5. Departed(w, documents, areas)
    BY <2>1, DepartEffect
  <2>6. Moves(w, documents, areas)
    BY <1>1, <2>1, <2>2, <2>3, <2>4, <2>5 DEF Moves
  <2>7. QED
    BY <2>6
<1>2. CASE FinishErasure(w)
  <2> DEFINE documents == {d \in Documents : responsible[d] = call[w].user}
             areas == {a \in Areas : manager[a] = call[w].user}
  <2>1. /\ pc[w] = "chosen" /\ Removing(w)
        /\ call[w] \in RemovalCall /\ call[w].kind = "erased"
        /\ documents \in SUBSET Documents /\ areas \in SUBSET Areas
        /\ Depart(w, documents, areas)
        /\ documents \cap Locked(w).documents = {}
        /\ areas \cap Locked(w).areas = {}
        /\ areas # {} => MayManage(w, r)
    BY <1>2, ErasureDeparts
  <2>2. r # u /\ ~FinishRemoval(w)
    BY <2>1 DEF ReplacementIsAnother, FinishRemoval
  <2>3. /\ \A d \in documents : responsible[d] = u
        /\ \A a \in areas : manager[a] = u
        /\ \A d \in Documents : responsible[d] = u => d \in documents
        /\ \A a \in Areas : manager[a] = u => a \in areas
    OBVIOUS
  <2> HIDE DEF documents, areas
  <2>4. Departed(w, documents, areas)
    BY <2>1, DepartEffect
  <2>5. Moves(w, documents, areas)
    BY <2>1, <2>2, <2>3, <2>4 DEF Moves
  <2>6. QED
    BY <2>5
<1>3. QED
  BY <1>1, <1>2

\* The rows of document_access that go with an account: nobody else has locked
\* them, and a removal takes only pending ones.
LEMMA RowsGo ==
    ASSUME IInv, NEW w \in Workers, FinishRemoval(w) \/ FinishErasure(w),
           NEW p \in Pairs, access'[p] # access[p]
    PROVE  /\ access'[p] = "NONE" /\ p[2] = call[w].user
           /\ p \notin Locked(w).requests
           /\ \A o \in Workers : pc[o] = "deciding" => call[o].pair # p
           /\ FinishRemoval(w) => access[p] = "PENDING"
<1> TypeOK /\ TakenRows /\ LockedRequests
  BY DEF IInv
<1>0. p[1] \in Documents /\ p[2] \in Users /\ p = <<p[1], p[2]>>
  BY DEF Pairs
<1>1. CASE FinishRemoval(w)
  <2>1. /\ pc[w] = "requests" /\ pc[w] \in Taking /\ Removing(w)
        /\ access'[p] = "NONE" /\ p[2] = call[w].user /\ p[1] \in call[w].requests
    BY <1>1, RemovalDeparts DEF Taking
  <2>2. /\ access[<<p[1], call[w].user>>] = "PENDING"
        /\ (call[w].requests \X {call[w].user}) \cap Locked(w).requests = {}
    BY <2>1 DEF TakenRows
  <2>3. p \in call[w].requests \X {call[w].user}
    BY <1>0, <2>1
  <2>4. ASSUME NEW o \in Workers, pc[o] = "deciding"
        PROVE  call[o].pair # p
    <3>1. w \in Workers \ {o} /\ pc[w] \in Taking
      BY <2>1, <2>4
    <3>2. p \in Locked(o).requests
      BY <2>3, <3>1, LockedBy
    <3>3. QED
      BY <2>4, <3>2 DEF LockedRequests, RowLocked
  <2>5. QED
    BY <1>0, <2>1, <2>2, <2>3, <2>4
<1>2. CASE FinishErasure(w)
  <2>1. /\ pc[w] = "chosen" /\ access'[p] = "NONE" /\ p[2] = call[w].user
        /\ (Documents \X {call[w].user}) \cap Locked(w).requests = {}
        /\ NotUnderDecision(call[w].user)
    BY <1>2 DEF FinishErasure
  <2>2. p \in Documents \X {call[w].user}
    BY <1>0, <2>1
  <2>3. ~FinishRemoval(w)
    BY <2>1 DEF FinishRemoval
  <2>4. QED
    BY <2>1, <2>2, <2>3 DEF NotUnderDecision
<1>3. QED
  BY <1>1, <1>2
--------------------------------------------------------------------------------
\* What the steps do to the requests.

Others(w) == \A o \in Workers \ {w} : pc'[o] = pc[o] /\ call'[o] = call[o]

Tables == <<account, email, excluded, crossed, work, grants>>

\* A request begins.  Who is about to be given work is active.
Starts(w) ==
    /\ pc[w] = "idle" /\ Others(w) /\ late' = late /\ UNCHANGED Tables
    /\ \/ pc'[w] \in {"judging", "asking"} /\ UNCHANGED raced
       \/ /\ pc'[w] = "updating"
          /\ \E u \in Users, x \in Addresses : StartUpdate(w, u, x)
          /\ call'[w] \in UpdateCall
       \/ /\ pc'[w] = "chosen"
          /\ UNCHANGED raced
          /\ call'[w] \in RemovalCall
          /\ call'[w].replacement \in Replacements(call'[w].user)
          /\ call'[w].documents = {} /\ call'[w].areas = {} /\ call'[w].requests = {}

\* A request ends and has written nothing.
Drops(w) ==
    /\ pc[w] # "idle" /\ pc'[w] = "idle" /\ Others(w) /\ late' = late \ {w}
    /\ UNCHANGED <<users, work, grants>>

\* A decision goes on to its lock.
Locks(w) ==
    /\ pc[w] = "judging" /\ pc'[w] = "deciding" /\ Others(w) /\ call'[w] = call[w]
    /\ ~RowLocked(call[w].pair, w) /\ access[call[w].pair] = "PENDING"
    /\ late' = late /\ UNCHANGED <<users, work, grants>>

LEMMA Kinds ==
    ASSUME TypeOK, [Next]_vars
    PROVE  \/ UNCHANGED <<users, work, grants, pc, call, late>>
           \/ \E w \in Workers :
                \/ Starts(w) \/ Drops(w) \/ Locks(w) \/ Takes(w)
                \/ SaveUpdate(w) \/ FileAccessRequest(w) \/ Decide(w)
                \/ FinishRemoval(w) \/ FinishErasure(w)
<1> USE DEF users
<1>1. ASSUME NEW w \in Workers, NEW u \in Users, NEW x \in Addresses,
             StartUpdate(w, u, x)
      PROVE  Starts(w)
  <2>1. [user |-> u, address |-> x] \in UpdateCall
    BY DEF UpdateCall
  <2>2. Begin(w, "updating", [user |-> u, address |-> x]) /\ UNCHANGED Tables
    BY <1>1 DEF StartUpdate, BeginUpdate, Tables
  <2>3. QED
    BY <1>1, <2>1, <2>2, BeginType DEF Starts, Others
<1>2. ASSUME NEW w \in Workers, NEW u \in Users, NEW r \in Users,
             StartRemoval(w, u, r) \/ StartErasure(w, u, r)
      PROVE  Starts(w)
  <2>1. PICK kind \in {"removed", "erased"} : Begin(w, "chosen", Chosen(u, kind, r))
    BY <1>2 DEF StartRemoval, StartErasure
  <2>2. r \in Replacements(u) /\ UNCHANGED Tables /\ UNCHANGED raced
    BY <1>2 DEF StartRemoval, StartErasure, Tables
  <2>3. email[u] \in Addresses \cup {Nothing}
    BY DEF TypeOK
  <2>4. /\ Chosen(u, kind, r) \in RemovalCall
        /\ Chosen(u, kind, r).user = u /\ Chosen(u, kind, r).replacement = r
        /\ Chosen(u, kind, r).documents = {} /\ Chosen(u, kind, r).areas = {}
        /\ Chosen(u, kind, r).requests = {}
    BY <2>3 DEF Chosen, RemovalCall
  <2>5. /\ pc[w] = "idle" /\ pc'[w] = "chosen" /\ call'[w] = Chosen(u, kind, r)
        /\ late' = late /\ Others(w)
    BY <2>1, <2>4, BeginType DEF Others
  <2>6. QED
    BY <2>2, <2>4, <2>5 DEF Starts
<1>3. ASSUME NEW w \in Workers, NEW u \in Users,
             \/ \E d \in Documents : StartAccessRequest(w, d, u)
             \/ \E p \in Pairs : StartDecision(w, u, p)
      PROVE  Starts(w)
  <2>1. UNCHANGED Tables /\ UNCHANGED raced
    BY <1>3 DEF StartAccessRequest, StartDecision, Tables
  <2>2. ASSUME NEW d \in Documents, StartAccessRequest(w, d, u)
        PROVE  Starts(w)
    <3>1. [user |-> u, document |-> d] \in AccessCall
      BY DEF AccessCall
    <3>2. QED
      BY <2>1, <2>2, <3>1, BeginType DEF StartAccessRequest, Starts, Others
  <2>3. ASSUME NEW p \in Pairs, StartDecision(w, u, p)
        PROVE  Starts(w)
    <3>1. [user |-> u, pair |-> p] \in DecisionCall
      BY DEF DecisionCall
    <3>2. QED
      BY <2>1, <2>3, <3>1, BeginType DEF StartDecision, Starts, Others
  <2>4. QED
    BY <1>3, <2>2, <2>3
<1>4. ASSUME NEW w \in Workers, RefuseDecision(w) \/ Fail(w)
      PROVE  Drops(w)
  <2>1. pc[w] # "idle" /\ EndPast(w, {}) /\ UNCHANGED <<users, work, grants>>
    BY <1>4 DEF RefuseDecision, Fail, End
  <2>2. late' = late \ {w}
    BY <2>1 DEF EndPast
  <2>3. pc'[w] = "idle" /\ Others(w)
    BY <2>1, EndType DEF Others
  <2>4. QED
    BY <2>1, <2>2, <2>3 DEF Drops
<1>5. ASSUME NEW w \in Workers, LockRequest(w)
      PROVE  Locks(w)
  BY <1>5 DEF LockRequest, MayDecide, Locks, Others, TypeOK
<1>6. ASSUME NEW d \in Documents, NEW s, ChangeState(d, s)
      PROVE  UNCHANGED <<users, work, grants, pc, call, late>>
  BY <1>6 DEF ChangeState
<1>7. CASE UNCHANGED vars
  BY <1>7 DEF vars, work, grants
<1>8. QED
  BY <1>1, <1>2, <1>3, <1>4, <1>5, <1>6, <1>7 DEF Next, Start, Proceed, Takes
--------------------------------------------------------------------------------
\* The parts of the invariant, one by one.

LEMMA InvInit == Init => IInv
<1> SUFFICES ASSUME Init PROVE IInv
  OBVIOUS
<1>1. TypeOK
  BY TypeInit
<1>2. AddressesAreUnique /\ RemovedDataIsGone
  BY DEF Init, AddressesAreUnique, RemovedDataIsGone
<1>3. WorkIsOwned /\ ReferencesExist
  BY DEF Init, WorkIsOwned, ReferencesExist, Active
<1>4. ManagesOneArea /\ DecisionsAreSigned
  BY DEF Init, ManagesOneArea, DecisionsAreSigned
<1>5. \A w \in Workers : pc[w] = "idle" /\ pc[w] \notin Taking /\ ~Removing(w)
  BY DEF Init, Taking, Removing
<1>6. HeldAccounts /\ ReplacementIsAnother /\ UpdatesUnderWay
  BY <1>5 DEF HeldAccounts, Holds, ReplacementIsAnother, UpdatesUnderWay
<1>7. LockedRequests /\ TakenRows /\ NothingElse
  BY <1>5 DEF LockedRequests, TakenRows, NothingElse
<1>8. QED
  BY <1>1, <1>2, <1>3, <1>4, <1>6, <1>7 DEF IInv

\* What a removal or an erasure does to the accounts and to the work.
LEMMA Departs ==
    ASSUME IInv, NEW w \in Workers, FinishRemoval(w) \/ FinishErasure(w),
           NEW u, u = call[w].user, NEW r, r = call[w].replacement
    PROVE  /\ u \in Users /\ r \in Users /\ r # u /\ Removing(w)
           /\ account[u] # "erased" /\ call[w].kind \in {"removed", "erased"}
           /\ FinishErasure(w) => call[w].kind = "erased"
           /\ FinishRemoval(w) => call[w].kind = "removed" /\ pc[w] = "requests"
           /\ \A v \in Users : /\ account'[v] = IF v = u THEN call[w].kind ELSE account[v]
                              /\ email'[v] = IF v = u THEN Nothing ELSE email[v]
           /\ crossed \subseteq crossed'
           /\ \A o \in Workers \ {w} : Holds(o, u) => u \in crossed'
           /\ FinishRemoval(w) /\ w \in late => u \in crossed'
           /\ UNCHANGED raced /\ late \ {w} \subseteq late'
           /\ pc'[w] = "idle" /\ Others(w)
           /\ \A d \in Documents :
                /\ responsible'[d] = responsible[d] \/ (responsible[d] = u /\ responsible'[d] = r)
                /\ responsible'[d] = u => FinishRemoval(w) /\ w \in late
                /\ responsible'[d] # responsible[d] => account[r] # "erased"
           /\ \A a \in Areas :
                /\ manager'[a] = manager[a] \/ (manager[a] = u /\ manager'[a] = r)
                /\ manager'[a] = u => FinishRemoval(w) /\ w \in late
                /\ manager'[a] # manager[a] => account[r] # "erased"
<1>1. PICK documents, areas : Moves(w, documents, areas)
  BY WorkMoves
<1>2. /\ \A d \in documents : responsible[d] = u
      /\ \A a \in areas : manager[a] = u
      /\ \/ w \in late /\ FinishRemoval(w)
         \/ /\ \A d \in Documents : responsible[d] = u => d \in documents
            /\ \A a \in Areas : manager[a] = u => a \in areas
      /\ r # u /\ Removing(w)
      /\ FinishErasure(w) => call[w].kind = "erased"
      /\ FinishRemoval(w) => call[w].kind = "removed" /\ pc[w] = "requests"
      /\ Departed(w, documents, areas)
  BY <1>1 DEF Moves
<1>3. /\ u \in Users /\ r \in Users /\ call[w].kind \in {"removed", "erased"}
      /\ account[u] # "erased"
      /\ documents \cup areas # {} => account[r] # "erased"
      /\ \A v \in Users : /\ account'[v] = IF v = u THEN call[w].kind ELSE account[v]
                         /\ email'[v] = IF v = u THEN Nothing ELSE email[v]
      /\ UNCHANGED raced
      /\ crossed \subseteq crossed'
      /\ w \in late => u \in crossed'
      /\ \A o \in Workers \ {w} : Holds(o, u) => u \in crossed'
      /\ late' = (late \cup MissedBy(r, documents, areas)) \ {w}
      /\ pc'[w] = "idle"
      /\ \A o \in Workers \ {w} : pc'[o] = pc[o] /\ call'[o] = call[o]
      /\ \A a \in Areas : manager'[a] = IF a \in areas THEN r ELSE manager[a]
      /\ \A d \in Documents :
           responsible'[d] = IF d \in documents THEN r ELSE responsible[d]
  BY <1>2 DEF Departed
<1>4. late \ {w} \subseteq late'
  BY <1>3
<1>5. \A d \in Documents :
        /\ responsible'[d] = responsible[d] \/ (responsible[d] = u /\ responsible'[d] = r)
        /\ responsible'[d] = u => FinishRemoval(w) /\ w \in late
        /\ responsible'[d] # responsible[d] => account[r] # "erased"
  BY <1>2, <1>3
<1>6. \A a \in Areas :
        /\ manager'[a] = manager[a] \/ (manager[a] = u /\ manager'[a] = r)
        /\ manager'[a] = u => FinishRemoval(w) /\ w \in late
        /\ manager'[a] # manager[a] => account[r] # "erased"
  BY <1>2, <1>3
<1>7. Others(w)
  BY <1>3 DEF Others
<1>8. QED
  BY <1>2, <1>3, <1>4, <1>5, <1>6, <1>7

\* The addresses that are noted stay noted.
LEMMA RacedGrows == IInv /\ [Next]_vars => raced \subseteq raced'
<1> SUFFICES ASSUME IInv, [Next]_vars PROVE raced \subseteq raced'
  OBVIOUS
<1> TypeOK
  BY DEF IInv
<1>1. ASSUME NEW w \in Workers, NEW u \in Users, NEW x \in Addresses, StartUpdate(w, u, x)
      PROVE  raced \subseteq raced'
  BY <1>1 DEF StartUpdate, BeginUpdate
<1>2. ASSUME NEW w \in Workers, Takes(w) PROVE raced \subseteq raced'
  BY <1>2, TakeEffect DEF users
<1>3. ASSUME NEW w \in Workers, FinishRemoval(w) \/ FinishErasure(w)
      PROVE  raced \subseteq raced'
  BY <1>3, Departs
<1>4. QED
  BY <1>1, <1>2, <1>3, Kinds, UpdateEffect, FileEffect, DecideEffect
     DEF Starts, Drops, Locks, users

LEMMA AddressesStep == IInv /\ [Next]_vars => AddressesAreUnique'
<1> SUFFICES ASSUME IInv, [Next]_vars PROVE AddressesAreUnique'
  OBVIOUS
<1> TypeOK /\ AddressesAreUnique /\ UpdatesUnderWay
  BY DEF IInv
<1>0. raced \subseteq raced'
  BY RacedGrows
<1>1. ASSUME NEW w \in Workers, SaveUpdate(w) PROVE AddressesAreUnique'
  <2>1. /\ call[w].user \in Users
        /\ \A v \in Users : email'[v] = IF v = call[w].user THEN call[w].address ELSE email[v]
        /\ pc[w] = "updating"
    BY <1>1, UpdateEffect
  <2>2. \A v \in Users \ {call[w].user} : email[v] = call[w].address =>
          call[w].address \in raced
    BY <2>1 DEF UpdatesUnderWay
  <2>3. QED
    BY <1>0, <2>1, <2>2 DEF AddressesAreUnique
<1>2. ASSUME NEW w \in Workers, FinishRemoval(w) \/ FinishErasure(w)
      PROVE  AddressesAreUnique'
  <2>1. \A v \in Users : email'[v] \in {Nothing, email[v]}
    BY <1>2, Departs
  <2>2. QED
    BY <1>0, <2>1 DEF AddressesAreUnique
<1>3. ASSUME UNCHANGED email PROVE AddressesAreUnique'
  BY <1>0, <1>3 DEF AddressesAreUnique
<1>4. QED
  BY <1>1, <1>2, <1>3, WriteSteps, FileEffect, DecideEffect DEF users

LEMMA WorkStep == IInv /\ [Next]_vars => WorkIsOwned'
<1> SUFFICES ASSUME IInv, [Next]_vars PROVE WorkIsOwned'
  OBVIOUS
<1> TypeOK /\ WorkIsOwned /\ HeldAccounts
  BY DEF IInv
<1>1. ASSUME NEW w \in Workers, FinishRemoval(w) \/ FinishErasure(w) PROVE WorkIsOwned'
  <2> DEFINE u == call[w].user
             r == call[w].replacement
  <2>1. /\ u \in Users /\ r \in Users /\ r # u /\ Removing(w)
        /\ \A v \in Users : account'[v] = IF v = u THEN call[w].kind ELSE account[v]
        /\ crossed \subseteq crossed'
        /\ FinishRemoval(w) /\ w \in late => u \in crossed'
    BY <1>1, Departs
  <2>2. /\ \A d \in Documents :
             /\ responsible'[d] = responsible[d] \/ (responsible[d] = u /\ responsible'[d] = r)
             /\ responsible'[d] = u => FinishRemoval(w) /\ w \in late
        /\ \A a \in Areas :
             /\ manager'[a] = manager[a] \/ (manager[a] = u /\ manager'[a] = r)
             /\ manager'[a] = u => FinishRemoval(w) /\ w \in late
    BY <1>1, Departs
  <2>3. Active(r) \/ r \in crossed
    BY <2>1 DEF HeldAccounts, Holds
  <2>4. \A v \in Users : v # u /\ Active(v) => Active(v)'
    BY <2>1 DEF Active
  <2> HIDE DEF u, r
  <2>5. QED
    BY <2>1, <2>2, <2>3, <2>4 DEF WorkIsOwned, TypeOK
<1>2. ASSUME UNCHANGED <<account, crossed, work>> PROVE WorkIsOwned'
  BY <1>2 DEF WorkIsOwned, Active, work
<1>3. QED
  BY <1>1, <1>2, WriteSteps, UpdateEffect, FileEffect, DecideEffect DEF users

LEMMA RemovedDataStep == IInv /\ [Next]_vars => RemovedDataIsGone'
<1> SUFFICES ASSUME IInv, [Next]_vars PROVE RemovedDataIsGone'
  OBVIOUS
<1> TypeOK /\ RemovedDataIsGone /\ HeldAccounts
  BY DEF IInv
<1>1. ASSUME NEW w \in Workers, SaveUpdate(w) PROVE RemovedDataIsGone'
  BY <1>1, UpdateEffect DEF RemovedDataIsGone, HeldAccounts, Holds, Active
<1>2. ASSUME NEW w \in Workers, FinishRemoval(w) \/ FinishErasure(w)
      PROVE  RemovedDataIsGone'
  <2>1. /\ \A v \in Users : v # call[w].user => account'[v] = account[v] /\ email'[v] = email[v]
        /\ \A v \in Users : v = call[w].user => email'[v] = Nothing
        /\ crossed \subseteq crossed'
    BY <1>2, Departs
  <2>2. QED
    BY <2>1 DEF RemovedDataIsGone, Active
<1>3. ASSUME UNCHANGED <<account, email, crossed>> PROVE RemovedDataIsGone'
  BY <1>3 DEF RemovedDataIsGone, Active
<1>4. QED
  BY <1>1, <1>2, <1>3, WriteSteps, FileEffect, DecideEffect DEF users

LEMMA ReferencesStep == IInv /\ [Next]_vars => ReferencesExist'
<1> SUFFICES ASSUME IInv, [Next]_vars PROVE ReferencesExist'
  OBVIOUS
<1> TypeOK /\ ReferencesExist /\ DecisionsAreSigned
  BY DEF IInv
<1>1. ASSUME NEW w \in Workers, FinishRemoval(w) \/ FinishErasure(w) PROVE ReferencesExist'
  <2> DEFINE u == call[w].user
             r == call[w].replacement
  <2>1. /\ u \in Users /\ r \in Users /\ r # u /\ account[u] # "erased"
        /\ FinishRemoval(w) => call[w].kind = "removed"
        /\ \A v \in Users : account'[v] = IF v = u THEN call[w].kind ELSE account[v]
    BY <1>1, Departs
  <2>2. /\ \A d \in Documents :
             /\ responsible'[d] = responsible[d] \/ (responsible[d] = u /\ responsible'[d] = r)
             /\ responsible'[d] = u => FinishRemoval(w) /\ w \in late
             /\ responsible'[d] # responsible[d] => account[r] # "erased"
        /\ \A a \in Areas :
             /\ manager'[a] = manager[a] \/ (manager[a] = u /\ manager'[a] = r)
             /\ manager'[a] = u => FinishRemoval(w) /\ w \in late
             /\ manager'[a] # manager[a] => account[r] # "erased"
    BY <1>1, Departs
  <2>3. \/ FinishRemoval(w) /\ approver' = approver
        \/ \A p \in Pairs : /\ approver'[p] = IF p[2] = u THEN Nothing
                                              ELSE IF approver[p] = u THEN r ELSE approver[p]
                            /\ p[2] # u /\ approver[p] = u => account[r] # "erased"
    BY <1>1, RemovalDeparts, ErasureRows
  <2> HIDE DEF u, r
  <2>4. \A v \in Users : account[v] # "erased" => account'[v] # "erased" \/ v = u
    BY <2>1
  <2>5. FinishRemoval(w) => \A v \in Users : account[v] # "erased" => account'[v] # "erased"
    BY <2>1
  <2>6. \A d \in Documents : account'[responsible'[d]] # "erased"
    <3> SUFFICES ASSUME NEW d \in Documents PROVE account'[responsible'[d]] # "erased"
      OBVIOUS
    <3>1. responsible[d] \in Users /\ account[responsible[d]] # "erased"
      BY DEF ReferencesExist, TypeOK
    <3>2. CASE responsible'[d] = responsible[d]
      BY <2>2, <2>4, <2>5, <3>1, <3>2
    <3>3. CASE responsible'[d] # responsible[d]
      BY <2>1, <2>2, <2>4, <3>3
    <3>4. QED
      BY <3>2, <3>3
  <2>7. \A a \in Areas : manager'[a] \in Users => account'[manager'[a]] # "erased"
    <3> SUFFICES ASSUME NEW a \in Areas, manager'[a] \in Users
                 PROVE  account'[manager'[a]] # "erased"
      OBVIOUS
    <3>1. CASE manager'[a] = manager[a]
      BY <2>2, <2>4, <2>5, <3>1 DEF ReferencesExist
    <3>2. CASE manager'[a] # manager[a]
      BY <2>1, <2>2, <2>4, <3>2
    <3>3. QED
      BY <3>1, <3>2
  <2>8. \A p \in Pairs : approver'[p] \in Users => account'[approver'[p]] # "erased"
    <3>1. CASE FinishRemoval(w) /\ approver' = approver
      BY <2>5, <3>1 DEF ReferencesExist
    <3>2. CASE \A p \in Pairs :
                 /\ approver'[p] = IF p[2] = u THEN Nothing
                                   ELSE IF approver[p] = u THEN r ELSE approver[p]
                 /\ p[2] # u /\ approver[p] = u => account[r] # "erased"
      BY <2>1, <2>4, <3>2 DEF ReferencesExist, TypeOK
    <3>3. QED
      BY <2>3, <3>1, <3>2
  <2>9. QED
    BY <2>6, <2>7, <2>8 DEF ReferencesExist
<1>2. ASSUME NEW w \in Workers, Decide(w) PROVE ReferencesExist'
  BY <1>2, DecideEffect DEF ReferencesExist, users, work
<1>3. ASSUME UNCHANGED <<account, manager, responsible, approver>> PROVE ReferencesExist'
  BY <1>3 DEF ReferencesExist
<1>4. QED
  BY <1>1, <1>2, <1>3, WriteSteps, UpdateEffect, FileEffect DEF users, work, grants

LEMMA ManagesStep == IInv /\ [Next]_vars => ManagesOneArea'
<1> SUFFICES ASSUME IInv, [Next]_vars PROVE ManagesOneArea'
  OBVIOUS
<1> TypeOK /\ ManagesOneArea
  BY DEF IInv
<1>1. ASSUME NEW w \in Workers, FinishRemoval(w) \/ FinishErasure(w) PROVE ManagesOneArea'
  <2> DEFINE u == call[w].user
             r == call[w].replacement
  <2>1. PICK documents, areas : Moves(w, documents, areas)
    BY <1>1, WorkMoves
  <2>2. /\ Departed(w, documents, areas)
        /\ \A a \in areas : manager[a] = u
        /\ areas # {} => MayManage(w, r)
    BY <2>1 DEF Moves
  <2>3. /\ \A a \in Areas : manager'[a] = IF a \in areas THEN r ELSE manager[a]
        /\ u \in Users
    BY <2>2 DEF Departed
  <2>4. areas # {} => \A a \in Areas : manager[a] # r
    BY <2>2 DEF MayManage
  <2>5. u # Nothing
    BY <2>3
  <2> HIDE DEF u, r
  <2>6. QED
    BY <2>2, <2>3, <2>4, <2>5 DEF ManagesOneArea
<1>2. ASSUME UNCHANGED manager PROVE ManagesOneArea'
  BY <1>2 DEF ManagesOneArea
<1>3. QED
  BY <1>1, <1>2, WriteSteps, UpdateEffect, FileEffect, DecideEffect DEF work

LEMMA SignedStep == IInv /\ [Next]_vars => DecisionsAreSigned'
<1> SUFFICES ASSUME IInv, [Next]_vars PROVE DecisionsAreSigned'
  OBVIOUS
<1> TypeOK /\ DecisionsAreSigned
  BY DEF IInv
<1>1. ASSUME NEW w \in Workers, FinishRemoval(w) PROVE DecisionsAreSigned'
  <2>1. \A p \in Pairs : access'[p] # access[p] => access'[p] = "NONE" /\ access[p] = "PENDING"
    BY <1>1, RowsGo
  <2>2. approver' = approver
    BY <1>1 DEF FinishRemoval
  <2>3. QED
    BY <2>1, <2>2 DEF DecisionsAreSigned
<1>2. ASSUME NEW w \in Workers, FinishErasure(w) PROVE DecisionsAreSigned'
  <2> DEFINE u == call[w].user
             r == call[w].replacement
  <2>1. \A p \in Pairs :
          /\ access'[p] = IF p[2] = u THEN "NONE" ELSE access[p]
          /\ approver'[p] = IF p[2] = u THEN Nothing
                            ELSE IF approver[p] = u THEN r ELSE approver[p]
    BY <1>2, ErasureRows
  <2>2. u # Nothing /\ r # Nothing
    BY <1>2, Departs
  <2> HIDE DEF u, r
  <2>3. QED
    BY <2>1, <2>2 DEF DecisionsAreSigned
<1>3. ASSUME NEW w \in Workers, FileAccessRequest(w) PROVE DecisionsAreSigned'
  BY <1>3, FileEffect DEF DecisionsAreSigned
<1>4. ASSUME NEW w \in Workers, Decide(w) PROVE DecisionsAreSigned'
  BY <1>4, DecideEffect DEF DecisionsAreSigned
<1>5. ASSUME UNCHANGED grants PROVE DecisionsAreSigned'
  BY <1>5 DEF DecisionsAreSigned, grants
<1>6. QED
  BY <1>1, <1>2, <1>3, <1>4, <1>5, WriteSteps, UpdateEffect
--------------------------------------------------------------------------------
\* What the requests under way know.

\* A replacement is somebody else, who is active.
LEMMA ReplacementsAreActive ==
    ASSUME NEW u \in Users, NEW r \in Replacements(u)
    PROVE  r # u /\ Active(r)
BY DEF Replacements

\* A step leaves every request as it is, or is a step of one request: it begins,
\* ends, locks a row or runs a statement.
Ends(w) == pc'[w] = "idle" /\ Others(w) /\ late \ {w} \subseteq late'

LEMMA RequestSteps ==
    ASSUME IInv, [Next]_vars
    PROVE  \/ UNCHANGED <<users, work, grants, pc, call, late>>
           \/ \E w \in Workers : Starts(w) \/ Locks(w) \/ Takes(w) \/ Ends(w)
<1> TypeOK
  BY DEF IInv
<1>1. ASSUME NEW w \in Workers, FinishRemoval(w) \/ FinishErasure(w) PROVE Ends(w)
  BY <1>1, Departs DEF Ends
<1>2. ASSUME NEW w \in Workers, Drops(w) PROVE Ends(w)
  BY <1>2 DEF Drops, Ends
<1>3. ASSUME NEW w \in Workers, SaveUpdate(w) PROVE Ends(w)
  BY <1>3, UpdateEffect DEF Ends, Others
<1>4. ASSUME NEW w \in Workers, FileAccessRequest(w) PROVE Ends(w)
  BY <1>4, FileEffect DEF Ends, Others
<1>5. ASSUME NEW w \in Workers, Decide(w) PROVE Ends(w)
  BY <1>5, DecideEffect DEF Ends, Others
<1>6. QED
  BY <1>1, <1>2, <1>3, <1>4, <1>5, Kinds

\* A request comes to hold an account only while it is active, and one that has
\* ended holds nothing.
LEMMA NewHolds ==
    ASSUME IInv, [Next]_vars, NEW o \in Workers, NEW v \in Users, Holds(o, v)'
    PROVE  \/ Holds(o, v) /\ pc'[o] # "idle"
           \/ Active(v) /\ UNCHANGED <<account, crossed>>
<1> TypeOK
  BY DEF IInv
<1>0. pc'[o] # "idle"
  BY DEF Holds, Removing, Taking
<1>1. ASSUME NEW w \in Workers, Starts(w)
      PROVE  Holds(o, v) \/ (Active(v) /\ UNCHANGED <<account, crossed>>)
  <2>1. UNCHANGED <<account, crossed>>
    BY <1>1 DEF Starts, Tables
  <2>2. CASE o # w
    BY <1>1, <2>2 DEF Starts, Others, Holds, Removing
  <2>3. CASE o = w /\ pc'[w] = "updating"
    <3>1. PICK u \in Users, x \in Addresses : StartUpdate(w, u, x)
      BY <1>1, <2>3 DEF Starts
    <3>2. call'[w].user = u /\ Active(u)
      BY <3>1 DEF StartUpdate, BeginUpdate, Begin, TypeOK
    <3>3. QED
      BY <2>1, <2>3, <3>2 DEF Holds, Removing, Taking
  <2>4. CASE o = w /\ pc'[w] = "chosen"
    <3>1. /\ call'[w] \in RemovalCall
          /\ call'[w].replacement \in Replacements(call'[w].user)
      BY <1>1, <2>4 DEF Starts
    <3>2. Active(call'[w].replacement)
      BY <3>1, ReplacementsAreActive DEF RemovalCall
    <3>3. QED
      BY <2>1, <2>4, <3>2 DEF Holds
  <2>5. CASE o = w /\ pc'[w] \in {"judging", "asking"}
    BY <2>5 DEF Holds, Removing, Taking
  <2>6. QED
    BY <1>1, <2>2, <2>3, <2>4, <2>5 DEF Starts
<1>2. ASSUME NEW w \in Workers, Ends(w) PROVE Holds(o, v)
  BY <1>0, <1>2 DEF Ends, Others, Holds, Removing
<1>3. ASSUME NEW w \in Workers, Locks(w) PROVE Holds(o, v)
  BY <1>3 DEF Locks, Others, Holds, Removing, Taking
<1>4. ASSUME NEW w \in Workers, Takes(w) PROVE Holds(o, v)
  <2>1. CASE o # w
    BY <1>4, <2>1, TakeEffect DEF Holds, Removing
  <2>2. CASE o = w
    BY <1>4, <2>2, TakeEffect DEF Holds, Removing
  <2>3. QED
    BY <2>1, <2>2
<1>5. ASSUME UNCHANGED <<pc, call>> PROVE Holds(o, v)
  BY <1>5 DEF Holds, Removing
<1>6. QED
  BY <1>0, <1>1, <1>2, <1>3, <1>4, <1>5, RequestSteps

LEMMA HeldStep == IInv /\ [Next]_vars => HeldAccounts'
<1> SUFFICES ASSUME IInv, [Next]_vars,
                    NEW o \in Workers, NEW v \in Users, Holds(o, v)'
             PROVE  Active(v)' \/ v \in crossed'
  BY DEF HeldAccounts
<1> TypeOK /\ HeldAccounts
  BY DEF IInv
<1>1. CASE UNCHANGED <<account, crossed>>
  BY <1>1, NewHolds DEF HeldAccounts, Active
<1>2. ASSUME NEW w \in Workers, FinishRemoval(w) \/ FinishErasure(w),
             Holds(o, v), pc'[o] # "idle"
      PROVE  Active(v)' \/ v \in crossed'
  <2>1. /\ \A x \in Users : x # call[w].user => account'[x] = account[x]
        /\ crossed \subseteq crossed'
        /\ \A p \in Workers \ {w} : Holds(p, call[w].user) => call[w].user \in crossed'
        /\ o # w
    BY <1>2, Departs
  <2>2. QED
    BY <1>2, <2>1 DEF HeldAccounts, Active
<1>3. QED
  BY <1>1, <1>2, NewHolds, WriteSteps, UpdateEffect, FileEffect, DecideEffect DEF users

LEMMA ReplacementStep == IInv /\ [Next]_vars => ReplacementIsAnother'
<1> SUFFICES ASSUME IInv, [Next]_vars, NEW o \in Workers, Removing(o)'
             PROVE  call'[o].replacement # call'[o].user
  BY DEF ReplacementIsAnother
<1> TypeOK /\ ReplacementIsAnother
  BY DEF IInv
<1> USE DEF Removing, Taking
<1>1. ASSUME NEW w \in Workers, Starts(w) PROVE call'[o].replacement # call'[o].user
  <2>1. CASE o # w
    BY <1>1, <2>1 DEF Starts, Others, ReplacementIsAnother
  <2>2. CASE o = w
    <3>1. /\ call'[w] \in RemovalCall
          /\ call'[w].replacement \in Replacements(call'[w].user)
      BY <1>1, <2>2 DEF Starts
    <3>2. QED
      BY <2>2, <3>1, ReplacementsAreActive DEF RemovalCall
  <2>3. QED
    BY <2>1, <2>2
<1>2. ASSUME NEW w \in Workers, Ends(w) PROVE call'[o].replacement # call'[o].user
  BY <1>2 DEF Ends, Others, ReplacementIsAnother
<1>3. ASSUME NEW w \in Workers, Locks(w) PROVE call'[o].replacement # call'[o].user
  BY <1>3 DEF Locks, Others, ReplacementIsAnother
<1>4. ASSUME NEW w \in Workers, Takes(w) PROVE call'[o].replacement # call'[o].user
  <2>1. CASE o # w
    BY <1>4, <2>1, TakeEffect DEF ReplacementIsAnother
  <2>2. CASE o = w
    BY <1>4, <2>2, TakeEffect DEF ReplacementIsAnother
  <2>3. QED
    BY <2>1, <2>2
<1>5. ASSUME UNCHANGED <<pc, call>> PROVE call'[o].replacement # call'[o].user
  BY <1>5 DEF ReplacementIsAnother
<1>6. QED
  BY <1>1, <1>2, <1>3, <1>4, <1>5, RequestSteps

\* Who is changing to an address after a step was so before it, or has begun
\* now: the address was free, and is noted if somebody else is changing to it.
LEMMA NewUpdates ==
    ASSUME IInv, [Next]_vars, NEW o \in Workers, pc'[o] = "updating"
    PROVE  \/ pc[o] = "updating" /\ call'[o] = call[o]
           \/ /\ pc[o] = "idle" /\ Others(o)
              /\ \A v \in Users \ {call'[o].user} : email[v] # call'[o].address
              /\ Contested(o, call'[o].user, call'[o].address) => call'[o].address \in raced'
              /\ UNCHANGED email
<1> TypeOK
  BY DEF IInv
<1>1. ASSUME NEW w \in Workers, Starts(w), o = w
      PROVE  /\ pc[o] = "idle" /\ Others(o)
             /\ \A v \in Users \ {call'[o].user} : email[v] # call'[o].address
             /\ Contested(o, call'[o].user, call'[o].address) => call'[o].address \in raced'
             /\ UNCHANGED email
  <2>1. PICK u \in Users, x \in Addresses : StartUpdate(w, u, x)
    BY <1>1 DEF Starts
  <2>2. call'[w] = [user |-> u, address |-> x]
    BY <2>1 DEF StartUpdate, BeginUpdate, Begin, TypeOK
  <2>3. /\ \A v \in Users \ {u} : email[v] # x
        /\ raced' = raced \cup {y \in {x} : Contested(w, u, x)}
        /\ UNCHANGED email
    BY <2>1 DEF StartUpdate, BeginUpdate
  <2>4. QED
    BY <1>1, <2>2, <2>3 DEF Starts
<1>2. ASSUME NEW w \in Workers, Starts(w) \/ Ends(w) \/ Locks(w), o # w
      PROVE  pc[o] = "updating" /\ call'[o] = call[o]
  BY <1>2 DEF Starts, Ends, Locks, Others
<1>3. ASSUME NEW w \in Workers, Ends(w) \/ Locks(w) PROVE o # w
  BY <1>3 DEF Ends, Locks
<1>4. ASSUME NEW w \in Workers, Takes(w)
      PROVE  pc[o] = "updating" /\ call'[o] = call[o]
  BY <1>4, TakeEffect
<1>5. ASSUME UNCHANGED <<pc, call>>
      PROVE  pc[o] = "updating" /\ call'[o] = call[o]
  BY <1>5
<1>6. QED
  BY <1>1, <1>2, <1>3, <1>4, <1>5, RequestSteps

\* An address is cleared, or comes from an update that ends.
LEMMA EmailChanges ==
    ASSUME IInv, [Next]_vars, NEW v \in Users, email'[v] # email[v]
    PROVE  \/ email'[v] = Nothing
           \/ \E w \in Workers : /\ pc[w] = "updating" /\ pc'[w] = "idle"
                                /\ call[w].user = v /\ call[w].address = email'[v]
<1> TypeOK
  BY DEF IInv
<1>1. ASSUME NEW w \in Workers, SaveUpdate(w)
      PROVE  /\ pc[w] = "updating" /\ pc'[w] = "idle"
             /\ call[w].user = v /\ call[w].address = email'[v]
  BY <1>1, UpdateEffect
<1>2. ASSUME NEW w \in Workers, FinishRemoval(w) \/ FinishErasure(w)
      PROVE  email'[v] = Nothing
  BY <1>2, Departs
<1>3. ~UNCHANGED email
  OBVIOUS
<1>4. QED
  BY <1>1, <1>2, <1>3, WriteSteps, FileEffect, DecideEffect DEF users

LEMMA UpdatesStep == IInv /\ [Next]_vars => UpdatesUnderWay'
<1> SUFFICES ASSUME IInv, [Next]_vars, NEW o \in Workers, pc'[o] = "updating",
                    NEW u, u = call'[o].user, NEW x, x = call'[o].address
             PROVE  /\ \A v \in Users \ {u} : email'[v] = x => x \in raced'
                    /\ Contested(o, u, x)' => x \in raced'
  BY DEF UpdatesUnderWay
<1> TypeOK /\ UpdatesUnderWay
  BY DEF IInv
<1>0. x # Nothing
  <2>1. TypeOK'
    BY TypeStep
  <2>2. call'[o] \in UpdateCall
    BY <2>1 DEF TypeOK
  <2>3. QED
    BY <2>2 DEF UpdateCall
<1>1. CASE pc[o] = "updating" /\ call'[o] = call[o]
  <2>1. /\ \A v \in Users \ {u} : email[v] = x => x \in raced'
        /\ Contested(o, u, x) => x \in raced'
    BY <1>1, RacedGrows DEF UpdatesUnderWay
  <2>2. ASSUME NEW v \in Users \ {u}, email'[v] = x PROVE x \in raced'
    <3>1. CASE email'[v] = email[v]
      BY <2>1, <2>2, <3>1
    <3>2. CASE email'[v] # email[v]
      <4>1. PICK w \in Workers : /\ pc[w] = "updating" /\ pc'[w] = "idle"
                                 /\ call[w].user = v /\ call[w].address = email'[v]
        BY <1>0, <2>2, <3>2, EmailChanges
      <4>2. Contested(o, u, x)
        BY <2>2, <4>1 DEF Contested
      <4>3. QED
        BY <2>1, <4>2
    <3>3. QED
      BY <3>1, <3>2
  <2>3. ASSUME NEW p \in Workers \ {o},
               pc'[p] = "updating", call'[p].address = x, call'[p].user # u
        PROVE  x \in raced'
    <3>1. CASE pc[p] = "updating" /\ call'[p] = call[p]
      BY <2>1, <2>3, <3>1 DEF Contested
    <3>2. CASE /\ pc[p] = "idle" /\ Others(p)
               /\ Contested(p, call'[p].user, call'[p].address) => call'[p].address \in raced'
      <4>1. Contested(p, call'[p].user, x)
        BY <1>1, <2>3 DEF Contested
      <4>2. QED
        BY <2>3, <3>2, <4>1
    <3>3. QED
      BY <2>3, <3>1, <3>2, NewUpdates
  <2>4. QED
    BY <2>2, <2>3 DEF Contested
<1>2. CASE /\ pc[o] = "idle" /\ Others(o)
           /\ \A v \in Users \ {u} : email[v] # x
           /\ Contested(o, u, x) => x \in raced'
           /\ UNCHANGED email
  <2>1. Contested(o, u, x)' => Contested(o, u, x)
    BY <1>2 DEF Contested, Others
  <2>2. QED
    BY <1>2, <2>1
<1>3. QED
  BY <1>1, <1>2, NewUpdates
--------------------------------------------------------------------------------
\* The locks.

\* Who has locked a row after a step had locked it before, or locks it now.
LEMMA NewDeciding ==
    ASSUME IInv, [Next]_vars, NEW o \in Workers, pc'[o] = "deciding"
    PROVE  (pc[o] = "deciding" /\ call'[o] = call[o]) \/ Locks(o)
<1> TypeOK
  BY DEF IInv
<1>1. ASSUME NEW w \in Workers, Starts(w) \/ Ends(w)
      PROVE  pc[o] = "deciding" /\ call'[o] = call[o]
  BY <1>1 DEF Starts, Ends, Others
<1>2. ASSUME NEW w \in Workers, Locks(w), w # o
      PROVE  pc[o] = "deciding" /\ call'[o] = call[o]
  BY <1>2 DEF Locks, Others
<1>3. ASSUME NEW w \in Workers, Takes(w)
      PROVE  pc[o] = "deciding" /\ call'[o] = call[o]
  BY <1>3, TakeEffect
<1>4. QED
  BY <1>1, <1>2, <1>3, RequestSteps

\* Who has taken rows after a step had run its statement before, or runs it now.
LEMMA NewTaken ==
    ASSUME IInv, [Next]_vars, NEW o \in Workers, pc'[o] \in Taking
    PROVE  (pc[o] \in Taking /\ call'[o] = call[o]) \/ Takes(o)
<1> TypeOK
  BY DEF IInv
<1>1. ASSUME NEW w \in Workers, Starts(w) \/ Ends(w) \/ Locks(w)
      PROVE  pc[o] \in Taking /\ call'[o] = call[o]
  BY <1>1 DEF Starts, Ends, Locks, Others, Taking
<1>2. ASSUME NEW w \in Workers, Takes(w), w # o
      PROVE  pc[o] \in Taking /\ call'[o] = call[o]
  BY <1>2, TakeEffect
<1>3. QED
  BY <1>1, <1>2, RequestSteps

\* A statement adds what it has found to what the removal has taken before.
LEMMA NewlyTaken ==
    ASSUME IInv, NEW o \in Workers, Takes(o), NEW x
    PROVE  /\ x \in call'[o].documents =>
                \/ pc[o] \in Taking /\ x \in call[o].documents
                \/ /\ x \in Documents /\ responsible[x] = call[o].user
                   /\ x \notin Locked(o).documents
           /\ x \in call'[o].areas =>
                \/ pc[o] \in Taking /\ x \in call[o].areas
                \/ /\ x \in Areas /\ manager[x] = call[o].user
                   /\ x \notin Locked(o).areas
                   /\ MayManage(o, call[o].replacement)
           /\ x \in call'[o].requests =>
                \/ pc[o] \in Taking /\ x \in call[o].requests
                \/ /\ x \in Documents /\ access[<<x, call[o].user>>] = "PENDING"
                   /\ <<x, call[o].user>> \notin Locked(o).requests
                   /\ NotUnderDecision(call[o].user)
<1> TypeOK /\ TakenRows
  BY DEF IInv
<1>1. pc[o] = "chosen" =>
        call[o].documents = {} /\ call[o].areas = {} /\ call[o].requests = {}
  BY DEF TakenRows, Removing
<1>2. CASE pc[o] = "chosen"
  <2>1. /\ call'[o].documents = {d \in Documents : responsible[d] = call[o].user}
        /\ call'[o].documents \cap Locked(o).documents = {}
        /\ call'[o].areas = call[o].areas
        /\ call'[o].requests = call[o].requests
    BY <1>2, TakeEffect
  <2>2. QED
    BY <1>1, <1>2, <2>1
<1>3. CASE pc[o] = "documents"
  <2>1. /\ call'[o].areas = {a \in Areas : manager[a] = call[o].user}
        /\ call'[o].areas \cap Locked(o).areas = {}
        /\ call'[o].areas # {} => MayManage(o, call[o].replacement)
        /\ call'[o].documents = call[o].documents
        /\ call'[o].requests = call[o].requests
    BY <1>3, TakeEffect
  <2>2. QED
    BY <1>3, <2>1 DEF Taking
<1>4. CASE pc[o] = "areas"
  <2>1. /\ call'[o].requests = PendingRequests(call[o].user)
        /\ (call'[o].requests \X {call[o].user}) \cap Locked(o).requests = {}
        /\ call'[o].requests # {} => NotUnderDecision(call[o].user)
        /\ call'[o].documents = call[o].documents
        /\ call'[o].areas = call[o].areas
    BY <1>4, TakeEffect
  <2>2. ASSUME x \in call'[o].requests
        PROVE  /\ x \in Documents /\ access[<<x, call[o].user>>] = "PENDING"
               /\ <<x, call[o].user>> \notin Locked(o).requests
               /\ NotUnderDecision(call[o].user)
    BY <2>1, <2>2 DEF PendingRequests
  <2>3. QED
    BY <1>4, <2>1, <2>2 DEF Taking
<1>5. QED
  BY <1>2, <1>3, <1>4, TakeEffect

\* A decision keeps the row it has locked: requests for access leave pending rows
\* alone, removals and other decisions wait for the lock.
LEMMA LockedStep == IInv /\ [Next]_vars => LockedRequests'
<1> SUFFICES ASSUME IInv, [Next]_vars, NEW o \in Workers, pc'[o] = "deciding",
                    NEW q, q = call'[o].pair
             PROVE  access'[q] = "PENDING" /\ ~RowLocked(q, o)'
  BY DEF LockedRequests
<1> TypeOK /\ LockedRequests
  BY DEF IInv
<1>1. pc[o] \in {"deciding", "judging"} /\ call[o].pair = q /\ q \in Pairs
  BY NewDeciding DEF Locks, TypeOK, DecisionCall
<1>2. access[q] = "PENDING" /\ ~RowLocked(q, o)
  BY <1>1, NewDeciding DEF Locks, LockedRequests
<1>3. access'[q] = "PENDING"
  <2>1. ASSUME NEW w \in Workers, FinishRemoval(w) \/ FinishErasure(w)
        PROVE  access'[q] = access[q]
    <3>1. w # o /\ ~Locks(o)
      <4>1. /\ pc'[w] = "idle" /\ pc[w] \in {"chosen"} \cup Taking /\ Others(w)
        BY <2>1, Departs DEF Removing
      <4>2. pc[o] = pc'[o] /\ w # o
        BY <4>1 DEF Others
      <4>3. QED
        BY <4>2 DEF Locks
    <3>2. pc[o] = "deciding"
      BY <3>1, NewDeciding
    <3>3. QED
      BY <1>1, <2>1, <3>2, RowsGo
  <2>2. ASSUME NEW w \in Workers, FileAccessRequest(w) PROVE access'[q] = access[q]
    BY <1>1, <1>2, <2>2, FileEffect
  <2>3. ASSUME NEW w \in Workers, Decide(w) PROVE access'[q] = access[q]
    <3>1. pc[w] = "deciding" /\ w # o
      BY <2>3, DecideEffect
    <3>2. call[w].pair # q
      BY <1>2, <3>1 DEF RowLocked
    <3>3. QED
      BY <1>1, <2>3, <3>2, DecideEffect
  <2>4. QED
    BY <1>2, <2>1, <2>2, <2>3, WriteSteps, UpdateEffect DEF grants
<1>4. ASSUME NEW p \in Workers \ {o}, pc'[p] = "deciding", call'[p].pair = q
      PROVE  FALSE
  <2>1. CASE pc[p] = "deciding" /\ call'[p] = call[p]
    BY <1>2, <1>4, <2>1 DEF RowLocked
  <2>2. CASE Locks(p)
    <3>1. pc[o] = "deciding" /\ call[p].pair = q
      BY <1>4, <2>2 DEF Locks, Others
    <3>2. QED
      BY <1>1, <2>2, <3>1 DEF Locks, RowLocked
  <2>3. QED
    BY <1>4, <2>1, <2>2, NewDeciding
<1>5. ASSUME NEW p \in Workers \ {o}, pc'[p] \in Taking,
             q \in call'[p].requests \X {call'[p].user}
      PROVE  FALSE
  <2>1. CASE pc[p] \in Taking /\ call'[p] = call[p]
    BY <1>2, <1>5, <2>1, LockedBy DEF RowLocked
  <2>2. CASE Takes(p)
    <3>1. call'[p].user = call[p].user /\ pc[o] = "deciding"
      BY <1>5, <2>2, TakeEffect
    <3>2. q[1] \in call'[p].requests /\ q[2] = call[p].user /\ q = <<q[1], q[2]>>
      BY <1>5, <3>1
    <3>3. CASE pc[p] \in Taking /\ q[1] \in call[p].requests
      <4>1. q \in call[p].requests \X {call[p].user}
        BY <3>2, <3>3
      <4>2. QED
        BY <1>2, <3>3, <4>1, LockedBy DEF RowLocked
    <3>4. CASE NotUnderDecision(call[p].user)
      BY <1>1, <3>1, <3>2, <3>4 DEF NotUnderDecision
    <3>5. QED
      BY <2>2, <3>2, <3>3, <3>4, NewlyTaken
  <2>3. QED
    BY <1>5, <2>1, <2>2, NewTaken
<1>6. q \notin Locked(o)'.requests
  BY <1>5, LockedOnlyNext
<1>7. QED
  BY <1>3, <1>4, <1>6 DEF RowLocked

\* No step that moves work or takes rows away touches what another removal has
\* taken.
LEMMA TakenStay ==
    ASSUME IInv, [Next]_vars, NEW o \in Workers, pc[o] \in Taking, pc'[o] \in Taking
    PROVE  /\ \A d \in call[o].documents : responsible'[d] = responsible[d]
           /\ \A a \in call[o].areas : manager'[a] = manager[a]
           /\ \A d \in call[o].requests :
                access'[<<d, call[o].user>>] = access[<<d, call[o].user>>]
           /\ call[o].areas # {} /\ MayManage(o, call[o].replacement) =>
                \A a \in Areas : manager'[a] # call[o].replacement
<1> TypeOK /\ TakenRows /\ LockedRequests
  BY DEF IInv
<1>0. /\ call[o] \in RemovalCall
      /\ call[o].documents \subseteq Documents /\ call[o].areas \subseteq Areas
      /\ call[o].requests \subseteq Documents /\ call[o].user \in Users
  BY DEF TypeOK, RemovalCall
<1>1. ASSUME NEW w \in Workers, FinishRemoval(w) \/ FinishErasure(w)
      PROVE  /\ \A d \in call[o].documents : responsible'[d] = responsible[d]
             /\ \A a \in call[o].areas : manager'[a] = manager[a]
             /\ \A d \in call[o].requests :
                  access'[<<d, call[o].user>>] = access[<<d, call[o].user>>]
             /\ call[o].areas # {} /\ MayManage(o, call[o].replacement) =>
                  \A a \in Areas : manager'[a] # call[o].replacement
  <2>1. PICK documents, areas : Moves(w, documents, areas)
    BY <1>1, WorkMoves
  <2>2. /\ documents \cap Locked(w).documents = {}
        /\ areas \cap Locked(w).areas = {}
        /\ areas # {} => MayManage(w, call[w].replacement)
        /\ Departed(w, documents, areas)
    BY <2>1 DEF Moves
  <2>3. /\ \A a \in Areas : manager'[a] = IF a \in areas THEN call[w].replacement
                                          ELSE manager[a]
        /\ \A d \in Documents : d \notin documents => responsible'[d] = responsible[d]
        /\ pc'[w] = "idle"
    BY <2>2 DEF Departed
  <2>4. o \in Workers \ {w}
    BY <2>3 DEF Taking
  <2>5. /\ call[o].documents \subseteq Locked(w).documents
        /\ call[o].areas \subseteq Locked(w).areas
        /\ call[o].requests \X {call[o].user} \subseteq Locked(w).requests
    BY <2>4, LockedBy
  <2>6. /\ \A d \in call[o].documents : responsible'[d] = responsible[d]
        /\ \A a \in call[o].areas : manager'[a] = manager[a]
    BY <1>0, <2>2, <2>3, <2>5
  <2>7. ASSUME NEW d \in call[o].requests
        PROVE  access'[<<d, call[o].user>>] = access[<<d, call[o].user>>]
    <3>1. <<d, call[o].user>> \in Pairs /\ <<d, call[o].user>> \in Locked(w).requests
      BY <1>0, <2>5 DEF Pairs
    <3>2. QED
      BY <1>1, <3>1, RowsGo
  <2>8. ASSUME call[o].areas # {}, MayManage(o, call[o].replacement)
        PROVE  \A a \in Areas : manager'[a] # call[o].replacement
    <3>1. \A a \in Areas : manager[a] # call[o].replacement
      BY <2>8 DEF MayManage
    <3>2. areas # {} => call[o].replacement # call[w].replacement
      BY <2>2, <2>4, <2>8 DEF MayManage
    <3>3. QED
      BY <2>3, <3>1, <3>2
  <2>9. QED
    BY <2>6, <2>7, <2>8
<1>2. ASSUME NEW w \in Workers, FileAccessRequest(w), NEW d \in call[o].requests
      PROVE  access'[<<d, call[o].user>>] = access[<<d, call[o].user>>]
  <2>1. <<d, call[o].user>> \in Pairs /\ access[<<d, call[o].user>>] = "PENDING"
    BY <1>0 DEF Pairs, TakenRows, Removing
  <2>2. QED
    BY <1>2, <2>1, FileEffect
<1>3. ASSUME NEW w \in Workers, Decide(w), NEW d \in call[o].requests
      PROVE  access'[<<d, call[o].user>>] = access[<<d, call[o].user>>]
  <2>1. pc[w] = "deciding" /\ o \in Workers \ {w}
    BY <1>3, DecideEffect DEF Taking
  <2>2. <<d, call[o].user>> \in Locked(w).requests /\ <<d, call[o].user>> \in Pairs
    BY <1>0, <2>1, LockedBy DEF Pairs
  <2>3. call[w].pair # <<d, call[o].user>>
    BY <2>1, <2>2 DEF LockedRequests, RowLocked
  <2>4. QED
    BY <1>3, <2>2, <2>3, DecideEffect
<1>4. ASSUME UNCHANGED work
      PROVE  /\ \A d \in call[o].documents : responsible'[d] = responsible[d]
             /\ \A a \in call[o].areas : manager'[a] = manager[a]
             /\ call[o].areas # {} /\ MayManage(o, call[o].replacement) =>
                  \A a \in Areas : manager'[a] # call[o].replacement
  BY <1>4 DEF work, MayManage
<1>5. ASSUME UNCHANGED grants, NEW d \in call[o].requests
      PROVE  access'[<<d, call[o].user>>] = access[<<d, call[o].user>>]
  BY <1>5 DEF grants
<1>6. QED
  BY <1>1, <1>2, <1>3, <1>4, <1>5, WriteSteps, UpdateEffect, FileEffect, DecideEffect

\* What two removals have taken is apart, whoever ran the last statement.
LEMMA TakenApart ==
    ASSUME IInv, [Next]_vars, NEW o \in Workers, NEW p \in Workers \ {o},
           pc'[o] \in Taking, pc[p] \in Taking, call'[p] = call[p], NEW x
    PROVE  /\ x \in call'[o].documents => x \notin call'[p].documents
           /\ x \in call'[o].areas => x \notin call'[p].areas
           /\ x \in call'[o].requests => \/ x \notin call'[p].requests
                                         \/ call'[o].user # call'[p].user
           /\ call'[o].areas # {} /\ call'[p].areas # {} =>
                call'[o].replacement # call'[p].replacement
<1> TypeOK /\ TakenRows
  BY DEF IInv
<1>1. /\ call[p].documents \subseteq Locked(o).documents
      /\ call[p].areas \subseteq Locked(o).areas
      /\ call[p].requests \X {call[p].user} \subseteq Locked(o).requests
  BY LockedBy
<1>2. ASSUME pc[o] \in Taking
      PROVE  /\ x \in call[o].documents => x \notin call[p].documents
             /\ x \in call[o].areas => x \notin call[p].areas
             /\ x \in call[o].requests => \/ x \notin call[p].requests
                                          \/ call[o].user # call[p].user
             /\ call[o].areas # {} /\ call[p].areas # {} =>
                  call[o].replacement # call[p].replacement
  <2>1. /\ call[o].documents \cap Locked(o).documents = {}
        /\ call[o].areas \cap Locked(o).areas = {}
        /\ (call[o].requests \X {call[o].user}) \cap Locked(o).requests = {}
        /\ call[o].areas # {} => MayManage(o, call[o].replacement)
    BY <1>2 DEF TakenRows, Removing
  <2>2. /\ x \in call[o].documents => x \notin call[p].documents
        /\ x \in call[o].areas => x \notin call[p].areas
        /\ x \in call[o].requests => \/ x \notin call[p].requests
                                     \/ call[o].user # call[p].user
    <3>1. ASSUME x \in call[o].requests, x \in call[p].requests,
                 call[o].user = call[p].user
          PROVE  FALSE
      <4>1. <<x, call[o].user>> \in call[o].requests \X {call[o].user}
        BY <3>1
      <4>2. <<x, call[o].user>> \in call[p].requests \X {call[p].user}
        BY <3>1
      <4>3. QED
        BY <1>1, <2>1, <4>1, <4>2
    <3>2. QED
      BY <1>1, <2>1, <3>1
  <2>3. call[o].areas # {} /\ call[p].areas # {} =>
          call[o].replacement # call[p].replacement
    BY <2>1 DEF MayManage
  <2>4. QED
    BY <2>2, <2>3
<1>3. CASE pc[o] \in Taking /\ call'[o] = call[o]
  BY <1>2, <1>3
<1>4. CASE Takes(o)
  <2>1. call'[o].user = call[o].user /\ call'[o].replacement = call[o].replacement
    BY <1>4, TakeEffect
  <2>2. x \in call'[o].documents => x \notin call[p].documents
    BY <1>1, <1>2, <1>4, NewlyTaken
  <2>3. x \in call'[o].areas => x \notin call[p].areas
    BY <1>1, <1>2, <1>4, NewlyTaken
  <2>4. x \in call'[o].requests => x \notin call[p].requests \/ call[o].user # call[p].user
    <3>1. CASE pc[o] \in Taking /\ x \in call[o].requests
      BY <1>2, <3>1
    <3>2. CASE <<x, call[o].user>> \notin Locked(o).requests
      BY <1>1, <3>2
    <3>3. QED
      BY <1>4, <3>1, <3>2, NewlyTaken
  <2>5. ASSUME NEW y \in call'[o].areas, call[p].areas # {}
        PROVE  call[o].replacement # call[p].replacement
    <3>1. CASE pc[o] \in Taking /\ y \in call[o].areas
      BY <1>2, <2>5, <3>1
    <3>2. CASE MayManage(o, call[o].replacement)
      BY <2>5, <3>2 DEF MayManage
    <3>3. QED
      BY <1>4, <2>5, <3>1, <3>2, NewlyTaken
  <2>6. QED
    BY <2>1, <2>2, <2>3, <2>4, <2>5
<1>5. QED
  BY <1>3, <1>4, NewTaken

\* So for any two.
LEMMA AllApart ==
    ASSUME IInv, [Next]_vars, NEW o \in Workers, NEW p \in Workers \ {o},
           pc'[o] \in Taking, pc'[p] \in Taking, NEW x
    PROVE  /\ x \in call'[o].documents => x \notin call'[p].documents
           /\ x \in call'[o].areas => x \notin call'[p].areas
           /\ x \in call'[o].requests => \/ x \notin call'[p].requests
                                         \/ call'[o].user # call'[p].user
           /\ call'[o].areas # {} /\ call'[p].areas # {} =>
                call'[o].replacement # call'[p].replacement
<1> TypeOK
  BY DEF IInv
<1>1. CASE pc[p] \in Taking /\ call'[p] = call[p]
  BY <1>1, TakenApart
<1>2. CASE pc[o] \in Taking /\ call'[o] = call[o]
  BY <1>2, TakenApart
<1>3. CASE Takes(p)
  <2>1. pc[o] \in Taking /\ call'[o] = call[o]
    BY <1>3, TakeEffect
  <2>2. QED
    BY <1>2, <2>1
<1>4. QED
  BY <1>1, <1>3, NewTaken

\* What a removal that has begun a step ago, or earlier, has taken is the user's.
LEMMA OwnRows ==
    ASSUME IInv, [Next]_vars, NEW o \in Workers, pc'[o] \in Taking
    PROVE  /\ call'[o].kind = "removed"
           /\ \A d \in call'[o].documents : responsible'[d] = call'[o].user
           /\ \A a \in call'[o].areas : manager'[a] = call'[o].user
           /\ \A d \in call'[o].requests : access'[<<d, call'[o].user>>] = "PENDING"
           /\ call'[o].areas # {} => \A a \in Areas : manager'[a] # call'[o].replacement
<1> TypeOK /\ TakenRows
  BY DEF IInv
<1>1. ASSUME pc[o] \in Taking
      PROVE  /\ call[o].kind = "removed"
             /\ \A d \in call[o].documents : responsible[d] = call[o].user
             /\ \A a \in call[o].areas : manager[a] = call[o].user
             /\ \A d \in call[o].requests : access[<<d, call[o].user>>] = "PENDING"
             /\ call[o].areas # {} => MayManage(o, call[o].replacement)
  BY <1>1 DEF TakenRows, Removing, Taking
<1>2. CASE pc[o] \in Taking /\ call'[o] = call[o]
  BY <1>1, <1>2, TakenStay
<1>3. CASE Takes(o)
  <2>1. /\ call'[o].user = call[o].user /\ call'[o].replacement = call[o].replacement
        /\ call'[o].kind = "removed"
        /\ UNCHANGED <<work, grants>>
    BY <1>3, TakeEffect
  <2>2. \A d \in call'[o].documents : responsible[d] = call[o].user
    BY <1>1, <1>3, NewlyTaken
  <2>3. \A a \in call'[o].areas : manager[a] = call[o].user
    BY <1>1, <1>3, NewlyTaken
  <2>4. \A d \in call'[o].requests : access[<<d, call[o].user>>] = "PENDING"
    BY <1>1, <1>3, NewlyTaken
  <2>5. ASSUME NEW y \in call'[o].areas
        PROVE  \A a \in Areas : manager[a] # call[o].replacement
    <3>1. MayManage(o, call[o].replacement)
      BY <1>1, <1>3, <2>5, NewlyTaken
    <3>2. QED
      BY <3>1 DEF MayManage
  <2>6. QED
    BY <2>1, <2>2, <2>3, <2>4, <2>5 DEF work, grants
<1>4. QED
  BY <1>2, <1>3, NewTaken

LEMMA TakenStep == IInv /\ [Next]_vars => TakenRows'
<1> SUFFICES ASSUME IInv, [Next]_vars PROVE TakenRows'
  OBVIOUS
<1> TypeOK /\ TakenRows
  BY DEF IInv
<1>1. ASSUME NEW o \in Workers, pc'[o] = "chosen"
      PROVE  call'[o].documents = {} /\ call'[o].areas = {} /\ call'[o].requests = {}
  <2>1. CASE pc[o] = "chosen" /\ call'[o] = call[o]
    BY <2>1 DEF TakenRows, Removing
  <2>2. ASSUME NEW w \in Workers, Starts(w)
        PROVE  \/ pc[o] = "chosen" /\ call'[o] = call[o]
               \/ call'[o].documents = {} /\ call'[o].areas = {} /\ call'[o].requests = {}
    BY <1>1, <2>2 DEF Starts, Others
  <2>3. ASSUME NEW w \in Workers, Ends(w) \/ Locks(w)
        PROVE  pc[o] = "chosen" /\ call'[o] = call[o]
    BY <1>1, <2>3 DEF Ends, Locks, Others
  <2>4. ASSUME NEW w \in Workers, Takes(w)
        PROVE  pc[o] = "chosen" /\ call'[o] = call[o]
    BY <1>1, <2>4, TakeEffect
  <2>5. ASSUME UNCHANGED <<pc, call>>
        PROVE  pc[o] = "chosen" /\ call'[o] = call[o]
    BY <1>1, <2>5
  <2>6. QED
    BY <2>1, <2>2, <2>3, <2>4, <2>5, RequestSteps
<1>2. ASSUME NEW o \in Workers, pc'[o] \in Taking
      PROVE  /\ call'[o].documents \cap Locked(o)'.documents = {}
             /\ call'[o].areas \cap Locked(o)'.areas = {}
             /\ (call'[o].requests \X {call'[o].user}) \cap Locked(o)'.requests = {}
             /\ call'[o].areas # {} => MayManage(o, call[o].replacement)'
  <2>1. ASSUME NEW x \in call'[o].documents PROVE x \notin Locked(o)'.documents
    BY <1>2, <2>1, AllApart, LockedOnlyNext
  <2>2. ASSUME NEW x \in call'[o].areas PROVE x \notin Locked(o)'.areas
    BY <1>2, <2>2, AllApart, LockedOnlyNext
  <2>3. ASSUME NEW x \in call'[o].requests
        PROVE  <<x, call'[o].user>> \notin Locked(o)'.requests
    <3>1. ASSUME NEW p \in Workers \ {o}, pc'[p] \in Taking
          PROVE  <<x, call'[o].user>> \notin call'[p].requests \X {call'[p].user}
      BY <1>2, <2>3, <3>1, AllApart
    <3>2. QED
      BY <3>1, LockedOnlyNext
  <2>4. call'[o].areas # {} => MayManage(o, call[o].replacement)'
    BY <1>2, AllApart, OwnRows DEF MayManage, Taking
  <2>5. QED
    BY <2>1, <2>2, <2>3, <2>4
<1>3. ASSUME NEW o \in Workers, Removing(o)'
      PROVE  pc'[o] = "chosen" \/ (pc'[o] \in Taking /\ pc'[o] # "chosen")
  BY <1>3 DEF Removing, Taking
<1>4. ASSUME NEW o \in Workers, pc'[o] = "chosen"
      PROVE  /\ call'[o].documents \cup call'[o].areas \cup call'[o].requests = {}
             /\ \A d : d \notin call'[o].documents /\ d \notin call'[o].areas
                       /\ d \notin call'[o].requests
  BY <1>1, <1>4
<1>5. ASSUME NEW o \in Workers, Removing(o)'
      PROVE  LET c == call'[o]
             IN  /\ IF pc'[o] = "chosen" THEN c.documents \cup c.areas \cup c.requests = {}
                    ELSE c.kind = "removed"
                 /\ \A d \in c.documents : responsible'[d] = c.user
                 /\ \A a \in c.areas : manager'[a] = c.user
                 /\ \A d \in c.requests : access'[<<d, c.user>>] = "PENDING"
                 /\ c.documents \cap Locked(o)'.documents = {}
                 /\ c.areas \cap Locked(o)'.areas = {}
                 /\ (c.requests \X {c.user}) \cap Locked(o)'.requests = {}
                 /\ c.areas # {} => MayManage(o, call[o].replacement)'
  <2>1. CASE pc'[o] = "chosen"
    BY <1>1, <1>4, <2>1
  <2>2. CASE pc'[o] \in Taking /\ pc'[o] # "chosen"
    BY <1>2, <2>2, OwnRows
  <2>3. QED
    BY <1>3, <1>5, <2>1, <2>2
<1>6. QED
  BY <1>5 DEF TakenRows

\* Who is given work, or a new request, after the statement that looks for it has
\* missed it.
LEMMA NothingStep == IInv /\ [Next]_vars => NothingElse'
<1> SUFFICES ASSUME IInv, [Next]_vars,
                    NEW o \in Workers, pc'[o] \in Taking, o \notin late',
                    NEW u, u = call'[o].user
             PROVE  /\ \A d \in Documents : responsible'[d] = u => d \in call'[o].documents
                    /\ pc'[o] # "documents" =>
                         \A a \in Areas : manager'[a] = u => a \in call'[o].areas
                    /\ pc'[o] = "requests" =>
                         \A d \in Documents : access'[<<d, u>>] = "PENDING" =>
                            d \in call'[o].requests
  BY DEF NothingElse
<1> TypeOK /\ NothingElse
  BY DEF IInv
<1>1. CASE Takes(o)
  <2>1. /\ UNCHANGED <<work, grants, late>> /\ u = call[o].user
        /\ Removing(o)
    BY <1>1, TakeEffect
  <2>2. CASE pc[o] = "chosen"
    BY <1>1, <2>1, <2>2, TakeEffect DEF work
  <2>3. CASE pc[o] = "documents"
    <3>1. \A d \in Documents : responsible[d] = u => d \in call[o].documents
      BY <2>1, <2>3 DEF NothingElse, Taking
    <3>2. /\ pc'[o] = "areas"
          /\ call'[o].areas = {a \in Areas : manager[a] = u}
          /\ call'[o].documents = call[o].documents
      BY <1>1, <2>1, <2>3, TakeEffect
    <3>3. QED
      BY <2>1, <3>1, <3>2 DEF work
  <2>4. CASE pc[o] = "areas"
    <3>1. /\ \A d \in Documents : responsible[d] = u => d \in call[o].documents
          /\ \A a \in Areas : manager[a] = u => a \in call[o].areas
      BY <2>1, <2>4 DEF NothingElse, Taking
    <3>2. /\ pc'[o] = "requests"
          /\ call'[o].requests = PendingRequests(u)
          /\ call'[o].documents = call[o].documents
          /\ call'[o].areas = call[o].areas
      BY <1>1, <2>1, <2>4, TakeEffect
    <3>3. QED
      BY <2>1, <3>1, <3>2 DEF work, grants, PendingRequests
  <2>5. QED
    BY <1>1, <2>2, <2>3, <2>4, TakeEffect
<1>2. CASE pc[o] \in Taking /\ call'[o] = call[o] /\ ~Takes(o)
  <2>1. pc'[o] = pc[o]
    <3>1. ASSUME NEW w \in Workers, Starts(w) \/ Ends(w) \/ Locks(w)
          PROVE  pc'[o] = pc[o]
      BY <3>1 DEF Starts, Ends, Locks, Others, Taking
    <3>2. ASSUME NEW w \in Workers, Takes(w) PROVE pc'[o] = pc[o]
      BY <1>2, <3>2, TakeEffect
    <3>3. QED
      BY <3>1, <3>2, RequestSteps
  <2>2. o \notin late
    <3>1. ASSUME NEW w \in Workers, Starts(w) \/ Locks(w) PROVE o \notin late
      BY <3>1 DEF Starts, Locks
    <3>2. ASSUME NEW w \in Workers, Ends(w) PROVE o \notin late
      BY <3>2 DEF Ends, Taking
    <3>3. ASSUME NEW w \in Workers, Takes(w) PROVE o \notin late
      BY <3>3, TakeEffect
    <3>4. QED
      BY <3>1, <3>2, <3>3, RequestSteps
  <2>3. /\ \A d \in Documents : responsible[d] = u => d \in call[o].documents
        /\ pc[o] # "documents" => \A a \in Areas : manager[a] = u => a \in call[o].areas
        /\ pc[o] = "requests" =>
             \A d \in Documents : access[<<d, u>>] = "PENDING" => d \in call[o].requests
    BY <1>2, <2>2 DEF NothingElse
  <2>4. ASSUME NEW w \in Workers, FinishRemoval(w) \/ FinishErasure(w)
        PROVE  /\ \A d \in Documents : responsible'[d] = u => responsible[d] = u
               /\ pc[o] # "documents" => \A a \in Areas : manager'[a] = u => manager[a] = u
               /\ \A p \in Pairs : access'[p] = "PENDING" => access[p] = "PENDING"
    <3>1. PICK documents, areas : Moves(w, documents, areas)
      BY <2>4, WorkMoves
    <3>2. Departed(w, documents, areas)
      BY <3>1 DEF Moves
    <3>3. /\ late' = (late \cup MissedBy(call[w].replacement, documents, areas)) \ {w}
          /\ pc'[w] = "idle"
          /\ \A a \in Areas : manager'[a] = IF a \in areas THEN call[w].replacement
                                            ELSE manager[a]
          /\ \A d \in Documents : responsible'[d] = IF d \in documents
                                                  THEN call[w].replacement
                                                  ELSE responsible[d]
      BY <3>2 DEF Departed
    <3>4. o # w
      BY <3>3 DEF Taking
    <3>5. o \notin MissedBy(call[w].replacement, documents, areas)
      BY <3>3, <3>4
    <3>6. /\ documents # {} => call[w].replacement # u
          /\ areas # {} /\ pc[o] # "documents" => call[w].replacement # u
      BY <1>2, <3>5 DEF MissedBy, Taking
    <3>7. \A p \in Pairs : access'[p] = "PENDING" => access[p] = "PENDING"
      BY <2>4, RowsGo
    <3>8. QED
      BY <3>3, <3>6, <3>7
  <2>5. ASSUME NEW w \in Workers, FileAccessRequest(w), pc[o] = "requests", NEW d \in Documents,
               access'[<<d, u>>] = "PENDING"
        PROVE  access[<<d, u>>] = "PENDING"
    <3>1. <<d, u>> \in Pairs /\ <<d, u>>[2] = u
      <4>1. u \in Users
        BY <1>2 DEF TypeOK, RemovalCall
      <4>2. QED
        BY <4>1 DEF Pairs
    <3>2. o # w
      BY <2>5, FileEffect
    <3>3. QED
      BY <1>2, <2>5, <3>1, <3>2, FileEffect
  <2>6. ASSUME NEW w \in Workers, Decide(w), NEW d \in Documents, access'[<<d, u>>] = "PENDING"
        PROVE  access[<<d, u>>] = "PENDING"
    <3>1. <<d, u>> \in Pairs
      BY <1>2 DEF TypeOK, RemovalCall, Pairs
    <3>2. QED
      BY <2>6, <3>1, DecideEffect
  <2>7. \A d \in Documents : <<d, u>> \in Pairs
    BY <1>2 DEF TypeOK, RemovalCall, Pairs
  <2>8. /\ \A d \in Documents : responsible'[d] = u => responsible[d] = u
        /\ pc[o] # "documents" => \A a \in Areas : manager'[a] = u => manager[a] = u
    BY <2>4, WriteSteps, UpdateEffect, FileEffect, DecideEffect DEF work
  <2>9. pc[o] = "requests" =>
          \A d \in Documents : access'[<<d, u>>] = "PENDING" => access[<<d, u>>] = "PENDING"
    BY <2>4, <2>5, <2>6, <2>7, WriteSteps, UpdateEffect DEF grants
  <2>10. QED
    BY <1>2, <2>1, <2>3, <2>8, <2>9
<1>3. QED
  BY <1>1, <1>2, NewTaken
--------------------------------------------------------------------------------
\* The invariant holds in every reachable state, for any number of requests that
\* interleave statement by statement.
THEOREM Invariance == Spec => []IInv
<1>1. IInv /\ [Next]_vars => IInv'
  BY TypeStep, AddressesStep, WorkStep, RemovedDataStep, ReferencesStep,
     ManagesStep, SignedStep, HeldStep, ReplacementStep, UpdatesStep, LockedStep,
     TakenStep, NothingStep DEF IInv
<1>2. QED
  BY InvInit, <1>1, PTL DEF Spec
--------------------------------------------------------------------------------
\* However many removals and erasures cross each other, a document or an area is
\* left with somebody inactive only if the removal crossed a request that was to
\* give them work, or missed a row that came after its statement.
THEOREM WorkHasAnOwner == Spec => []WorkIsOwned
<1>1. IInv => WorkIsOwned
  BY DEF IInv
<1>2. QED
  BY <1>1, Invariance, PTL

\* Only a profile update that was under way gives a removed account its data back.
THEOREM RemovedDataStaysGone == Spec => []RemovedDataIsGone
<1>1. IInv => RemovedDataIsGone
  BY DEF IInv
<1>2. QED
  BY <1>1, Invariance, PTL

\* No document, area or decision is left with an account that was erased.
THEOREM ReferencesStayWhole == Spec => []ReferencesExist
<1>1. IInv => ReferencesExist
  BY DEF IInv
<1>2. QED
  BY <1>1, Invariance, PTL

\* Two accounts share an address, in two spellings, only if they changed to it at
\* the same time; nobody manages two areas; and a row of document_access is decided
\* if and only if it names an approver.
THEOREM TablesAreSound ==
    Spec => [](AddressesAreUnique /\ ManagesOneArea /\ DecisionsAreSigned)
<1>1. IInv => AddressesAreUnique /\ ManagesOneArea /\ DecisionsAreSigned
  BY DEF IInv
<1>2. QED
  BY <1>1, Invariance, PTL

\* A decision on a request for access is never taken back or changed, and never
\* taken twice, while the account of the requester has a row.
THEOREM DecisionsAreFinal == Spec => DecisionIsFinal
<1>1. ASSUME IInv, [Next]_vars, NEW p \in Pairs, access[p] \in {"APPROVED", "REJECTED"}
      PROVE  access'[p] = access[p] \/ account'[p[2]] = "erased"
  <2> TypeOK /\ LockedRequests
    BY <1>1 DEF IInv
  <2>1. ASSUME NEW w \in Workers, FinishRemoval(w) \/ FinishErasure(w),
               access'[p] # access[p]
        PROVE  account'[p[2]] = "erased"
    <3>1. p[2] = call[w].user /\ FinishErasure(w)
      BY <1>1, <2>1, RowsGo
    <3>2. QED
      BY <1>1, <3>1, Departs
  <2>2. ASSUME NEW w \in Workers, FileAccessRequest(w)
        PROVE  access'[p] = access[p]
    BY <1>1, <2>2, FileEffect
  <2>3. ASSUME NEW w \in Workers, Decide(w)
        PROVE  access'[p] = access[p]
    BY <1>1, <2>3, DecideEffect DEF LockedRequests
  <2>4. QED
    BY <1>1, <2>1, <2>2, <2>3, WriteSteps, UpdateEffect DEF grants
<1>2. IInv /\ [Next]_vars =>
        [\A p \in Pairs : access[p] \in {"APPROVED", "REJECTED"} =>
           access'[p] = access[p] \/ account'[p[2]] = "erased"]_vars
  BY <1>1
<1>3. QED
  BY <1>2, Invariance, PTL DEF Spec, DecisionIsFinal

\* No step brings a removed account back.
THEOREM RemovalsAreFinal == Spec => RemovalIsFinal
<1>1. ASSUME IInv, [Next]_vars, NEW u \in Users, account[u] # "active"
      PROVE  account'[u] # "active"
  <2> TypeOK
    BY <1>1 DEF IInv
  <2>1. ASSUME NEW w \in Workers, FinishRemoval(w) \/ FinishErasure(w)
        PROVE  account'[u] # "active"
    BY <1>1, <2>1, Departs
  <2>2. QED
    BY <1>1, <2>1, WriteSteps, UpdateEffect, FileEffect, DecideEffect DEF users
<1>2. IInv /\ [Next]_vars =>
        [\A u \in Users : account[u] # "active" => account'[u] # "active"]_vars
  BY <1>1
<1>3. QED
  BY <1>2, Invariance, PTL DEF Spec, RemovalIsFinal

\* The step that removes an account leaves it no pending request and no work, but
\* for rows that were committed to it after the statement that looks for them; the
\* step that erases one leaves nothing.
THEOREM RemovalsAreComplete == Spec => RemovalIsComplete
<1>1. ASSUME IInv, [Next]_vars, NEW u \in Users, Active(u), account'[u] # "active"
      PROVE  \/ /\ \A d \in Documents : access'[<<d, u>>] # "PENDING" /\ responsible'[d] # u
                /\ \A a \in Areas : manager'[a] # u
             \/ \E w \in late : pc[w] = "requests" /\ call[w].user = u /\ pc'[w] = "idle"
  <2> TypeOK /\ NothingElse
    BY <1>1 DEF IInv
  <2>1. PICK w \in Workers : FinishRemoval(w) \/ FinishErasure(w)
    BY <1>1, WriteSteps, UpdateEffect, FileEffect, DecideEffect DEF users, Active
  <2>2. /\ u = call[w].user /\ pc'[w] = "idle"
        /\ FinishRemoval(w) => pc[w] = "requests"
    BY <1>1, <2>1, Departs DEF Active
  <2>3. \/ FinishRemoval(w) /\ w \in late
        \/ /\ \A d \in Documents : responsible'[d] # u
           /\ \A a \in Areas : manager'[a] # u
    BY <1>1, <2>1, <2>2, Departs
  <2>4. \A d \in Documents : <<d, u>> \in Pairs /\ <<d, u>>[1] = d /\ <<d, u>>[2] = u
    BY DEF Pairs
  <2>5. CASE FinishRemoval(w) /\ w \in late
    BY <2>2, <2>5
  <2>6. CASE FinishRemoval(w) /\ w \notin late
    <3>1. \A d \in Documents : access[<<d, u>>] = "PENDING" => d \in call[w].requests
      BY <2>2, <2>6 DEF NothingElse, Taking
    <3>2. \A d \in Documents : access'[<<d, u>>] =
            IF d \in call[w].requests THEN "NONE" ELSE access[<<d, u>>]
      BY <2>2, <2>4, <2>6, RemovalDeparts
    <3>3. QED
      BY <2>3, <2>6, <3>1, <3>2
  <2>7. CASE FinishErasure(w)
    <3>1. ~FinishRemoval(w)
      BY <2>7 DEF FinishErasure, FinishRemoval
    <3>2. \A d \in Documents : access'[<<d, u>>] = "NONE"
      BY <2>2, <2>4, <2>7, ErasureRows
    <3>3. QED
      BY <2>3, <3>1, <3>2
  <2>8. QED
    BY <2>1, <2>5, <2>6, <2>7
<1>2. IInv /\ [Next]_vars =>
        [\A u \in Users : Active(u) /\ account'[u] # "active" =>
           \/ /\ \A d \in Documents : access'[<<d, u>>] # "PENDING" /\ responsible'[d] # u
              /\ \A a \in Areas : manager'[a] # u
           \/ \E w \in late : pc[w] = "requests" /\ call[w].user = u /\ pc'[w] = "idle"]_vars
  BY <1>1
<1>3. QED
  BY <1>2, Invariance, PTL DEF Spec, RemovalIsComplete
================================================================================
