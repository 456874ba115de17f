--------------------------- MODULE AccountsAndAccess ---------------------------
(***************************************************************************)
(* Accounts that are edited, removed (anonymize_user) and erased           *)
(* (delete_user_account) while people ask for access to documents and      *)
(* managers decide (request_document_access, decide_access_request).       *)
(*                                                                         *)
(* A request is its reads followed by one step that writes and commits.    *)
(* What a request read is in call[w] and may be stale when it writes: the  *)
(* user object of the session, the replacement that was chosen, the row    *)
(* that was locked.  A removal is taken statement by statement: at READ    *)
(* COMMITTED each one finds the rows that are committed when it runs, and  *)
(* keeps their locks; rows that come later are missed.  An erasure cannot  *)
(* miss any, because the foreign keys refuse to let the account go: it is  *)
(* one step, at its commit.                                                *)
(***************************************************************************)
EXTENDS FiniteSets

CONSTANTS
    Users, Areas, Documents, Workers,
    Addresses,      \* the e-mail addresses accounts compete for, up to case
    Role,           \* Role[u]: the role of the user
    AreaOf,         \* AreaOf[u]: the area of the user
    AreasOf,        \* AreasOf[d]: the active areas of the document
    FirstManager,   \* FirstManager[a]: the manager the area begins with
    Author,         \* Author[d]: the first responsible
    Nothing

ASSUME AccountsAssumption ==
    /\ Role \in [Users -> {"AUTHOR", "VIEWER", "AUDITOR", "ADMIN"}]
    /\ AreaOf \in [Users -> Areas]
    /\ AreasOf \in [Documents -> SUBSET Areas]
    /\ Author \in [Documents -> Users]
    /\ FirstManager \in [Areas -> Users \cup {Nothing}]
    /\ \A a, b \in Areas :
         FirstManager[a] = FirstManager[b] /\ FirstManager[a] # Nothing => a = b
    /\ Nothing \notin Users \cup Addresses

VARIABLES
    account,        \* account[u]: active, removed (anonymized) or erased
    email,          \* email[u]: Nothing for another address, or an anonymized one
    excluded,       \* the addresses whose hash is stored
    manager,        \* manager[a]: Area.manager
    responsible,    \* responsible[d]: Document.responsible
    state,          \* state[d]: listed, archived, or of an inactive type
    access,         \* access[d, u]: status of the row of document_access
    approver,       \* approver[d, u]
    crossed,        \* history: accounts that went while another request was about
                    \* to give them work or to write to them, or after it had
    raced,          \* history: addresses two accounts were changing to at a time
    late,           \* history: removals one of whose statements has missed a row
    pc,
    call            \* call[w]: what the request of worker w has read

users == <<account, email, excluded, crossed, raced>>
work == <<manager, responsible>>
grants == <<access, approver>>
vars == <<account, email, excluded, manager, responsible, state, access,
          approver, crossed, raced, late, pc, call>>

Pairs == Documents \X Users
Idle == [user |-> Nothing]
UpdateCall == [user : Users, address : Addresses]
RemovalCall == [user : Users, kind : {"removed", "erased"},
                address : Addresses \cup {Nothing}, replacement : Users,
                documents : SUBSET Documents, areas : SUBSET Areas,
                requests : SUBSET Documents]
DecisionCall == [user : Users, pair : Pairs]
AccessCall == [user : Users, document : Documents]

\* The removals that have run statements, and the rows are locked.
Taking == {"documents", "areas", "requests"}

TypeOK ==
    /\ account \in [Users -> {"active", "removed", "erased"}]
    /\ email \in [Users -> Addresses \cup {Nothing}]
    /\ excluded \subseteq Addresses
    /\ manager \in [Areas -> Users \cup {Nothing}]
    /\ responsible \in [Documents -> Users]
    /\ state \in [Documents -> {"listed", "archived", "withdrawn"}]
    /\ access \in [Pairs -> {"NONE", "PENDING", "APPROVED", "REJECTED"}]
    /\ approver \in [Pairs -> Users \cup {Nothing}]
    /\ crossed \subseteq Users
    /\ raced \subseteq Addresses
    /\ late \subseteq Workers
    /\ pc \in [Workers -> {"idle", "updating", "chosen", "judging", "deciding", "asking"}
                            \cup Taking]
    /\ call \in [Workers -> {Idle} \cup UpdateCall \cup RemovalCall \cup DecisionCall \cup AccessCall]
    /\ \A w \in Workers :
         /\ pc[w] = "idle" => call[w] = Idle
         /\ pc[w] = "updating" => call[w] \in UpdateCall
         /\ pc[w] \in {"chosen"} \cup Taking => call[w] \in RemovalCall
         /\ pc[w] \in {"judging", "deciding"} => call[w] \in DecisionCall
         /\ pc[w] = "asking" => call[w] \in AccessCall

Init ==
    /\ account = [u \in Users |-> "active"]
    /\ email = [u \in Users |-> Nothing]
    /\ excluded = {}
    /\ manager = FirstManager
    /\ responsible = Author
    /\ state = [d \in Documents |-> "listed"]
    /\ access = [p \in Pairs |-> "NONE"]
    /\ approver = [p \in Pairs |-> Nothing]
    /\ crossed = {}
    /\ raced = {}
    /\ late = {}
    /\ pc = [w \in Workers |-> "idle"]
    /\ call = [w \in Workers |-> Idle]
--------------------------------------------------------------------------------
Active(u) == account[u] = "active"

Begin(w, step, c) ==
    /\ pc[w] = "idle"
    /\ pc' = [pc EXCEPT ![w] = step]
    /\ call' = [call EXCEPT ![w] = c]
    /\ UNCHANGED late

\* The request of w is over; what it has committed, `missed` did not see.
EndPast(w, missed) ==
    /\ pc' = [pc EXCEPT ![w] = "idle"]
    /\ call' = [call EXCEPT ![w] = Idle]
    /\ late' = (late \cup missed) \ {w}

End(w) == EndPast(w, {})

\* An exception, a mandatory audit row that cannot be written, or the end of
\* the worker: the transaction is rolled back.
Fail(w) ==
    /\ pc[w] # "idle"
    /\ End(w)
    /\ UNCHANGED <<users, work, state, grants>>
--------------------------------------------------------------------------------
\* Another account is about to change to the same address.
Contested(w, u, x) ==
    \E o \in Workers \ {w} :
        pc[o] = "updating" /\ call[o].address = x /\ call[o].user # u

BeginUpdate(w, u, x) ==
    /\ Begin(w, "updating", [user |-> u, address |-> x])
    /\ \A v \in Users \ {u} : email[v] # x
    /\ x \notin excluded
    /\ raced' = raced \cup {y \in {x} : Contested(w, u, x)}
    /\ UNCHANGED <<account, email, excluded, crossed, work, state, grants>>

\* Faulty variant: the session of a removed account is still good.
StartUpdateOfAnyone(w, u, x) == BeginUpdate(w, u, x) /\ account[u] # "erased"

\* PUT /users/me.  The session and the payload are checked before the
\* transaction: the address is of nobody else, in any case, and not excluded.
StartUpdate(w, u, x) == BeginUpdate(w, u, x) /\ Active(u)

\* UPDATE of name and email; the row must exist.  The account and the address
\* are not looked at again: the unique index compares letter by letter and
\* stops an address that was taken meanwhile only in the same spelling (Fail).
SaveUpdate(w) ==
    LET u == call[w].user
    IN  /\ pc[w] = "updating"
        /\ account[u] # "erased"
        /\ email' = [email EXCEPT ![u] = call[w].address]
        /\ End(w)
        /\ UNCHANGED <<account, excluded, crossed, raced, work, state, grants>>
--------------------------------------------------------------------------------
\* Removal and erasure.

\* Faulty variant: inactive accounts are candidates too.
AnyManager(u) ==
    {v \in Users \ {u} : account[v] # "erased" /\ Role[v] \in {"AUDITOR", "ADMIN"}}

\* find_replacement_manager: the active manager of the area, or else an active
\* auditor of the area, or else an active administrator.  Of several, the code
\* takes the first by key; here any.
Replacements(u) ==
    LET candidates == {v \in Users \ {u} : Active(v)}
        auditors == {v \in candidates : AreaOf[v] = AreaOf[u] /\ Role[v] = "AUDITOR"}
        admins == {v \in candidates : Role[v] = "ADMIN"}
    IN  IF manager[AreaOf[u]] \in candidates THEN {manager[AreaOf[u]]}
        ELSE IF auditors # {} THEN auditors ELSE admins

\* What a removal or an erasure of u that begins has read and taken.
Chosen(u, kind, r) ==
    [user |-> u, kind |-> kind, address |-> email[u], replacement |-> r,
     documents |-> {}, areas |-> {}, requests |-> {}]

\* POST /users/me/request-deletion by an active user: the user object is the
\* one of the session.  With no replacement the answer is 409.
StartRemoval(w, u, r) ==
    /\ Begin(w, "chosen", Chosen(u, "removed", r))
    /\ Active(u)
    /\ r \in Replacements(u)
    /\ UNCHANGED <<users, work, state, grants>>

\* The command delete_user, for any account that has a row.
StartErasure(w, u, r) ==
    /\ Begin(w, "chosen", Chosen(u, "erased", r))
    /\ account[u] # "erased"
    /\ r \in Replacements(u)
    /\ UNCHANGED <<users, work, state, grants>>

\* The rows that other removals have updated or deleted and not yet committed.
Locked(w) ==
    LET others == {o \in Workers \ {w} : pc[o] \in Taking}
    IN  [documents |-> UNION {call[o].documents : o \in others},
         areas |-> UNION {call[o].areas : o \in others},
         requests |-> UNION {call[o].requests \X {call[o].user} : o \in others}]

\* A statement of a removal: the rows it finds, none of which somebody else has
\* locked, are locked from now on.
Statement(w, to, taken) ==
    /\ call[w].kind = "removed"
    /\ pc' = [pc EXCEPT ![w] = to]
    /\ call' = [call EXCEPT ![w] = taken]
    /\ UNCHANGED <<users, work, state, grants, late>>

TakeDocuments(w) ==
    /\ pc[w] = "chosen"
    /\ LET found == {d \in Documents : responsible[d] = call[w].user}
       IN  /\ found \cap Locked(w).documents = {}
           /\ Statement(w, "documents", [call[w] EXCEPT !.documents = found])

\* Faulty variant: Area.manager is no one-to-one field.
TakesAnything(w, r) == TRUE

\* The one-to-one index of Area.manager lets r have an area: r has none, and no
\* transaction is giving r one.
MayManage(w, r) ==
    /\ \A a \in Areas : manager[a] # r
    /\ \A o \in Workers \ {w} :
         pc[o] \in Taking /\ call[o].areas # {} => call[o].replacement # r

TakeAreas(w) ==
    /\ pc[w] = "documents"
    /\ LET found == {a \in Areas : manager[a] = call[w].user}
       IN  /\ found \cap Locked(w).areas = {}
           /\ found # {} => MayManage(w, call[w].replacement)
           /\ Statement(w, "areas", [call[w] EXCEPT !.areas = found])

\* Faulty variant: the pending requests are kept.
KeepRequests(u) == {}

\* DELETE of the pending requests of the user.
PendingRequests(u) == {d \in Documents : access[<<d, u>>] = "PENDING"}

\* The rows of the user are not locked by a decision.
NotUnderDecision(u) ==
    \A o \in Workers : pc[o] = "deciding" => call[o].pair[2] # u

TakeRequests(w) ==
    /\ pc[w] = "areas"
    /\ LET u == call[w].user
           found == PendingRequests(u)
       IN  /\ (found \X {u}) \cap Locked(w).requests = {}
           /\ found # {} => NotUnderDecision(u)
           /\ Statement(w, "requests", [call[w] EXCEPT !.requests = found])

Removing(o) == pc[o] \in {"chosen"} \cup Taking

Holds(o, u) ==
    \/ Removing(o) /\ call[o].replacement = u
    \/ pc[o] = "updating" /\ call[o].user = u

\* Rows that come to r now, after the statement that would have found them.
MissedBy(r, documents, areas) ==
    {o \in Workers : /\ \/ documents # {} /\ pc[o] \in Taking
                        \/ areas # {} /\ pc[o] \in {"areas", "requests"}
                     /\ call[o].user = r}

HandOver(documents, areas, r) ==
    /\ manager' = [a \in Areas |-> IF a \in areas THEN r ELSE manager[a]]
    /\ responsible' = [d \in Documents |-> IF d \in documents THEN r ELSE responsible[d]]

\* What a removal and an erasure have in common.  The address the user object
\* holds is excluded, the work goes to r, who must have a row if there is any,
\* and the account is cleared.
Depart(w, documents, areas) ==
    LET u == call[w].user
        r == call[w].replacement
    IN  /\ account[u] # "erased"
        /\ documents \cup areas # {} => account[r] # "erased"
        /\ excluded' = excluded \cup ({call[w].address} \cap Addresses)
        /\ HandOver(documents, areas, r)
        /\ email' = [email EXCEPT ![u] = Nothing]
        /\ account' = [account EXCEPT ![u] = call[w].kind]
        /\ crossed' = crossed \cup
             {v \in {u} : w \in late \/ \E o \in Workers \ {w} : Holds(o, v)}
        /\ EndPast(w, MissedBy(r, documents, areas))
        /\ UNCHANGED <<raced, state>>

\* anonymize_user: UPDATE of the account and commit, of what was taken.
FinishRemoval(w) ==
    LET u == call[w].user
    IN  /\ pc[w] = "requests"
        /\ Depart(w, call[w].documents, call[w].areas)
        /\ access' = [p \in Pairs |->
             IF p[2] = u /\ p[1] \in call[w].requests THEN "NONE" ELSE access[p]]
        /\ UNCHANGED approver

\* Faulty variant: _reassign_history does not reach document_access.
KeepApprovals(u, r) ==
    approver' = [p \in Pairs |-> IF p[2] = u THEN Nothing ELSE approver[p]]

\* _reassign_history: an erased approver is replaced in the decisions.  The
\* requests of u go with the account (CASCADE).
ReassignApprovals(u, r) ==
    approver' = [p \in Pairs |-> IF p[2] = u THEN Nothing
                                ELSE IF approver[p] = u THEN r ELSE approver[p]]

\* delete_user_account: no row of u is locked by anybody, and at the commit
\* none refers to u any more.
FinishErasure(w) ==
    LET u == call[w].user
        r == call[w].replacement
        documents == {d \in Documents : responsible[d] = u}
        areas == {a \in Areas : manager[a] = u}
        signed == {p \in Pairs : p[2] # u /\ approver[p] = u}
    IN  /\ pc[w] = "chosen"
        /\ call[w].kind = "erased"
        /\ documents \cap Locked(w).documents = {}
        /\ areas \cap Locked(w).areas = {}
        /\ (Documents \X {u}) \cap Locked(w).requests = {}
        /\ NotUnderDecision(u)
        /\ areas # {} => MayManage(w, r)
        /\ signed # {} => account[r] # "erased"
        /\ Depart(w, documents, areas)
        /\ access' = [p \in Pairs |-> IF p[2] = u THEN "NONE" ELSE access[p]]
        /\ ReassignApprovals(u, r)
--------------------------------------------------------------------------------
\* Access requests.

\* _compute_access_status: APPROVED.
CanRead(d, u) == responsible[d] = u \/ access[<<d, u>>] = "APPROVED"

\* POST /documents/<id>/request-access: the user comes from the body of the
\* request, and need not be active.
StartAccessRequest(w, d, u) ==
    /\ Begin(w, "asking", [user |-> u, document |-> d])
    /\ state[d] = "listed"
    /\ account[u] # "erased"
    /\ ~CanRead(d, u)
    /\ UNCHANGED <<users, work, state, grants>>

\* get_or_create: a row of the pair is left as it is.  A new one is missed by a
\* removal that has deleted the pending requests already.
FileAccessRequest(w) ==
    LET p == <<call[w].document, call[w].user>>
    IN  /\ pc[w] = "asking"
        /\ account[p[2]] # "erased"
        /\ access' = [access EXCEPT ![p] = IF @ = "NONE" THEN "PENDING" ELSE @]
        /\ EndPast(w, {o \in Workers : access[p] = "NONE" /\ pc[o] = "requests"
                                       /\ call[o].user = p[2]})
        /\ UNCHANGED <<users, work, state, approver>>

\* decidable_documents.
Decidable(d, u) ==
    /\ state[d] # "withdrawn"
    /\ responsible[d] = u \/ \E a \in AreasOf[d] : manager[a] = u

\* Faulty variant: the row is read without a lock.
NeverLocked(p, w) == FALSE

RowLocked(p, w) ==
    \/ \E o \in Workers \ {w} : pc[o] = "deciding" /\ call[o].pair = p
    \/ p \in Locked(w).requests

\* POST .../decision by a user who is active when the session is read.
StartDecision(w, u, p) ==
    /\ Begin(w, "judging", [user |-> u, pair |-> p])
    /\ Active(u)
    /\ UNCHANGED <<users, work, state, grants>>

MayDecide(u, p) == access[p] = "PENDING" /\ Decidable(p[1], u) /\ p[2] # u

\* select_for_update with the filter, which is evaluated again once the lock is
\* there, then the two checks.
LockRequest(w) ==
    /\ pc[w] = "judging"
    /\ ~RowLocked(call[w].pair, w)
    /\ MayDecide(call[w].user, call[w].pair)
    /\ pc' = [pc EXCEPT ![w] = "deciding"]
    /\ UNCHANGED <<users, work, state, grants, call, late>>

\* 404 not to be decided by this user, 403 own request, 409 decided already.
RefuseDecision(w) ==
    /\ pc[w] = "judging"
    /\ ~RowLocked(call[w].pair, w)
    /\ ~MayDecide(call[w].user, call[w].pair)
    /\ End(w)
    /\ UNCHANGED <<users, work, state, grants>>

\* UPDATE and commit; the approver must still have a row.
Decide(w) ==
    LET c == call[w]
    IN  /\ pc[w] = "deciding"
        /\ account[c.user] # "erased"
        /\ \E decision \in {"APPROVED", "REJECTED"} :
             access' = [access EXCEPT ![c.pair] = decision]
        /\ approver' = [approver EXCEPT ![c.pair] = c.user]
        /\ End(w)
        /\ UNCHANGED <<users, work, state>>

\* Archiving, restoring, and switching the type on and off.
ChangeState(d, s) ==
    /\ state[d] # s
    /\ "listed" \in {state[d], s}
    /\ state' = [state EXCEPT ![d] = s]
    /\ UNCHANGED <<users, work, grants, pc, call, late>>
--------------------------------------------------------------------------------
Start(w) ==
    \E u \in Users :
        \/ \E x \in Addresses : StartUpdate(w, u, x)
        \/ \E r \in Users : StartRemoval(w, u, r) \/ StartErasure(w, u, r)
        \/ \E d \in Documents : StartAccessRequest(w, d, u)
        \/ \E p \in Pairs : StartDecision(w, u, p)

Proceed(w) ==
    \/ TakeDocuments(w) \/ TakeAreas(w) \/ TakeRequests(w)
    \/ FinishRemoval(w) \/ FinishErasure(w)
    \/ SaveUpdate(w) \/ FileAccessRequest(w)
    \/ LockRequest(w) \/ RefuseDecision(w) \/ Decide(w)

Next ==
    \/ \E w \in Workers : Start(w) \/ Proceed(w) \/ Fail(w)
    \/ \E d \in Documents, s \in {"listed", "archived", "withdrawn"} : ChangeState(d, s)

Spec == Init /\ [][Next]_vars
--------------------------------------------------------------------------------
\* The check of an address and the unique index are enough as long as nobody
\* else changes to it at the same time: two accounts have one address, in two
\* spellings, only if their updates overlapped.
AddressesAreUnique ==
    \A u, v \in Users :
        email[u] = email[v] /\ email[u] # Nothing => u = v \/ email[u] \in raced

\* README, request-deletion: the work goes "to another active manager".  That
\* holds of every document and area unless the removal of that manager was
\* under way at the same time: it committed while somebody was about to give
\* work to the account, or the work came after the statement that moves it on.
WorkIsOwned ==
    /\ \A d \in Documents : Active(responsible[d]) \/ responsible[d] \in crossed
    /\ \A a \in Areas : manager[a] \in Users => Active(manager[a]) \/ manager[a] \in crossed

\* README, request-deletion: name and email are cleared.  They stay so, unless a
\* profile update was under way when the account was removed.
RemovedDataIsGone ==
    \A u \in Users : ~Active(u) /\ email[u] # Nothing => u \in crossed

\* No document, area or decision refers to an account whose row is gone, in
\* whatever order erasures, removals and decisions committed.
ReferencesExist ==
    /\ \A d \in Documents : account[responsible[d]] # "erased"
    /\ \A a \in Areas : manager[a] \in Users => account[manager[a]] # "erased"
    /\ \A p \in Pairs : approver[p] \in Users => account[approver[p]] # "erased"

\* A hand-over never makes somebody the manager of two areas: it fails.
ManagesOneArea ==
    \A a, b \in Areas : manager[a] = manager[b] /\ manager[a] # Nothing => a = b

\* ck_document_access_decision, for rows that several requests write: a decided
\* row names who decided, a pending one nobody.
DecisionsAreSigned ==
    \A p \in Pairs : access[p] \in {"APPROVED", "REJECTED"} <=> approver[p] # Nothing

\* A removal cannot be undone: no request that still holds the user of an old
\* session brings the account back.
RemovalIsFinal == [][\A u \in Users : account[u] # "active" => account'[u] # "active"]_vars

\* Two approvers, or the requester who asks again, cannot change a decision;
\* only the erasure of the requester takes the row away.
DecisionIsFinal ==
    [][\A p \in Pairs : access[p] \in {"APPROVED", "REJECTED"} =>
         access'[p] = access[p] \/ account'[p[2]] = "erased"]_vars

\* When an account is removed, what it asked for and what it had to do are gone
\* from it in the same step.  A removal may leave only what was committed to the
\* account after the statement that looks for it; an erasure leaves nothing.
RemovalIsComplete ==
    [][\A u \in Users : Active(u) /\ account'[u] # "active" =>
         \/ /\ \A d \in Documents : access'[<<d, u>>] # "PENDING" /\ responsible'[d] # u
            /\ \A a \in Areas : manager'[a] # u
         \/ \E w \in late : pc[w] = "requests" /\ call[w].user = u /\ pc'[w] = "idle"]_vars

\* README, request-deletion: "Pending access requests of the user are deleted,
\* so they never reach the managers' panel and cannot be approved".
RemovedUsersHaveNoRequests ==
    \A p \in Pairs : access[p] = "PENDING" => Active(p[2])
--------------------------------------------------------------------------------
\* What the requests under way add to the properties above.

\* An account that a request is about to write to, or to give work to, is
\* active, or its removal crossed that request.
HeldAccounts ==
    \A w \in Workers, u \in Users : Holds(w, u) => Active(u) \/ u \in crossed

\* Nobody is chosen to take over from themselves.
ReplacementIsAnother ==
    \A w \in Workers : Removing(w) => call[w].replacement # call[w].user

\* Of two accounts that change to one address at a time, or of one that does and
\* one that has it, the address is noted.
UpdatesUnderWay ==
    \A w \in Workers : pc[w] = "updating" =>
        /\ \A v \in Users \ {call[w].user} : email[v] = call[w].address =>
             call[w].address \in raced
        /\ Contested(w, call[w].user, call[w].address) => call[w].address \in raced

\* The row a decision has locked is still pending, and nobody else has locked it.
LockedRequests ==
    \A w \in Workers : pc[w] = "deciding" =>
        access[call[w].pair] = "PENDING" /\ ~RowLocked(call[w].pair, w)

\* What a removal has taken is still the user's, and nobody else has taken it.
TakenRows ==
    \A w \in Workers : Removing(w) =>
        LET c == call[w]
        IN  /\ IF pc[w] = "chosen" THEN c.documents \cup c.areas \cup c.requests = {}
               ELSE c.kind = "removed"
            /\ \A d \in c.documents : responsible[d] = c.user
            /\ \A a \in c.areas : manager[a] = c.user
            /\ \A d \in c.requests : access[<<d, c.user>>] = "PENDING"
            /\ c.documents \cap Locked(w).documents = {}
            /\ c.areas \cap Locked(w).areas = {}
            /\ (c.requests \X {c.user}) \cap Locked(w).requests = {}
            /\ c.areas # {} => MayManage(w, c.replacement)

\* A removal has taken all there is of its user, or has missed a row.
NothingElse ==
    \A w \in Workers : pc[w] \in Taking /\ w \notin late =>
        LET c == call[w]
        IN  /\ \A d \in Documents : responsible[d] = c.user => d \in c.documents
            /\ pc[w] # "documents" =>
                 \A a \in Areas : manager[a] = c.user => a \in c.areas
            /\ pc[w] = "requests" =>
                 \A d \in Documents : access[<<d, c.user>>] = "PENDING" => d \in c.requests

\* Everything that is kept by every step of requests that interleave as they
\* will: what the tables promise, and what the requests under way hold of them.
IInv ==
    /\ TypeOK
    /\ AddressesAreUnique
    /\ WorkIsOwned
    /\ RemovedDataIsGone
    /\ ReferencesExist
    /\ ManagesOneArea
    /\ DecisionsAreSigned
    /\ HeldAccounts
    /\ ReplacementIsAnother
    /\ UpdatesUnderWay
    /\ LockedRequests
    /\ TakenRows
    /\ NothingElse
================================================================================
