---------------------- MODULE TenantMembershipProofs ----------------------
(***************************************************************************)
(* Proofs about TenantMembership, for any sets of users, tenants, keys and *)
(* concurrent requests: the tables keep their types, nothing outlives the  *)
(* deletion of its user, and second memberships, memberships without their *)
(* tenant and tenants without an owner come about only in the cases the    *)
(* theorems name.                                                          *)
(*                                                                         *)
(* The inductive invariant says of every request in flight what it may     *)
(* still rely on when it commits, whatever the others did in between.      *)
(* When no two requests overlap (OneAtATime) it may rely on all that it    *)
(* has read: SerialInv says so, and with it the handlers implement the     *)
(* atomic operations of Memberships.                                       *)
(***************************************************************************)
EXTENDS TenantMembership, FiniteSetTheorems, TLAPS

\* What `owner_count > 1` tells of the set it counted.
Several(S) == \E i, j \in S : i # j

\* A key that was handed out keeps its user and tenant for good: no handler
\* moves a membership, and keys are not reused.
Belongs(i, u, t, tbl, fr) ==
    /\ i \in RowIds \ fr
    /\ tbl[i] # NoRow => tbl[i].user = u /\ tbl[i].tenant = t

\* A request that has loaded the membership it is about.
Loaded(me, tbl, fr) ==
    /\ me.user \in Users /\ me.tenant \in Tenants
    /\ me.was \in Row
    /\ me.was.user = me.user /\ me.was.tenant = me.tenant
    /\ Belongs(me.row, me.user, me.tenant, tbl, fr)

\* update_user_role, remove_user_from_tenant, reactivate_user_in_tenant.
ManageInv(me, tbl, fr) ==
    me.op \in {"patch", "remove", "reactivate"} =>
        /\ me.stage # "cognito"
        /\ me.user \in Users /\ me.tenant \in Tenants
        /\ me.op = "patch" => me.role \in RoleNames
        /\ me.stage \in {"count", "commit"} =>
              /\ Loaded(me, tbl, fr)
              /\ me.op = "reactivate" => me.was.status = "removed"
        /\ me.stage = "count" => me.todo = {me.tenant}
        /\ me.stage = "commit" /\ GivesUpOwnership(me, me.was.role) =>
              Several(me.seen[me.tenant])

\* accept_invitation: one that found no membership has none among the rows it
\* could have seen.
AcceptInv(me, tbl, fr) ==
    me.op = "accept" =>
        /\ me.user \in Users /\ me.tenant \in Tenants /\ me.home \in Tenants
        /\ me.role \in RoleNames
        /\ me.row # NoRow => Loaded(me, tbl, fr)
        /\ me.row = NoRow =>
              \A j \in me.known :
                 /\ j \notin fr
                 /\ tbl[j] # NoRow => ~ (tbl[j].user = me.user /\ tbl[j].tenant = me.tenant)

\* delete_user: each owner row it found is in a tenant counted or still to count.
DeleteUserInv(me, tbl, fr) ==
    me.op = "delete_user" =>
        /\ me.user \in Users
        /\ me.stage \in {"cognito", "commit"} => me.todo = {}
        /\ me.stage # "load" =>
              \A i \in me.owned :
                 /\ i \notin fr
                 /\ tbl[i] # NoRow =>
                       tbl[i].tenant \in me.todo \/ Several(me.seen[tbl[i].tenant])

\* delete_tenant: the rows it locked are the tenant's, all those it could see.
DeleteTenantInv(me, tbl, fr) ==
    me.op = "delete_tenant" =>
        /\ me.tenant \in Tenants
        /\ \A i \in me.locked :
              i \notin fr /\ (tbl[i] # NoRow => tbl[i].tenant = me.tenant)
        /\ \A i \in me.known :
              i \notin fr /\ (tbl[i] # NoRow /\ tbl[i].tenant = me.tenant => i \in me.locked)

RequestInv(me, tbl, fr) ==
    /\ ManageInv(me, tbl, fr)
    /\ AcceptInv(me, tbl, fr)
    /\ DeleteUserInv(me, tbl, fr)
    /\ DeleteTenantInv(me, tbl, fr)

FreshIsEmpty == \A i \in fresh : rows[i] = NoRow

IInv ==
    /\ TypeOK
    /\ FreshIsEmpty
    /\ \A r \in Requests : req[r] # NoRow => RequestInv(req[r], rows, fresh)

\* What every step does to the table at most.
Kept(tbl, fr, tbl2, fr2) ==
    /\ fr2 \subseteq fr
    /\ \A i \in RowIds \ fr :
          tbl2[i] # NoRow => /\ tbl[i] # NoRow
                             /\ tbl2[i].user = tbl[i].user
                             /\ tbl2[i].tenant = tbl[i].tenant

-----------------------------------------------------------------------------
(* Lemmas *)

\* More than one owner counted means two different ones.
LEMMA MoreThanOne ==
    ASSUME NEW S, S \subseteq RowIds, ~ Cardinality(S) <= 1
    PROVE  Several(S)
<1>1. IsFiniteSet(S) /\ Cardinality(S) \in Nat
    BY RowIdsFinite, FS_Subset, FS_CardinalityType
<1>2. SUFFICES ASSUME ~ Several(S) PROVE FALSE
    OBVIOUS
<1>3. S = {} \/ \E x \in S : S = {x}
    BY <1>2 DEF Several
<1>4. S # {}
    BY FS_EmptySet
<1>5. ASSUME NEW x \in S, S = {x} PROVE FALSE
    <2>1. Cardinality({x}) = 1
        BY FS_Singleton
    <2> QED BY <1>5, <2>1
<1> QED BY <1>3, <1>4, <1>5

\* What a request relies on survives the steps of the others.
LEMMA RequestInvKept ==
    ASSUME NEW me \in Request, NEW tbl, NEW fr, NEW tbl2, NEW fr2,
           RequestInv(me, tbl, fr), Kept(tbl, fr, tbl2, fr2)
    PROVE  RequestInv(me, tbl2, fr2)
<1>1. ASSUME Loaded(me, tbl, fr) PROVE Loaded(me, tbl2, fr2)
    BY <1>1 DEF Loaded, Belongs, Kept
<1>2. ManageInv(me, tbl2, fr2)
    BY <1>1 DEF RequestInv, ManageInv
<1>3. AcceptInv(me, tbl2, fr2)
    BY <1>1 DEF RequestInv, AcceptInv, Kept, Request
<1>4. DeleteUserInv(me, tbl2, fr2)
    BY DEF RequestInv, DeleteUserInv, Kept, Request
<1>5. DeleteTenantInv(me, tbl2, fr2)
    BY DEF RequestInv, DeleteTenantInv, Kept, Request
<1> QED BY <1>2, <1>3, <1>4, <1>5 DEF RequestInv

\* A step that only replaces the request in slot r by q.
LEMMA RequestStep ==
    ASSUME IInv, NEW r \in Requests, NEW q \in Request \cup {NoRow},
           req' = [req EXCEPT ![r] = q],
           q # NoRow => RequestInv(q, rows', fresh'),
           rows' \in [RowIds -> Row \cup {NoRow}],
           user' \in [Users -> {"live", "deleted"}],
           tenant' \in [Tenants -> {"new", "live", "deleted"}],
           FreshIsEmpty',
           Kept(rows, fresh, rows', fresh')
    PROVE  IInv'
<1>1. req' \in [Requests -> Request \cup {NoRow}]
    BY DEF IInv, TypeOK
<1>2. TypeOK'
    BY <1>1 DEF IInv, TypeOK, Kept
<1>3. ASSUME NEW s \in Requests, req'[s] # NoRow
      PROVE  RequestInv(req'[s], rows', fresh')
    <2>1. CASE s = r
        BY <1>3, <2>1 DEF IInv, TypeOK
    <2>2. CASE s # r
        <3>1. req'[s] = req[s] /\ req[s] \in Request /\ RequestInv(req[s], rows, fresh)
            BY <1>3, <2>2 DEF IInv, TypeOK
        <3> QED BY <3>1, RequestInvKept
    <2> QED BY <2>1, <2>2
<1> QED BY <1>2, <1>3 DEF IInv

\* A step that changes nothing but the request in slot r.
LEMMA QuietStep ==
    ASSUME IInv, NEW r \in Requests, NEW q \in Request \cup {NoRow},
           req' = [req EXCEPT ![r] = q],
           q # NoRow => RequestInv(q, rows, fresh),
           UNCHANGED <<rows, fresh, user, tenant>>
    PROVE  IInv'
<1>1. Kept(rows, fresh, rows', fresh')
    BY DEF Kept
<1> QED BY <1>1, RequestStep DEF IInv, TypeOK, FreshIsEmpty

\* A request that ends without writing, or is lost.
LEMMA EndStep == ASSUME IInv, NEW r \in Requests, End(r) PROVE IInv'
    BY QuietStep DEF End

-----------------------------------------------------------------------------
(* The invariant, action by action *)

\* What a request starts with satisfies its invariant.
LEMMA NewRequestType ==
    ASSUME NEW op \in Ops, NEW u \in Users \cup {NoRow},
           NEW home \in Tenants \cup {NoRow}, NEW t \in Tenants \cup {NoRow},
           NEW role \in RoleNames \cup {"none"},
           NEW actor \in RoleNames \cup {"none", "super"}
    PROVE  NewRequest(op, u, home, t, role, actor) \in Request
    BY DEF NewRequest, Request, Stages

\* A request that starts has read nothing yet.
LEMMA BeginStep == ASSUME IInv, NEW r \in Requests, Begin(r) PROVE IInv'
<1>1. PICK a \in Users \cup Admins, u \in Users, t \in Tenants :
        \/ \E op \in {"patch", "remove", "reactivate"}, role \in PatchRoles \cup {"none"} :
              StartManage(r, a, op, u, t, role)
        \/ StartDeleteTenant(r, a, t)
        \/ StartDeleteUser(r, a, u)
        \/ \E home \in Tenants, role \in InviteRoles : StartAccept(r, u, home, t, role)
    BY DEF Begin
<1>2. CASE \E op \in {"patch", "remove", "reactivate"}, role \in PatchRoles \cup {"none"} :
              StartManage(r, a, op, u, t, role)
    <2>1. PICK op \in {"patch", "remove", "reactivate"}, role \in PatchRoles \cup {"none"} :
              StartManage(r, a, op, u, t, role)
        BY <1>2
    <2>2. PICK actor \in ActorRoles(a, t) :
              Start(r, NewRequest(op, u, NoRow, t, role, IF op = "patch" THEN actor ELSE "none"))
        BY <2>1 DEF StartManage
    <2>3. actor \in RoleNames \cup {"super"}
        BY DEF ActorRoles, IInv, TypeOK, Live, RowsOf, WithStatus, Row
    <2> DEFINE q == NewRequest(op, u, NoRow, t, role, IF op = "patch" THEN actor ELSE "none")
    <2>4. role \in RoleNames \cup {"none"} /\ (op = "patch" => role \in RoleNames)
        BY <2>1, RolesKnown DEF RoleNames, StartManage
    <2>5. q \in Request
        BY <2>3, <2>4, NewRequestType DEF Ops
    <2>6. RequestInv(q, rows, fresh)
        BY <2>4 DEF RequestInv, ManageInv, AcceptInv, DeleteUserInv, DeleteTenantInv, NewRequest
    <2> QED BY <2>2, <2>5, <2>6, QuietStep DEF Start
<1>3. CASE StartDeleteTenant(r, a, t)
    <2> DEFINE q == NewRequest("delete_tenant", NoRow, NoRow, t, "none", "super")
    <2>1. q \in Request
        BY NewRequestType DEF Ops
    <2>2. RequestInv(q, rows, fresh)
        BY DEF RequestInv, ManageInv, AcceptInv, DeleteUserInv, DeleteTenantInv, NewRequest
    <2> QED BY <1>3, <2>1, <2>2, QuietStep DEF StartDeleteTenant, Start
<1>4. CASE StartDeleteUser(r, a, u)
    <2> DEFINE q == NewRequest("delete_user", u, NoRow, NoRow, "none", "super")
    <2>1. q \in Request
        BY NewRequestType DEF Ops
    <2>2. RequestInv(q, rows, fresh)
        BY DEF RequestInv, ManageInv, AcceptInv, DeleteUserInv, DeleteTenantInv, NewRequest
    <2> QED BY <1>4, <2>1, <2>2, QuietStep DEF StartDeleteUser, Start
<1>5. CASE \E home \in Tenants, role \in InviteRoles : StartAccept(r, u, home, t, role)
    <2>1. PICK home \in Tenants, role \in InviteRoles : StartAccept(r, u, home, t, role)
        BY <1>5
    <2> DEFINE q == NewRequest("accept", u, home, t, role, "none")
    <2>2. q \in Request
        BY RolesKnown, NewRequestType DEF Ops
    <2>3. RequestInv(q, rows, fresh)
        BY RolesKnown DEF RequestInv, ManageInv, AcceptInv, DeleteUserInv, DeleteTenantInv,
                          NewRequest
    <2> QED BY <2>1, <2>2, <2>3, QuietStep DEF StartAccept, Start
<1> QED BY <1>1, <1>2, <1>3, <1>4, <1>5

\* What a management request loads is what it is about, and a request that
\* gives up an ownership goes on to count.
LEMMA LoadTargetStep == ASSUME IInv, NEW r \in Requests, LoadTarget(r) PROVE IInv'
<1> DEFINE me == req[r]
           found == WithStatus(RowsOf(me.user, me.tenant),
                               IF me.op = "reactivate" THEN "removed" ELSE "active")
<1>1. /\ me \in Request /\ RequestInv(me, rows, fresh)
      /\ me.op \in {"patch", "remove", "reactivate"} /\ me.stage = "load"
    BY DEF LoadTarget, At, IInv, TypeOK
<1>2. End(r) \/
      \E i \in found :
         LET counts == GivesUpOwnership(me, rows[i].role)
         IN  /\ req' = [req EXCEPT
                  ![r] = [@ EXCEPT !.row = i, !.was = rows[i],
                            !.todo = IF counts THEN {me.tenant} ELSE {},
                            !.stage = IF counts THEN "count" ELSE "commit"]]
             /\ UNCHANGED <<rows, fresh, user, tenant>>
    BY DEF LoadTarget
<1>3. ASSUME NEW i \in found,
             req' = [req EXCEPT
                  ![r] = [@ EXCEPT !.row = i, !.was = rows[i],
                            !.todo = IF GivesUpOwnership(me, rows[i].role)
                                     THEN {me.tenant} ELSE {},
                            !.stage = IF GivesUpOwnership(me, rows[i].role)
                                      THEN "count" ELSE "commit"]],
             UNCHANGED <<rows, fresh, user, tenant>>
      PROVE  IInv'
    <2> DEFINE q == [me EXCEPT !.row = i, !.was = rows[i],
                            !.todo = IF GivesUpOwnership(me, rows[i].role)
                                     THEN {me.tenant} ELSE {},
                            !.stage = IF GivesUpOwnership(me, rows[i].role)
                                      THEN "count" ELSE "commit"]
    <2>1. /\ i \in RowIds \ fresh /\ rows[i] \in Row
          /\ rows[i].user = me.user /\ rows[i].tenant = me.tenant
          /\ me.op = "reactivate" => rows[i].status = "removed"
        BY DEF WithStatus, RowsOf, Live, IInv, TypeOK, FreshIsEmpty
    <2>2. me.user \in Users /\ me.tenant \in Tenants /\ (me.op = "patch" => me.role \in RoleNames)
        BY <1>1 DEF RequestInv, ManageInv
    <2>3. q \in Request
        BY <1>1, <2>1, <2>2 DEF Request, Stages
    <2>4. /\ q.op = me.op /\ q.user = me.user /\ q.tenant = me.tenant /\ q.role = me.role
          /\ q.row = i /\ q.was = rows[i] /\ q.seen = me.seen
          /\ q.stage = IF GivesUpOwnership(me, rows[i].role) THEN "count" ELSE "commit"
          /\ q.todo = IF GivesUpOwnership(me, rows[i].role) THEN {me.tenant} ELSE {}
        BY <1>1 DEF Request
    <2>5. GivesUpOwnership(q, q.was.role) <=> GivesUpOwnership(me, rows[i].role)
        BY <2>4 DEF GivesUpOwnership
    <2>6. Loaded(q, rows, fresh)
        BY <2>1, <2>2, <2>4 DEF Loaded, Belongs
    <2>7. ManageInv(q, rows, fresh)
        BY <1>1, <2>1, <2>2, <2>4, <2>5, <2>6 DEF ManageInv
    <2>8. RequestInv(q, rows, fresh)
        BY <1>1, <2>4, <2>7 DEF RequestInv, AcceptInv, DeleteUserInv, DeleteTenantInv
    <2>9. req' = [req EXCEPT ![r] = q]
        BY <1>3
    <2> HIDE DEF q
    <2> QED BY <1>3, <2>3, <2>8, <2>9, QuietStep
<1> QED BY <1>2, <1>3, EndStep

\* A count that lets the request pass saw two owners.
LEMMA CountOwnersStep == ASSUME IInv, NEW r \in Requests, CountOwners(r) PROVE IInv'
<1> DEFINE me == req[r]
           left(t) == me.todo \ {t}
           q(t) == [me EXCEPT !.seen[t] = Owners(t), !.todo = left(t),
                              !.stage = IF left(t) # {} THEN "count"
                                        ELSE IF me.op = "delete_user" THEN "cognito"
                                        ELSE "commit"]
<1>1. /\ me \in Request /\ RequestInv(me, rows, fresh)
      /\ me.op \in {"patch", "remove", "delete_user"} /\ me.stage = "count"
    BY DEF CountOwners, At, IInv, TypeOK
<1>2. PICK t \in me.todo :
        \/ End(r)
        \/ /\ ~ Cardinality(Owners(t)) <= 1
           /\ req' = [req EXCEPT ![r] = q(t)]
           /\ UNCHANGED <<rows, fresh, user, tenant>>
    BY DEF CountOwners
<1>3. CASE End(r)
    BY <1>3, EndStep
<1>4. CASE /\ ~ Cardinality(Owners(t)) <= 1
           /\ req' = [req EXCEPT ![r] = q(t)]
           /\ UNCHANGED <<rows, fresh, user, tenant>>
    <2>1. Owners(t) \subseteq RowIds
        BY DEF Owners, Live
    <2>2. Several(Owners(t))
        BY <1>4, <2>1, MoreThanOne
    <2>3. t \in Tenants
        BY <1>1 DEF Request
    <2>4. [me.seen EXCEPT ![t] = Owners(t)] \in [Tenants -> SUBSET RowIds]
        BY <1>1, <2>1, <2>3 DEF Request
    <2>5. /\ q(t).op = me.op /\ q(t).user = me.user /\ q(t).tenant = me.tenant
          /\ q(t).role = me.role /\ q(t).row = me.row /\ q(t).was = me.was
          /\ q(t).owned = me.owned /\ q(t).locked = me.locked
          /\ q(t).seen = [me.seen EXCEPT ![t] = Owners(t)]
          /\ q(t).todo = left(t)
          /\ q(t).stage = IF left(t) # {} THEN "count"
                          ELSE IF me.op = "delete_user" THEN "cognito" ELSE "commit"
        BY <1>1 DEF Request
    <2>6. q(t) \in Request
        <3> DEFINE seen  == [me.seen EXCEPT ![t] = Owners(t)]
                   stage == IF left(t) # {} THEN "count"
                            ELSE IF me.op = "delete_user" THEN "cognito" ELSE "commit"
        <3>1. q(t) = [me EXCEPT !.seen = seen, !.todo = left(t), !.stage = stage]
            BY <1>1 DEF Request
        <3>2. seen \in [Tenants -> SUBSET RowIds] /\ stage \in Stages
              /\ left(t) \subseteq Tenants
            BY <1>1, <2>4 DEF Request, Stages
        <3> HIDE DEF q, seen, stage, left
        <3> QED BY <1>1, <3>1, <3>2 DEF Request
    <2>7. ManageInv(q(t), rows, fresh)
        <3>1. SUFFICES ASSUME me.op \in {"patch", "remove"}
                       PROVE  ManageInv(q(t), rows, fresh)
            BY <1>1, <2>5 DEF ManageInv
        <3>2. me.todo = {me.tenant} /\ Loaded(me, rows, fresh)
            BY <1>1, <3>1 DEF RequestInv, ManageInv
        <3>3. t = me.tenant /\ q(t).stage = "commit"
            BY <2>5, <3>1, <3>2
        <3>4. Loaded(q(t), rows, fresh)
            BY <2>5, <3>2 DEF Loaded
        <3>5. Several(q(t).seen[q(t).tenant])
            BY <1>1, <2>2, <2>3, <2>5, <3>3 DEF Request
        <3> HIDE DEF q
        <3> QED BY <1>1, <2>5, <3>1, <3>3, <3>4, <3>5 DEF RequestInv, ManageInv
    <2>8. DeleteUserInv(q(t), rows, fresh)
        <3>1. SUFFICES ASSUME me.op = "delete_user"
                       PROVE  DeleteUserInv(q(t), rows, fresh)
            BY <1>1, <2>5 DEF DeleteUserInv
        <3>2. ASSUME NEW i \in me.owned, rows[i] # NoRow
              PROVE  rows[i].tenant \in left(t) \/ Several(q(t).seen[rows[i].tenant])
            <4>1. rows[i].tenant \in Tenants
                BY <1>1, <3>2 DEF Request, IInv, TypeOK, Row
            <4>2. rows[i].tenant \in me.todo \/ Several(me.seen[rows[i].tenant])
                BY <1>1, <3>1, <3>2 DEF RequestInv, DeleteUserInv
            <4>3. CASE rows[i].tenant = t
                <5>1. q(t).seen[rows[i].tenant] = Owners(t)
                    BY <1>1, <2>3, <2>5, <4>3 DEF Request
                <5> QED BY <2>2, <5>1
            <4>4. CASE rows[i].tenant # t
                <5>1. q(t).seen[rows[i].tenant] = me.seen[rows[i].tenant]
                    BY <1>1, <2>3, <2>5, <4>1, <4>4 DEF Request
                <5> QED BY <4>2, <4>4, <5>1
            <4> QED BY <4>3, <4>4
        <3> HIDE DEF q
        <3> QED BY <1>1, <2>5, <3>1, <3>2 DEF RequestInv, DeleteUserInv
    <2>9. RequestInv(q(t), rows, fresh)
        BY <1>1, <2>5, <2>7, <2>8 DEF RequestInv, AcceptInv, DeleteTenantInv
    <2> HIDE DEF q
    <2> QED BY <1>4, <2>6, <2>9, QuietStep
<1> QED BY <1>2, <1>3, <1>4

\* The three commits of member management and that of an acceptance that found
\* a membership: the row keeps its user and tenant, the slot is free.
LEMMA UpdateRowStep ==
    ASSUME IInv, NEW r \in Requests, NEW new \in Row, UpdateRow(r, new),
           req[r].row \in RowIds
    PROVE  IInv'
<1> DEFINE i == req[r].row
<1>1. End(r) \/ /\ rows[i] # NoRow
                /\ rows' = [rows EXCEPT ![i] = Written(req[r], new)]
                /\ req' = [req EXCEPT ![r] = NoRow]
                /\ UNCHANGED <<fresh, user, tenant>>
    BY DEF UpdateRow
<1>2. CASE End(r)
    BY <1>2, EndStep
<1>3. CASE /\ rows[i] # NoRow
           /\ rows' = [rows EXCEPT ![i] = Written(req[r], new)]
           /\ req' = [req EXCEPT ![r] = NoRow]
           /\ UNCHANGED <<fresh, user, tenant>>
    <2>1. rows[i] \in Row
        BY <1>3 DEF IInv, TypeOK
    <2>2. /\ Written(req[r], new) \in Row
          /\ Written(req[r], new).user = rows[i].user
          /\ Written(req[r], new).tenant = rows[i].tenant
        BY <2>1 DEF Written, Row
    <2>3. rows' \in [RowIds -> Row \cup {NoRow}]
        BY <1>3, <2>2 DEF IInv, TypeOK
    <2>4. Kept(rows, fresh, rows', fresh')
        BY <1>3, <2>2 DEF Kept, IInv, TypeOK
    <2>5. FreshIsEmpty'
        BY <1>3 DEF FreshIsEmpty, IInv, TypeOK
    <2> QED BY <1>3, <2>3, <2>4, <2>5, RequestStep DEF IInv, TypeOK
<1> QED BY <1>1, <1>2, <1>3

\* The commits of update_user_role, remove_user_from_tenant and
\* reactivate_user_in_tenant rewrite the one row they loaded.
LEMMA CommitManageStep ==
    ASSUME IInv, NEW r \in Requests,
           CommitPatch(r) \/ CommitRemove(r) \/ CommitReactivate(r)
    PROVE  IInv'
<1> DEFINE me == req[r]
<1>1. /\ me \in Request /\ RequestInv(me, rows, fresh)
      /\ me.op \in {"patch", "remove", "reactivate"} /\ me.stage = "commit"
    BY DEF CommitPatch, CommitRemove, CommitReactivate, At, IInv, TypeOK
<1>2. me.was \in Row /\ me.row \in RowIds /\ (me.op = "patch" => me.role \in RoleNames)
    BY <1>1 DEF RequestInv, ManageInv, Loaded, Belongs
<1>3. PICK new \in Row : UpdateRow(r, new)
    <2>1. CASE CommitPatch(r)
        <3>1. [me.was EXCEPT !.role = me.role] \in Row
            BY <1>2, <2>1 DEF Row, CommitPatch, At
        <3> QED BY <2>1, <3>1 DEF CommitPatch
    <2>2. CASE CommitRemove(r)
        <3>1. [me.was EXCEPT !.status = "removed"] \in Row
            BY <1>2 DEF Row, Status
        <3> QED BY <2>2, <3>1 DEF CommitRemove
    <2>3. CASE CommitReactivate(r)
        <3>1. [me.was EXCEPT !.status = "active"] \in Row
            BY <1>2 DEF Row, Status
        <3> QED BY <2>3, <3>1 DEF CommitReactivate
    <2> QED BY <2>1, <2>2, <2>3
<1> QED BY <1>2, <1>3, UpdateRowStep

\* An acceptance leaves a role name.
LEMMA RoleAfterAcceptType ==
    ASSUME NEW existing \in RoleNames, NEW invited \in RoleNames
    PROVE  RoleAfterAccept(existing, invited) \in RoleNames
    BY DEF RoleAfterAccept

\* An acceptance loads at most one row, its user's in its tenant.
LEMMA LoadMembershipStep == ASSUME IInv, NEW r \in Requests, LoadMembership(r) PROVE IInv'
<1> DEFINE me == req[r]
           found == RowsOf(me.user, me.tenant)
<1>1. /\ me \in Request /\ RequestInv(me, rows, fresh)
      /\ me.op = "accept" /\ me.stage = "load"
    BY DEF LoadMembership, At, IInv, TypeOK
<1>2. \/ End(r)
      \/ /\ found = {}
         /\ req' = [req EXCEPT ![r] = [@ EXCEPT !.stage = "commit", !.known = RowIds \ fresh]]
         /\ UNCHANGED <<rows, fresh, user, tenant>>
      \/ /\ \E i \in found : req' = [req EXCEPT ![r] = [@ EXCEPT !.row = i, !.was = rows[i],
                                                                 !.stage = "commit"]]
         /\ UNCHANGED <<rows, fresh, user, tenant>>
    BY DEF LoadMembership
<1>3. CASE End(r)
    BY <1>3, EndStep
<1>4. CASE /\ found = {}
           /\ req' = [req EXCEPT ![r] = [@ EXCEPT !.stage = "commit", !.known = RowIds \ fresh]]
           /\ UNCHANGED <<rows, fresh, user, tenant>>
    <2> DEFINE q == [me EXCEPT !.stage = "commit", !.known = RowIds \ fresh]
    <2>1. q \in Request
        BY <1>1 DEF Request, Stages
    <2>2. /\ q.op = me.op /\ q.user = me.user /\ q.tenant = me.tenant /\ q.role = me.role
          /\ q.home = me.home /\ q.row = me.row /\ q.was = me.was
          /\ q.known = RowIds \ fresh
        BY <1>1 DEF Request
    <2>3. \A j \in RowIds : rows[j] # NoRow =>
             ~ (rows[j].user = me.user /\ rows[j].tenant = me.tenant)
        BY <1>4 DEF RowsOf, Live
    <2>4. RequestInv(q, rows, fresh)
        BY <1>1, <2>2, <2>3 DEF RequestInv, ManageInv, AcceptInv, DeleteUserInv,
                                DeleteTenantInv, Loaded
    <2>5. req' = [req EXCEPT ![r] = q]
        BY <1>4
    <2> HIDE DEF q
    <2> QED BY <1>4, <2>1, <2>4, <2>5, QuietStep
<1>5. ASSUME NEW i \in found,
             req' = [req EXCEPT ![r] = [@ EXCEPT !.row = i, !.was = rows[i],
                                                 !.stage = "commit"]],
             UNCHANGED <<rows, fresh, user, tenant>>
      PROVE  IInv'
    <2> DEFINE q == [me EXCEPT !.row = i, !.was = rows[i], !.stage = "commit"]
    <2>1. /\ i \in RowIds \ fresh /\ rows[i] \in Row
          /\ rows[i].user = me.user /\ rows[i].tenant = me.tenant
        BY DEF RowsOf, Live, IInv, TypeOK, FreshIsEmpty
    <2>2. q \in Request
        BY <1>1, <2>1 DEF Request, Stages
    <2>3. /\ q.op = me.op /\ q.user = me.user /\ q.tenant = me.tenant /\ q.role = me.role
          /\ q.home = me.home /\ q.row = i /\ q.was = rows[i] /\ i # NoRow
        BY <1>1, <2>1, NoRowFresh DEF Request
    <2>4. RequestInv(q, rows, fresh)
        BY <1>1, <2>1, <2>3 DEF RequestInv, ManageInv, AcceptInv, DeleteUserInv,
                                DeleteTenantInv, Loaded, Belongs
    <2>5. req' = [req EXCEPT ![r] = q]
        BY <1>5
    <2> HIDE DEF q
    <2> QED BY <1>5, <2>2, <2>4, <2>5, QuietStep
<1> QED BY <1>2, <1>3, <1>4, <1>5

\* Both insertions, a new tenant's owner and an accepted invitation, take a
\* fresh key.
LEMMA InsertKeeps ==
    ASSUME IInv, NEW i \in fresh, NEW row \in Row,
           rows' = [rows EXCEPT ![i] = row], fresh' = fresh \ {i}
    PROVE  /\ rows' \in [RowIds -> Row \cup {NoRow}]
           /\ FreshIsEmpty'
           /\ Kept(rows, fresh, rows', fresh')
    BY DEF IInv, TypeOK, FreshIsEmpty, Kept

\* An acceptance inserts a row under an unused key or rewrites the one it loaded.
LEMMA CommitAcceptStep ==
    ASSUME IInv, NEW r \in Requests, CommitAcceptInsert(r) \/ CommitAcceptUpdate(r)
    PROVE  IInv'
<1> DEFINE me == req[r]
<1>1. me \in Request /\ RequestInv(me, rows, fresh) /\ me.op = "accept"
    BY DEF CommitAcceptInsert, CommitAcceptUpdate, At, IInv, TypeOK
<1>2. me.user \in Users /\ me.tenant \in Tenants /\ me.role \in RoleNames
    BY <1>1 DEF RequestInv, AcceptInv
<1>3. CASE CommitAcceptInsert(r)
    <2> DEFINE row == [user |-> me.user, tenant |-> me.tenant,
                       role |-> me.role, status |-> "active"]
    <2>1. row \in Row
        BY <1>2 DEF Row, Status
    <2>2. End(r) \/ \E i \in fresh :
                      /\ rows' = [rows EXCEPT ![i] = row]
                      /\ fresh' = fresh \ {i}
                      /\ req' = [req EXCEPT ![r] = NoRow]
                      /\ UNCHANGED <<user, tenant>>
        BY <1>3 DEF CommitAcceptInsert
    <2>3. ASSUME NEW i \in fresh,
                 rows' = [rows EXCEPT ![i] = row], fresh' = fresh \ {i},
                 req' = [req EXCEPT ![r] = NoRow], UNCHANGED <<user, tenant>>
          PROVE  IInv'
        <3> HIDE DEF row
        <3>1. /\ rows' \in [RowIds -> Row \cup {NoRow}]
              /\ FreshIsEmpty'
              /\ Kept(rows, fresh, rows', fresh')
            BY <2>1, <2>3, InsertKeeps
        <3> QED BY <2>3, <3>1, RequestStep DEF IInv, TypeOK
    <2> QED BY <2>2, <2>3, EndStep
<1>4. CASE CommitAcceptUpdate(r)
    <2>1. me.was \in Row /\ me.row \in RowIds
        BY <1>1, <1>4 DEF RequestInv, AcceptInv, Loaded, Belongs, CommitAcceptUpdate
    <2>2. RoleAfterAccept(me.was.role, me.role) \in RoleNames
        BY <1>2, <2>1, RoleAfterAcceptType DEF Row
    <2> DEFINE new == [me.was EXCEPT !.role = RoleAfterAccept(@, me.role), !.status = "active"]
    <2>3. new \in Row
        BY <2>1, <2>2 DEF Row, Status
    <2>4. End(r) \/ UpdateRow(r, new)
        BY <1>4 DEF CommitAcceptUpdate
    <2> HIDE DEF new
    <2> QED BY <2>1, <2>3, <2>4, EndStep, UpdateRowStep
<1> QED BY <1>3, <1>4

\* The three steps of delete_user; the last only takes rows away.
LEMMA DeleteUserStep ==
    ASSUME IInv, NEW r \in Requests, LoadOwned(r) \/ CognitoDelete(r) \/ CommitDeleteUser(r)
    PROVE  IInv'
<1> DEFINE me == req[r]
<1>1. me \in Request /\ RequestInv(me, rows, fresh) /\ me.op = "delete_user"
    BY DEF LoadOwned, CognitoDelete, CommitDeleteUser, At, IInv, TypeOK
<1>2. me.user \in Users
    BY <1>1 DEF RequestInv, DeleteUserInv
<1>3. CASE LoadOwned(r)
    <2> DEFINE owned == OwnerRowsOf(me.user)
               todo  == {rows[i].tenant : i \in owned}
               stage == IF todo = {} THEN "cognito" ELSE "count"
               q == [me EXCEPT !.owned = owned, !.todo = todo, !.stage = stage]
    <2>1. owned \subseteq RowIds \ fresh
        BY DEF OwnerRowsOf, Live, IInv, TypeOK, FreshIsEmpty
    <2>2. todo \subseteq Tenants
        BY DEF OwnerRowsOf, Live, IInv, TypeOK, Row
    <2>3. q \in Request
        <3>1. stage \in Stages /\ owned \subseteq RowIds
            BY <2>1 DEF Stages
        <3> HIDE DEF owned, todo, stage
        <3> QED BY <1>1, <2>2, <3>1 DEF Request
    <2>4. /\ q.op = me.op /\ q.user = me.user /\ q.owned = owned /\ q.todo = todo
          /\ q.stage = stage
        BY <1>1 DEF Request
    <2>5. \A i \in owned : rows[i].tenant \in todo
        OBVIOUS
    <2>6. req' = [req EXCEPT ![r] = q] /\ UNCHANGED <<rows, fresh, user, tenant>>
        BY <1>3 DEF LoadOwned
    <2> HIDE DEF q, owned, todo
    <2>7. RequestInv(q, rows, fresh)
        BY <1>1, <1>2, <2>1, <2>4, <2>5 DEF RequestInv, ManageInv, AcceptInv, DeleteUserInv,
                                            DeleteTenantInv
    <2> QED BY <2>3, <2>6, <2>7, QuietStep
<1>4. CASE CognitoDelete(r)
    <2> DEFINE q == [me EXCEPT !.stage = "commit"]
    <2>1. q \in Request
        BY <1>1 DEF Request, Stages
    <2>2. /\ q.op = me.op /\ q.user = me.user /\ q.owned = me.owned /\ q.todo = me.todo
          /\ q.seen = me.seen
        BY <1>1 DEF Request
    <2>3. RequestInv(q, rows, fresh)
        BY <1>1, <1>4, <2>2 DEF RequestInv, ManageInv, AcceptInv, DeleteUserInv,
                                DeleteTenantInv, CognitoDelete, At
    <2>4. End(r) \/ /\ req' = [req EXCEPT ![r] = q]
                    /\ UNCHANGED <<rows, fresh, user, tenant>>
        BY <1>4 DEF CognitoDelete
    <2> HIDE DEF q
    <2> QED BY <2>1, <2>3, <2>4, EndStep, QuietStep
<1>5. CASE CommitDeleteUser(r)
    <2> DEFINE doomed == {i \in Live : rows[i].user = me.user}
    <2>1. /\ rows' = [i \in RowIds |-> IF i \in doomed THEN NoRow ELSE rows[i]]
          /\ user' = [user EXCEPT ![me.user] = "deleted"]
          /\ req' = [req EXCEPT ![r] = NoRow]
          /\ UNCHANGED <<fresh, tenant>>
        BY <1>5 DEF CommitDeleteUser
    <2> HIDE DEF doomed
    <2>2. /\ rows' \in [RowIds -> Row \cup {NoRow}]
          /\ user' \in [Users -> {"live", "deleted"}]
        BY <2>1 DEF IInv, TypeOK
    <2>3. Kept(rows, fresh, rows', fresh') /\ FreshIsEmpty'
        BY <2>1 DEF Kept, FreshIsEmpty, IInv, TypeOK
    <2> QED BY <2>1, <2>2, <2>3, RequestStep DEF IInv, TypeOK
<1> QED BY <1>3, <1>4, <1>5

\* delete_tenant locks the rows of its tenant and takes them away.
LEMMA DeleteTenantStep ==
    ASSUME IInv, NEW r \in Requests, DeleteTenantMemberships(r) \/ CommitDeleteTenant(r)
    PROVE  IInv'
<1> DEFINE me == req[r]
<1>1. me \in Request /\ RequestInv(me, rows, fresh) /\ me.op = "delete_tenant"
    BY DEF DeleteTenantMemberships, CommitDeleteTenant, At, IInv, TypeOK
<1>2. me.tenant \in Tenants
    BY <1>1 DEF RequestInv, DeleteTenantInv
<1>3. CASE DeleteTenantMemberships(r)
    <2> DEFINE doomed == {i \in Live : rows[i].tenant = me.tenant}
               q == [me EXCEPT !.stage = "commit", !.locked = doomed,
                               !.known = RowIds \ fresh]
    <2>1. /\ \A i \in doomed : i \in RowIds \ fresh /\ rows[i].tenant = me.tenant
          /\ \A i \in RowIds : rows[i] # NoRow /\ rows[i].tenant = me.tenant => i \in doomed
        BY DEF Live, IInv, TypeOK, FreshIsEmpty
    <2>2. req' = [req EXCEPT ![r] = q] /\ UNCHANGED <<rows, fresh, user, tenant>>
        BY <1>3 DEF DeleteTenantMemberships
    <2> HIDE DEF doomed
    <2>3. q \in Request
        BY <1>1, <2>1 DEF Request, Stages
    <2>4. q.op = me.op /\ q.tenant = me.tenant /\ q.locked = doomed
          /\ q.known = RowIds \ fresh
        BY <1>1 DEF Request
    <2> HIDE DEF q
    <2>5. RequestInv(q, rows, fresh)
        BY <1>1, <1>2, <2>1, <2>4 DEF RequestInv, ManageInv, AcceptInv, DeleteUserInv,
                                      DeleteTenantInv
    <2> QED BY <2>2, <2>3, <2>5, QuietStep
<1>4. CASE CommitDeleteTenant(r)
    <2>1. /\ rows' = [i \in RowIds |-> IF i \in me.locked THEN NoRow ELSE rows[i]]
          /\ tenant' = [tenant EXCEPT ![me.tenant] = "deleted"]
          /\ req' = [req EXCEPT ![r] = NoRow]
          /\ UNCHANGED <<fresh, user>>
        BY <1>4 DEF CommitDeleteTenant
    <2>2. /\ rows' \in [RowIds -> Row \cup {NoRow}]
          /\ tenant' \in [Tenants -> {"new", "live", "deleted"}]
        BY <2>1 DEF IInv, TypeOK
    <2>3. Kept(rows, fresh, rows', fresh') /\ FreshIsEmpty'
        BY <2>1 DEF Kept, FreshIsEmpty, IInv, TypeOK
    <2> QED BY <2>1, <2>2, <2>3, RequestStep DEF IInv, TypeOK
<1> QED BY <1>3, <1>4

\* create_tenant inserts under an unused key.
LEMMA CreateTenantStep ==
    ASSUME IInv, NEW u \in Users, NEW t \in Tenants, CreateTenant(u, t) PROVE IInv'
<1> DEFINE row == [user |-> u, tenant |-> t, role |-> "account_owner", status |-> "active"]
<1>1. row \in Row
    BY DEF Row, Status, RoleNames, AccountRoles
<1>2. PICK i \in fresh : rows' = [rows EXCEPT ![i] = row] /\ fresh' = fresh \ {i}
    BY DEF CreateTenant
<1> HIDE DEF row
<1>3. /\ rows' \in [RowIds -> Row \cup {NoRow}]
      /\ FreshIsEmpty'
      /\ Kept(rows, fresh, rows', fresh')
    BY <1>1, <1>2, InsertKeeps
<1>4. TypeOK'
    BY <1>3 DEF CreateTenant, IInv, TypeOK, Kept
<1>5. ASSUME NEW r \in Requests, req'[r] # NoRow PROVE RequestInv(req'[r], rows', fresh')
    <2>1. req'[r] = req[r] /\ req[r] \in Request /\ RequestInv(req[r], rows, fresh)
        BY <1>5 DEF CreateTenant, IInv, TypeOK
    <2> QED BY <1>3, <2>1, RequestInvKept
<1> QED BY <1>3, <1>4, <1>5 DEF IInv

\* Every step keeps the invariant.
LEMMA NextStep == ASSUME IInv, [Next]_vars PROVE IInv'
<1>1. ASSUME UNCHANGED vars PROVE IInv'
    BY <1>1 DEF vars, IInv, TypeOK, FreshIsEmpty
<1>2. ASSUME NEW u \in Users, NEW t \in Tenants, CreateTenant(u, t) PROVE IInv'
    BY <1>2, CreateTenantStep
<1>3. ASSUME NEW r \in Requests, Begin(r) PROVE IInv'
    BY <1>3, BeginStep
<1>4. ASSUME NEW r \in Requests, Continue(r) PROVE IInv'
    BY <1>4, LoadTargetStep, CountOwnersStep, CommitManageStep, LoadMembershipStep,
       CommitAcceptStep, DeleteUserStep, DeleteTenantStep DEF Continue
<1>5. ASSUME NEW r \in Requests, Abort(r) PROVE IInv'
    BY <1>5, EndStep DEF Abort
<1> QED BY <1>1, <1>2, <1>3, <1>4, <1>5 DEF Next

\* Empty tables satisfy it.
LEMMA InitIInv == ASSUME Init PROVE IInv
    BY DEF Init, IInv, TypeOK, FreshIsEmpty

\* The invariant holds in every reachable state.
LEMMA Invariance == Spec => []IInv
<1>1. Init => IInv
    BY InitIInv
<1>2. IInv /\ [Next]_vars => IInv'
    BY NextStep
<1> QED BY <1>1, <1>2, PTL DEF Spec

-----------------------------------------------------------------------------
(* What each write leaves in the table *)

\* The tables change by the creation of a tenant or by a commit.
LEMMA WhoWrites ==
    ASSUME [Next]_vars, ~ UNCHANGED <<rows, fresh, user, tenant>>
    PROVE  \/ \E u \in Users, t \in Tenants : CreateTenant(u, t)
           \/ \E r \in Requests :
                 \/ CommitPatch(r) \/ CommitRemove(r) \/ CommitReactivate(r)
                 \/ CommitAcceptInsert(r) \/ CommitAcceptUpdate(r)
                 \/ CommitDeleteUser(r) \/ CommitDeleteTenant(r)
<1>1. Next
    BY DEF vars
<1>2. ASSUME NEW r \in Requests, Begin(r) PROVE FALSE
    BY <1>2 DEF Begin, StartManage, StartDeleteTenant, StartDeleteUser, StartAccept, Start
<1>3. ASSUME NEW r \in Requests, Abort(r) PROVE FALSE
    BY <1>3 DEF Abort, End
<1>4. ASSUME NEW r \in Requests,
             \/ LoadTarget(r) \/ CountOwners(r) \/ LoadMembership(r)
             \/ LoadOwned(r) \/ CognitoDelete(r) \/ DeleteTenantMemberships(r)
      PROVE  FALSE
    <2>1. CASE LoadTarget(r) BY <2>1 DEF LoadTarget, End
    <2>2. CASE CountOwners(r) BY <2>2 DEF CountOwners, End
    <2>3. CASE LoadMembership(r) BY <2>3 DEF LoadMembership, End
    <2>4. CASE LoadOwned(r) \/ CognitoDelete(r) \/ DeleteTenantMemberships(r)
        BY <2>4 DEF LoadOwned, CognitoDelete, DeleteTenantMemberships, End
    <2> QED BY <1>4, <2>1, <2>2, <2>3, <2>4
<1> QED BY <1>1, <1>2, <1>3, <1>4 DEF Next, Continue

\* What a commit that changes an existing membership relied on and writes.
LEMMA UpdateEffect ==
    ASSUME IInv, NEW r \in Requests, ~ UNCHANGED <<rows, fresh, user, tenant>>,
           CommitPatch(r) \/ CommitRemove(r) \/ CommitReactivate(r) \/ CommitAcceptUpdate(r)
    PROVE  LET me  == req[r]
               i   == me.row
               new == CASE me.op = "patch" -> [me.was EXCEPT !.role = me.role]
                        [] me.op = "remove" -> [me.was EXCEPT !.status = "removed"]
                        [] me.op = "reactivate" -> [me.was EXCEPT !.status = "active"]
                        [] me.op = "accept" ->
                              [me.was EXCEPT !.role = RoleAfterAccept(@, me.role),
                                             !.status = "active"]
           IN  /\ me \in Request /\ RequestInv(me, rows, fresh)
               /\ me.stage = "commit" /\ me.op \in {"patch", "remove", "reactivate", "accept"}
               /\ Loaded(me, rows, fresh)
               /\ i \in RowIds \ fresh /\ rows[i] \in Row /\ new \in Row
               /\ rows[i].user = me.user /\ rows[i].tenant = me.tenant
               /\ new.role # me.was.role =>
                     UniqueRow(RowIds \ {i}, new.user, new.tenant, new.role)
               /\ rows' = [rows EXCEPT ![i] = Written(me, new)]
               /\ req' = [req EXCEPT ![r] = NoRow]
               /\ UNCHANGED <<fresh, user, tenant>>
<1> DEFINE me  == req[r]
           new == CASE me.op = "patch" -> [me.was EXCEPT !.role = me.role]
                    [] me.op = "remove" -> [me.was EXCEPT !.status = "removed"]
                    [] me.op = "reactivate" -> [me.was EXCEPT !.status = "active"]
                    [] me.op = "accept" ->
                          [me.was EXCEPT !.role = RoleAfterAccept(@, me.role),
                                         !.status = "active"]
<1>1. /\ me \in Request /\ RequestInv(me, rows, fresh)
      /\ me.stage = "commit" /\ me.op \in {"patch", "remove", "reactivate", "accept"}
    BY DEF CommitPatch, CommitRemove, CommitReactivate, CommitAcceptUpdate, At, IInv, TypeOK
<1>2. UpdateRow(r, new)
    <2>1. CASE CommitPatch(r)
        BY <2>1 DEF CommitPatch, At
    <2>2. CASE CommitRemove(r)
        BY <2>2 DEF CommitRemove, At
    <2>3. CASE CommitReactivate(r)
        BY <2>3 DEF CommitReactivate, At
    <2>4. CASE CommitAcceptUpdate(r)
        BY <2>4 DEF CommitAcceptUpdate, At, End
    <2> QED BY <2>1, <2>2, <2>3, <2>4
<1>3. Loaded(me, rows, fresh)
    <2>1. CASE me.op = "accept"
        <3>1. me.row # NoRow
            BY <2>1 DEF CommitPatch, CommitRemove, CommitReactivate, CommitAcceptUpdate, At
        <3> QED BY <1>1, <2>1, <3>1 DEF RequestInv, AcceptInv
    <2>2. CASE me.op # "accept"
        BY <1>1, <2>2 DEF RequestInv, ManageInv
    <2> QED BY <2>1, <2>2
<1>4. new \in Row
    <2>1. CASE me.op = "accept"
        <3>1. me.was.role \in RoleNames /\ me.role \in RoleNames
            BY <1>1, <1>3, <2>1 DEF RequestInv, AcceptInv, Loaded, Row
        <3>2. RoleAfterAccept(me.was.role, me.role) \in RoleNames
            BY <3>1, RoleAfterAcceptType
        <3> QED BY <1>3, <2>1, <3>2 DEF Loaded, Row, Status
    <2>2. CASE me.op # "accept"
        BY <1>1, <1>3, <2>2 DEF RequestInv, ManageInv, Loaded, Row, Status
    <2> QED BY <2>1, <2>2
<1> HIDE DEF new
<1>5. /\ rows[me.row] # NoRow
      /\ new.role # me.was.role =>
            UniqueRow(RowIds \ {me.row}, new.user, new.tenant, new.role)
      /\ rows' = [rows EXCEPT ![me.row] = Written(me, new)]
      /\ req' = [req EXCEPT ![r] = NoRow]
      /\ UNCHANGED <<fresh, user, tenant>>
    BY <1>2 DEF UpdateRow, End
<1>6. /\ me.row \in RowIds \ fresh /\ rows[me.row] \in Row
      /\ rows[me.row].user = me.user /\ rows[me.row].tenant = me.tenant
    BY <1>3, <1>5 DEF Loaded, Belongs, IInv, TypeOK
<1> QED BY <1>1, <1>3, <1>4, <1>5, <1>6 DEF new

\* A written row keeps its user and tenant.
LEMMA WrittenKeeps ==
    ASSUME NEW me, NEW new, rows[me.row] \in Row, new \in Row
    PROVE  /\ Written(me, new) \in Row
           /\ Written(me, new).user = rows[me.row].user
           /\ Written(me, new).tenant = rows[me.row].tenant
           /\ Written(me, new).role = IF new.role # me.was.role THEN new.role
                                                           ELSE rows[me.row].role
           /\ Written(me, new).status = IF new.status # me.was.status THEN new.status
                                                                  ELSE rows[me.row].status
    BY DEF Written, Row

\* What the insertion of an acceptance relied on and writes.
LEMMA InsertEffect ==
    ASSUME IInv, NEW r \in Requests, CommitAcceptInsert(r), rows' # rows
    PROVE  LET me == req[r]
           IN  /\ me \in Request /\ RequestInv(me, rows, fresh)
               /\ me.op = "accept" /\ me.row = NoRow
               /\ user[me.user] = "live" /\ tenant[me.home] = "live"
               /\ \E i \in fresh :
                     /\ i \in RowIds /\ rows[i] = NoRow
                     /\ rows'[i] = [user |-> me.user, tenant |-> me.tenant,
                                   role |-> me.role, status |-> "active"]
                     /\ \A j \in RowIds : j # i => rows'[j] = rows[j]
               /\ Commits(r)
               /\ UNCHANGED <<user, tenant>>
<1>1. ~ End(r)
    BY DEF End
<1>2. /\ req[r] \in Request /\ RequestInv(req[r], rows, fresh)
      /\ req[r].op = "accept" /\ req[r].row = NoRow /\ InsertPossible(req[r])
      /\ req' = [req EXCEPT ![r] = NoRow]
      /\ UNCHANGED <<user, tenant>>
    BY <1>1 DEF CommitAcceptInsert, At, IInv, TypeOK
<1>3. PICK i \in fresh :
        rows' = [rows EXCEPT ![i] = [user |-> req[r].user, tenant |-> req[r].tenant,
                                     role |-> req[r].role, status |-> "active"]]
    BY <1>1 DEF CommitAcceptInsert
<1>4. /\ i \in RowIds /\ rows[i] = NoRow
      /\ rows'[i] = [user |-> req[r].user, tenant |-> req[r].tenant,
                    role |-> req[r].role, status |-> "active"]
      /\ \A j \in RowIds : j # i => rows'[j] = rows[j]
    BY <1>3 DEF IInv, TypeOK, FreshIsEmpty
<1>5. Commits(r)
    BY <1>2, NoRowNoRequest DEF Commits, Ends, IInv, TypeOK
<1> QED BY <1>2, <1>4, <1>5 DEF InsertPossible

\* A membership in the table after a step was there before it with the same
\* user and tenant, or is new and of a live user.
LEMMA RowsStep ==
    ASSUME IInv, [Next]_vars, NEW i \in RowIds, rows'[i] # NoRow
    PROVE  \/ /\ rows[i] # NoRow
              /\ rows'[i].user = rows[i].user /\ rows'[i].tenant = rows[i].tenant
           \/ /\ rows[i] = NoRow
              /\ user[rows'[i].user] = "live"
<1>1. CASE rows' = rows
    BY <1>1
<1>2. ASSUME NEW u \in Users, NEW t \in Tenants, CreateTenant(u, t)
      PROVE  \/ /\ rows[i] # NoRow
                /\ rows'[i].user = rows[i].user /\ rows'[i].tenant = rows[i].tenant
             \/ /\ rows[i] = NoRow
                /\ user[rows'[i].user] = "live"
    BY <1>2 DEF CreateTenant, IInv, TypeOK, FreshIsEmpty
<1>3. ASSUME NEW r \in Requests, rows' # rows,
             CommitPatch(r) \/ CommitRemove(r) \/ CommitReactivate(r) \/ CommitAcceptUpdate(r)
      PROVE  /\ rows[i] # NoRow
             /\ rows'[i].user = rows[i].user /\ rows'[i].tenant = rows[i].tenant
    <2>1. PICK new \in Row :
            /\ req[r].row \in RowIds /\ rows[req[r].row] \in Row
            /\ rows' = [rows EXCEPT ![req[r].row] = Written(req[r], new)]
        BY <1>3, UpdateEffect
    <2>2. rows \in [RowIds -> Row \cup {NoRow}]
        BY DEF IInv, TypeOK
    <2> QED BY <2>1, <2>2, WrittenKeeps, NoRowFresh
<1>4. ASSUME NEW r \in Requests, CommitAcceptInsert(r)
      PROVE  \/ /\ rows[i] # NoRow
                /\ rows'[i].user = rows[i].user /\ rows'[i].tenant = rows[i].tenant
             \/ /\ rows[i] = NoRow
                /\ user[rows'[i].user] = "live"
    BY <1>4 DEF CommitAcceptInsert, InsertPossible, End, IInv, TypeOK, FreshIsEmpty
<1>5. ASSUME NEW r \in Requests, CommitDeleteUser(r) \/ CommitDeleteTenant(r)
      PROVE  rows[i] # NoRow /\ rows'[i] = rows[i]
    BY <1>5 DEF CommitDeleteUser, CommitDeleteTenant
<1> QED BY <1>1, <1>2, <1>3, <1>4, <1>5, WhoWrites

-----------------------------------------------------------------------------
(* Theorems *)

\* Every table and every request in flight keeps its type.
THEOREM TypeCorrect == Spec => []TypeOK
<1>1. IInv => TypeOK
    BY DEF IInv
<1> QED BY <1>1, Invariance, PTL

\* delete_user is final whatever ran beside it.
THEOREM DeletedUserGone == Spec => []DeletedUserHasNoMembership
<1>1. Init => DeletedUserHasNoMembership
    BY DEF Init, DeletedUserHasNoMembership, Live
<1>2. ASSUME IInv, DeletedUserHasNoMembership, [Next]_vars
      PROVE  DeletedUserHasNoMembership'
    <2>1. SUFFICES ASSUME NEW i \in RowIds, rows'[i] # NoRow
                   PROVE  user'[rows'[i].user] = "live"
        BY DEF DeletedUserHasNoMembership, Live
    <2>2. user[rows'[i].user] = "live"
        BY <1>2, <2>1, RowsStep DEF DeletedUserHasNoMembership, Live
    <2>3. CASE user' = user
        BY <2>2, <2>3
    <2>4. CASE \E r \in Requests : CommitDeleteUser(r)
        <3>1. PICK r \in Requests : CommitDeleteUser(r)
            BY <2>4
        <3>2. rows'[i] = rows[i] /\ rows[i].user # req[r].user
            BY <2>1, <3>1 DEF CommitDeleteUser, Live
        <3> QED BY <1>2, <2>2, <3>1, <3>2 DEF CommitDeleteUser, IInv, TypeOK
    <2>5. user' = user \/ \E r \in Requests : CommitDeleteUser(r)
        <3>1. CASE UNCHANGED <<rows, fresh, user, tenant>>
            BY <3>1
        <3>2. CASE ~ UNCHANGED <<rows, fresh, user, tenant>>
            BY <1>2, <3>2, WhoWrites, UpdateEffect
            DEF CreateTenant, CommitAcceptInsert, CommitDeleteTenant, End
        <3> QED BY <3>1, <3>2
    <2> QED BY <2>3, <2>4, <2>5
<1> QED BY <1>1, <1>2, Invariance, PTL DEF Spec

-----------------------------------------------------------------------------
(* Memberships and their tenants *)

\* Memberships, and the scopes of acceptances, are of ids that have been drawn: a
\* tenant yet to be created has none.
CreatedInv ==
    /\ \A i \in Live : tenant[rows[i].tenant] # "new"
    /\ \A r \in Requests : req[r] # NoRow /\ req[r].op = "accept" =>
          tenant[req[r].tenant] # "new"

\* A tenant never becomes new again.
LEMMA TenantsStep ==
    ASSUME IInv, [Next]_vars, NEW t \in Tenants
    PROVE  /\ tenant[t] # "new" => tenant'[t] # "new"
           /\ tenant[t] = "live" /\ tenant'[t] # "live" =>
                 \E r \in Requests : CommitDeleteTenant(r) /\ req[r].tenant = t
<1>1. tenant \in [Tenants -> {"new", "live", "deleted"}]
    BY DEF IInv, TypeOK
<1>2. CASE tenant' = tenant
    BY <1>2
<1>3. ASSUME NEW u \in Users, NEW x \in Tenants, CreateTenant(u, x)
      PROVE  tenant' = [tenant EXCEPT ![x] = "live"]
    BY <1>3 DEF CreateTenant
<1>4. ASSUME NEW r \in Requests, CommitDeleteTenant(r)
      PROVE  tenant' = [tenant EXCEPT ![req[r].tenant] = "deleted"]
    BY <1>4 DEF CommitDeleteTenant
<1>5. ASSUME NEW r \in Requests, ~ UNCHANGED <<rows, fresh, user, tenant>>,
             CommitPatch(r) \/ CommitRemove(r) \/ CommitReactivate(r) \/ CommitAcceptUpdate(r)
      PROVE  tenant' = tenant
    BY <1>5, UpdateEffect
<1>6. ASSUME NEW r \in Requests, CommitAcceptInsert(r) \/ CommitDeleteUser(r)
      PROVE  tenant' = tenant
    BY <1>6 DEF CommitAcceptInsert, CommitDeleteUser, End
<1> QED BY <1>1, <1>2, <1>3, <1>4, <1>5, <1>6, WhoWrites

\* A request in a slot after a step was there before it with the same operation
\* and tenant, or has just begun, an acceptance on a scope that has been drawn.
LEMMA AcceptScope ==
    ASSUME IInv, [Next]_vars, NEW r \in Requests, req'[r] # NoRow, req'[r].op = "accept"
    PROVE  \/ req[r] # NoRow /\ req[r].op = "accept" /\ req'[r].tenant = req[r].tenant
           \/ tenant[req'[r].tenant] # "new"
<1> DEFINE Same == req[r] # NoRow /\ req[r].op = "accept" /\ req'[r].tenant = req[r].tenant
<1>1. req \in [Requests -> Request \cup {NoRow}]
    BY DEF IInv, TypeOK
<1>2. CASE req'[r] = req[r]
    BY <1>2
<1>3. ASSUME NEW s \in Requests, End(s) PROVE Same
    BY <1>1, <1>3 DEF End
<1>4. ASSUME NEW u \in Users, NEW t \in Tenants, CreateTenant(u, t) PROVE Same
    BY <1>4 DEF CreateTenant
<1>5. ASSUME NEW s \in Requests, Begin(s) PROVE Same \/ tenant[req'[r].tenant] # "new"
    <2>1. PICK a \in Users \cup Admins, u \in Users, t \in Tenants :
            \/ \E op \in {"patch", "remove", "reactivate"}, role \in PatchRoles \cup {"none"} :
                  StartManage(s, a, op, u, t, role)
            \/ StartDeleteTenant(s, a, t)
            \/ StartDeleteUser(s, a, u)
            \/ \E home \in Tenants, role \in InviteRoles : StartAccept(s, u, home, t, role)
        BY <1>5 DEF Begin
    <2>2. CASE s # r
        BY <1>1, <2>1, <2>2 DEF StartManage, StartDeleteTenant, StartDeleteUser, StartAccept,
                                Start
    <2>3. CASE s = r
        BY <1>1, <2>1, <2>3 DEF StartManage, StartDeleteTenant, StartDeleteUser, StartAccept,
                                Start, NewRequest, TargetScopes
    <2> QED BY <2>2, <2>3
<1>6. ASSUME NEW s \in Requests, Continue(s), s # r PROVE req'[r] = req[r]
    BY <1>1, <1>6 DEF Continue, LoadTarget, CountOwners, CommitPatch, CommitRemove,
        CommitReactivate, UpdateRow, LoadMembership, CommitAcceptInsert, CommitAcceptUpdate,
        LoadOwned, CognitoDelete, CommitDeleteUser, DeleteTenantMemberships,
        CommitDeleteTenant, End
<1>7. ASSUME Continue(r) PROVE Same
    <2>1. CASE LoadMembership(r)
        <3>1. req[r] \in Request /\ req[r] # NoRow /\ req[r].op = "accept"
            BY <1>1, <2>1 DEF LoadMembership, At
        <3>2. CASE req' = [req EXCEPT ![r] = [@ EXCEPT !.stage = "commit",
                                                       !.known = RowIds \ fresh]]
            <4>1. req'[r] = [req[r] EXCEPT !.stage = "commit", !.known = RowIds \ fresh]
                BY <1>1, <3>2
            <4>2. req'[r].tenant = req[r].tenant
                BY <3>1, <4>1 DEF Request
            <4> QED BY <3>1, <4>2
        <3>3. ASSUME NEW i, req' = [req EXCEPT ![r] = [@ EXCEPT !.row = i, !.was = rows[i],
                                                                !.stage = "commit"]]
              PROVE  Same
            <4>1. req'[r] = [req[r] EXCEPT !.row = i, !.was = rows[i], !.stage = "commit"]
                BY <1>1, <3>3
            <4>2. req'[r].tenant = req[r].tenant
                BY <3>1, <4>1 DEF Request
            <4> QED BY <3>1, <4>2
        <3>4. ~ End(r)
            BY <1>1 DEF End
        <3>5. PICK found : found = RowsOf(req[r].user, req[r].tenant)
            OBVIOUS
        <3>6. \/ req' = [req EXCEPT ![r] = [@ EXCEPT !.stage = "commit",
                                                     !.known = RowIds \ fresh]]
              \/ \E i \in found :
                    req' = [req EXCEPT ![r] = [@ EXCEPT !.row = i, !.was = rows[i],
                                                        !.stage = "commit"]]
            BY <2>1, <3>4, <3>5, Zenon DEF LoadMembership
        <3> QED BY <3>2, <3>3, <3>6, Zenon
    <2>2. CASE LoadTarget(r)
        <3> DEFINE me == req[r]
        <3>1. me.op # "accept" /\ me \in Request
            BY <1>1, <2>2 DEF LoadTarget, At
        <3>2. ~ End(r)
            BY <1>1 DEF End
        <3>3. \E i \in RowIds :
                 LET counts == GivesUpOwnership(me, rows[i].role)
                 IN  req' = [req EXCEPT
                          ![r] = [@ EXCEPT !.row = i, !.was = rows[i],
                                    !.todo = IF counts THEN {me.tenant} ELSE {},
                                    !.stage = IF counts THEN "count" ELSE "commit"]]
            BY <2>2, <3>2 DEF LoadTarget, WithStatus, RowsOf, Live
        <3>4. ASSUME NEW i, NEW was, NEW todo, NEW stage,
                     req' = [req EXCEPT ![r] = [@ EXCEPT !.row = i, !.was = was,
                                                         !.todo = todo, !.stage = stage]]
              PROVE  req'[r].op = me.op
            <4> DEFINE q == [me EXCEPT !.row = i, !.was = was, !.todo = todo, !.stage = stage]
            <4>1. req'[r] = q
                BY <1>1, <3>4
            <4>2. q.op = me.op
                BY <3>1 DEF Request
            <4> QED BY <4>1, <4>2
        <3>5. ASSUME NEW i \in RowIds,
                     LET counts == GivesUpOwnership(me, rows[i].role)
                     IN  req' = [req EXCEPT
                              ![r] = [@ EXCEPT !.row = i, !.was = rows[i],
                                        !.todo = IF counts THEN {me.tenant} ELSE {},
                                        !.stage = IF counts THEN "count" ELSE "commit"]]
              PROVE  req'[r].op = me.op
            <4>1. PICK was, todo, stage :
                     req' = [req EXCEPT ![r] = [@ EXCEPT !.row = i, !.was = was,
                                                         !.todo = todo, !.stage = stage]]
                BY <3>5, Zenon
            <4> QED BY <3>4, <4>1, Zenon
        <3>6. req'[r].op = me.op
            BY <3>3, <3>5, Zenon
        <3> QED BY <3>1, <3>6
    <2>3. CASE CountOwners(r)
        BY <1>1, <2>3 DEF CountOwners, At, End, Request
    <2>4. CASE LoadOwned(r) \/ CognitoDelete(r) \/ DeleteTenantMemberships(r)
        BY <1>1, <2>4 DEF LoadOwned, CognitoDelete, DeleteTenantMemberships, At, End, Request
    <2>5. CASE \/ CommitPatch(r) \/ CommitRemove(r) \/ CommitReactivate(r)
               \/ CommitAcceptInsert(r) \/ CommitAcceptUpdate(r)
               \/ CommitDeleteUser(r) \/ CommitDeleteTenant(r)
        BY <1>1, <2>5 DEF CommitPatch, CommitRemove, CommitReactivate, CommitAcceptInsert,
            CommitAcceptUpdate, CommitDeleteUser, CommitDeleteTenant, UpdateRow, End
    <2> QED BY <1>7, <2>1, <2>2, <2>3, <2>4, <2>5 DEF Continue
<1> QED BY <1>2, <1>3, <1>4, <1>5, <1>6, <1>7 DEF Next, Abort, vars

\* Where an inserted membership comes from.
LEMMA WhoInserts ==
    ASSUME IInv, [Next]_vars, NEW i \in RowIds, rows[i] = NoRow, rows'[i] # NoRow
    PROVE  \/ \E u \in Users, t \in Tenants :
                 /\ CreateTenant(u, t) /\ tenant[t] = "new" /\ rows'[i].tenant = t
                 /\ tenant' = [tenant EXCEPT ![t] = "live"]
           \/ \E r \in Requests :
                 /\ CommitAcceptInsert(r) /\ rows' # rows
                 /\ rows'[i].user = req[r].user /\ rows'[i].tenant = req[r].tenant
                 /\ req[r].op = "accept" /\ req[r].tenant \in Tenants
<1>1. rows' # rows /\ rows \in [RowIds -> Row \cup {NoRow}]
    BY DEF IInv, TypeOK
<1>2. ASSUME NEW u \in Users, NEW t \in Tenants, CreateTenant(u, t)
      PROVE  /\ tenant[t] = "new" /\ rows'[i].tenant = t
             /\ tenant' = [tenant EXCEPT ![t] = "live"]
    BY <1>1, <1>2 DEF CreateTenant, IInv, TypeOK
<1>3. ASSUME NEW r \in Requests, CommitAcceptInsert(r)
      PROVE  /\ rows'[i].user = req[r].user /\ rows'[i].tenant = req[r].tenant
             /\ req[r].op = "accept" /\ req[r].tenant \in Tenants
    <2>1. req[r].op = "accept" /\ RequestInv(req[r], rows, fresh)
        BY <1>1, <1>3, InsertEffect
    <2>2. PICK k \in fresh :
              /\ rows'[k] = [user |-> req[r].user, tenant |-> req[r].tenant,
                             role |-> req[r].role, status |-> "active"]
              /\ \A j \in RowIds : j # k => rows'[j] = rows[j]
        BY <1>1, <1>3, InsertEffect
    <2>3. k = i
        BY <2>2
    <2> QED BY <2>1, <2>2, <2>3 DEF RequestInv, AcceptInv
<1>4. ASSUME NEW r \in Requests,
             CommitPatch(r) \/ CommitRemove(r) \/ CommitReactivate(r) \/ CommitAcceptUpdate(r)
      PROVE  FALSE
    <2>1. PICK new \in Row :
            /\ req[r].row \in RowIds /\ rows[req[r].row] \in Row
            /\ rows' = [rows EXCEPT ![req[r].row] = Written(req[r], new)]
        BY <1>1, <1>4, UpdateEffect
    <2> QED BY <1>1, <2>1, NoRowFresh
<1>5. ASSUME NEW r \in Requests, CommitDeleteUser(r) \/ CommitDeleteTenant(r) PROVE FALSE
    BY <1>5 DEF CommitDeleteUser, CommitDeleteTenant
<1> QED BY <1>1, <1>2, <1>3, <1>4, <1>5, WhoWrites

\* No membership is of a tenant that does not exist yet.
LEMMA CreatedStep == ASSUME IInv, CreatedInv, [Next]_vars PROVE CreatedInv'
<1>1. ASSUME NEW i \in RowIds, rows'[i] # NoRow PROVE tenant'[rows'[i].tenant] # "new"
    <2>1. CASE rows[i] # NoRow
        <3>1. rows'[i].tenant = rows[i].tenant /\ rows[i].tenant \in Tenants
            BY <1>1, <2>1, RowsStep DEF IInv, TypeOK, Row
        <3> QED BY <2>1, <3>1, TenantsStep DEF CreatedInv, Live
    <2>2. CASE rows[i] = NoRow
        <3>1. ASSUME NEW u \in Users, NEW t \in Tenants,
                     rows'[i].tenant = t, tenant' = [tenant EXCEPT ![t] = "live"]
              PROVE  tenant'[rows'[i].tenant] # "new"
            BY <3>1 DEF IInv, TypeOK
        <3>2. ASSUME NEW r \in Requests, CommitAcceptInsert(r), rows' # rows,
                     rows'[i].tenant = req[r].tenant
              PROVE  tenant'[rows'[i].tenant] # "new"
            BY <3>2, InsertEffect, NoRowNoRequest DEF CreatedInv
        <3> QED BY <1>1, <2>2, <3>1, <3>2, WhoInserts
    <2> QED BY <2>1, <2>2
<1>2. ASSUME NEW r \in Requests, req'[r] # NoRow, req'[r].op = "accept"
      PROVE  tenant'[req'[r].tenant] # "new"
    <2>1. tenant[req'[r].tenant] # "new"
        BY <1>2, AcceptScope DEF CreatedInv
    <2>2. req'[r].tenant \in Tenants
        BY <1>2, NextStep DEF IInv, RequestInv, AcceptInv
    <2> QED BY <2>1, <2>2, TenantsStep
<1> QED BY <1>1, <1>2 DEF CreatedInv, Live

\* It holds in every reachable state.
LEMMA CreatedInvariance == Spec => []CreatedInv
<1>1. Init => CreatedInv
    BY DEF Init, CreatedInv, Live
<1>2. IInv /\ CreatedInv /\ [Next]_vars => CreatedInv'
    BY CreatedStep
<1> QED BY <1>1, <1>2, Invariance, PTL DEF Spec

\* delete_tenant takes its invitations along, so after it only another tenant's
\* invitation brings a membership.
THEOREM DeletedTenantStrays == Spec => DeletedTenantGainsOnlyStrays
<1>1. ASSUME IInv, [Next]_vars, NEW t \in Tenants, NEW i \in RowIds,
             tenant[t] = "deleted", rows[i] = NoRow, rows'[i] # NoRow, rows'[i].tenant = t
      PROVE  \E r \in Requests :
                /\ Commits(r) /\ req[r].op = "accept"
                /\ req[r].home # t /\ tenant[req[r].home] = "live"
    <2>1. PICK r \in Requests : CommitAcceptInsert(r) /\ rows' # rows
        BY <1>1, WhoInserts
    <2>2. Commits(r) /\ req[r].op = "accept" /\ tenant[req[r].home] = "live"
        BY <1>1, <2>1, InsertEffect
    <2> QED BY <1>1, <2>2
<1>2. ASSUME IInv, [Next]_vars
      PROVE  [\A t \in Tenants, i \in RowIds :
                tenant[t] = "deleted" /\ rows[i] = NoRow /\ rows'[i] # NoRow
                   /\ rows'[i].tenant = t =>
                \E r \in Requests :
                   /\ Commits(r) /\ req[r].op = "accept"
                   /\ req[r].home # t /\ tenant[req[r].home] = "live"]_vars
    BY <1>1, <1>2
<1> QED BY <1>2, Invariance, PTL DEF Spec, DeletedTenantGainsOnlyStrays

\* How a membership comes to lack its tenant: a tenant's deletion commits although
\* the row is not among those it locked, or another tenant's invitation names a
\* scope that is no tenant's.
LEMMA DanglingStep ==
    ASSUME IInv, [Next]_vars, NEW i \in RowIds, ~ Dangling(i), Dangling(i)'
    PROVE  \E r \in Requests :
              /\ Ends(r) /\ req[r] \in Request
              /\ \/ /\ CommitDeleteTenant(r) /\ rows[i] # NoRow /\ i \notin req[r].locked
                    /\ rows[i].tenant = req[r].tenant
                 \/ req[r].op = "accept" /\ req[r].home # req[r].tenant
<1>1. CASE rows[i] # NoRow
    <2>1. /\ rows'[i].tenant = rows[i].tenant /\ rows[i].tenant \in Tenants
          /\ tenant[rows[i].tenant] = "live" /\ tenant'[rows[i].tenant] # "live"
        BY <1>1, RowsStep DEF Dangling, IInv, TypeOK, Row
    <2>2. PICK r \in Requests : CommitDeleteTenant(r) /\ req[r].tenant = rows[i].tenant
        BY <2>1, TenantsStep
    <2>3. i \notin req[r].locked
        BY <2>2 DEF CommitDeleteTenant, Dangling
    <2>4. Ends(r) /\ req[r] \in Request
        BY <2>2 DEF CommitDeleteTenant, At, Ends, IInv, TypeOK
    <2> QED BY <1>1, <2>2, <2>3, <2>4
<1>2. CASE rows[i] = NoRow
    <2>1. ASSUME NEW u \in Users, NEW t \in Tenants,
                 rows'[i].tenant = t, tenant' = [tenant EXCEPT ![t] = "live"]
          PROVE  FALSE
        BY <2>1 DEF Dangling, IInv, TypeOK
    <2>2. PICK r \in Requests : /\ CommitAcceptInsert(r) /\ rows' # rows
                                /\ rows'[i].tenant = req[r].tenant
        BY <1>2, <2>1, WhoInserts DEF Dangling
    <2>3. /\ Commits(r) /\ req[r] \in Request /\ req[r].op = "accept"
          /\ tenant[req[r].home] = "live" /\ tenant' = tenant
        BY <2>2, InsertEffect
    <2>4. req[r].home # req[r].tenant
        BY <2>2, <2>3 DEF Dangling
    <2> QED BY <2>3, <2>4 DEF Commits
<1> QED BY <1>1, <1>2

\* Whatever overlaps, a membership loses its tenant only to a deletion that could
\* not have seen it, and is put without one only by another tenant's invitation.
THEOREM DanglingCauses == Spec => DanglingOnlyByOverlapOrStray
<1>1. ASSUME IInv, [Next]_vars, NEW i \in RowIds, ~ Dangling(i), Dangling(i)'
      PROVE  \E r \in Requests :
                /\ Ends(r)
                /\ \/ req[r].op = "delete_tenant" /\ i \notin req[r].known
                   \/ req[r].op = "accept" /\ req[r].home # req[r].tenant
    <2>1. PICK r \in Requests :
              /\ Ends(r) /\ req[r] \in Request
              /\ \/ /\ CommitDeleteTenant(r) /\ rows[i] # NoRow /\ i \notin req[r].locked
                    /\ rows[i].tenant = req[r].tenant
                 \/ req[r].op = "accept" /\ req[r].home # req[r].tenant
        BY <1>1, DanglingStep
    <2>2. CASE CommitDeleteTenant(r) /\ rows[i] # NoRow /\ i \notin req[r].locked
               /\ rows[i].tenant = req[r].tenant
        <3>1. req[r].op = "delete_tenant" /\ RequestInv(req[r], rows, fresh)
            BY <1>1, <2>1, <2>2, NoRowNoRequest DEF CommitDeleteTenant, At, IInv
        <3> QED BY <2>1, <2>2, <3>1 DEF RequestInv, DeleteTenantInv
    <2> QED BY <2>1, <2>2
<1>2. ASSUME IInv, [Next]_vars
      PROVE  [\A i \in RowIds : ~ Dangling(i) /\ Dangling(i)' =>
                \E r \in Requests :
                   /\ Ends(r)
                   /\ \/ req[r].op = "delete_tenant" /\ i \notin req[r].known
                      \/ req[r].op = "accept" /\ req[r].home # req[r].tenant]_vars
    BY <1>1, <1>2
<1> QED BY <1>2, Invariance, PTL DEF Spec, DanglingOnlyByOverlapOrStray

\* A second membership of a user in a scope appears only beside one the acceptance
\* could not have found.
THEOREM TwinCause == Spec => TwinOnlyByOverlap
<1>1. ASSUME IInv, CreatedInv, [Next]_vars, NEW i \in RowIds, NEW j \in RowIds,
             i # j, rows[i] = NoRow, rows'[i] # NoRow, rows'[j] # NoRow,
             rows'[i].user = rows'[j].user, rows'[i].tenant = rows'[j].tenant
      PROVE  \E r \in Requests : Commits(r) /\ req[r].op = "accept" /\ j \notin req[r].known
    <2>1. ASSUME NEW u \in Users, NEW t \in Tenants, CreateTenant(u, t), tenant[t] = "new",
                 rows'[i].tenant = t
          PROVE  FALSE
        <3>1. PICK k \in fresh :
                rows' = [rows EXCEPT ![k] = [user |-> u, tenant |-> t,
                                             role |-> "account_owner", status |-> "active"]]
            BY <2>1 DEF CreateTenant
        <3>2. k = i /\ rows'[j] = rows[j]
            BY <1>1, <3>1 DEF IInv, TypeOK
        <3> QED BY <1>1, <2>1, <3>2 DEF CreatedInv, Live
    <2>2. PICK r \in Requests : CommitAcceptInsert(r) /\ rows' # rows
        BY <1>1, <2>1, WhoInserts
    <2>3. /\ Commits(r) /\ req[r].op = "accept" /\ req[r].row = NoRow
          /\ RequestInv(req[r], rows, fresh)
        BY <1>1, <2>2, InsertEffect
    <2>4. PICK k \in fresh :
              /\ rows'[k] = [user |-> req[r].user, tenant |-> req[r].tenant,
                             role |-> req[r].role, status |-> "active"]
              /\ \A l \in RowIds : l # k => rows'[l] = rows[l]
        BY <1>1, <2>2, InsertEffect
    <2>5. k = i
        BY <1>1, <2>4
    <2>6. /\ rows[j] # NoRow
          /\ rows[j].user = req[r].user /\ rows[j].tenant = req[r].tenant
        BY <1>1, <2>4, <2>5
    <2> QED BY <2>3, <2>6 DEF RequestInv, AcceptInv
<1>2. ASSUME IInv, CreatedInv, [Next]_vars
      PROVE  [\A i, j \in RowIds :
                /\ i # j /\ rows[i] = NoRow /\ rows'[i] # NoRow /\ rows'[j] # NoRow
                /\ rows'[i].user = rows'[j].user /\ rows'[i].tenant = rows'[j].tenant
                => \E r \in Requests :
                      Commits(r) /\ req[r].op = "accept" /\ j \notin req[r].known]_vars
    BY <1>1, <1>2
<1> QED BY <1>2, Invariance, CreatedInvariance, PTL DEF Spec, TwinOnlyByOverlap

-----------------------------------------------------------------------------
(* The last owner *)

\* An owner row a step leaves an active owner row keeps the tenant owned.
LEMMA Survives ==
    ASSUME NEW t \in Tenants, NEW i \in Owners(t), rows'[i].tenant = t, IsOwner(rows'[i])
    PROVE  ~ Orphaned(t)
    BY DEF Orphaned, Owners, Live, IsOwner

\* An owner row the step leaves alone keeps its tenant from being orphaned.
LEMMA SurvivesUntouched ==
    ASSUME NEW t \in Tenants, NEW i \in Owners(t), rows'[i] = rows[i]
    PROVE  ~ Orphaned(t)
    BY Survives DEF Owners

\* What the theorem says of the one step.
Excused(r, t) ==
    \/ Stale(r, t)
    \/ req[r].op = "delete_user" /\ OwnsTwice(t)
    \/ /\ req[r].op = "accept"
       /\ ~ permissions_for_role(req[r].role) \subseteq permissions_for_role(req[r].was.role)

\* An UPDATE that orphans a tenant is one of the excused commits.
LEMMA UpdateOrphans ==
    ASSUME IInv, [Next]_vars, NEW t \in Tenants, NEW r \in Requests, Orphaned(t), rows' # rows,
           CommitPatch(r) \/ CommitRemove(r) \/ CommitReactivate(r) \/ CommitAcceptUpdate(r)
    PROVE  Commits(r) /\ Excused(r, t)
<1> DEFINE me == req[r]
           i  == me.row
<1>1. PICK new \in Row :
        /\ me \in Request /\ RequestInv(me, rows, fresh) /\ me.stage = "commit"
        /\ me.op \in {"patch", "remove", "reactivate", "accept"}
        /\ Loaded(me, rows, fresh)
        /\ i \in RowIds /\ rows[i] \in Row /\ rows[i].tenant = me.tenant
        /\ rows' = [rows EXCEPT ![i] = Written(me, new)]
        /\ req' = [req EXCEPT ![r] = NoRow]
        /\ me.op = "patch" => new = [me.was EXCEPT !.role = me.role]
        /\ me.op = "accept" => new = [me.was EXCEPT !.role = RoleAfterAccept(@, me.role),
                                                    !.status = "active"]
    BY UpdateEffect
<1>2. rows'[i] = Written(me, new) /\ (\A j \in RowIds : j # i => rows'[j] = rows[j])
    BY <1>1 DEF IInv, TypeOK
<1>3. Commits(r)
    BY <1>1, NoRowNoRequest DEF Commits, Ends, IInv, TypeOK
<1>4. \A j \in Owners(t) : j = i
    BY <1>2, SurvivesUntouched DEF Owners, Live
<1>5. i \in Owners(t) /\ t = me.tenant
    BY <1>1, <1>4 DEF Orphaned, Owners
<1>6. rows[i].role \in OwnerRoles /\ rows[i].status = "active"
    BY <1>5 DEF Owners, IsOwner
<1>7. SUFFICES ASSUME ~ Excused(r, t) PROVE FALSE
    BY <1>3
<1>8. rows[i] = me.was
    BY <1>1, <1>7, NoRowFresh DEF Excused, Stale
<1>9. ~ Several(me.seen[t])
    BY <1>4, <1>7 DEF Excused, Stale, Several
<1>10. /\ Written(me, new).tenant = t
       /\ Written(me, new).role = IF new.role # me.was.role THEN new.role ELSE rows[i].role
       /\ Written(me, new).status = IF new.status # me.was.status THEN new.status
                                                              ELSE rows[i].status
    BY <1>1, <1>5, WrittenKeeps
<1>11. Written(me, new) # NoRow
    BY <1>1, WrittenKeeps, NoRowFresh
<1>12. CASE me.op \in {"patch", "remove"}
    <2>1. ~ GivesUpOwnership(me, me.was.role)
        BY <1>1, <1>5, <1>9, <1>12 DEF RequestInv, ManageInv
    <2>2. me.op = "patch" /\ me.role \in OwnerRoles
        BY <1>6, <1>8, <1>12, <2>1 DEF GivesUpOwnership
    <2>3. new.role = me.role /\ new.status = me.was.status
        BY <1>1, <2>2 DEF Loaded, Row
    <2>4. IsOwner(Written(me, new))
        BY <1>6, <1>10, <1>11, <2>2, <2>3 DEF IsOwner
    <2> QED BY <1>2, <1>5, <1>10, <2>4, Survives
<1>13. CASE me.op = "reactivate"
    BY <1>1, <1>6, <1>8, <1>13 DEF RequestInv, ManageInv
<1>14. CASE me.op = "accept"
    <2>1. RoleAfterAccept(me.was.role, me.role) = me.was.role
        BY <1>7, <1>14 DEF Excused, RoleAfterAccept
    <2>2. new.role = me.was.role /\ new.status = "active"
        BY <1>1, <1>14, <2>1 DEF Loaded, Row
    <2>3. IsOwner(Written(me, new))
        BY <1>6, <1>10, <1>11, <2>2 DEF IsOwner
    <2> QED BY <1>2, <1>5, <1>10, <2>3, Survives
<1> QED BY <1>1, <1>12, <1>13, <1>14

\* A delete_user that orphans a tenant is one of the excused commits.
LEMMA DeleteUserOrphans ==
    ASSUME IInv, NEW t \in Tenants, NEW r \in Requests, Orphaned(t), CommitDeleteUser(r)
    PROVE  Commits(r) /\ Excused(r, t)
<1> DEFINE me == req[r]
<1>1. /\ me \in Request /\ RequestInv(me, rows, fresh)
      /\ me.op = "delete_user" /\ me.stage = "commit"
    BY DEF CommitDeleteUser, At, IInv, TypeOK
<1>2. \A j \in RowIds : rows[j] # NoRow /\ rows[j].user # me.user => rows'[j] = rows[j]
    BY DEF CommitDeleteUser
<1>3. \A j \in Owners(t) : rows[j].user = me.user
    BY <1>2, SurvivesUntouched DEF Owners, Live
<1>4. PICK j \in Owners(t) : TRUE
    BY DEF Orphaned
<1>5. j \in RowIds /\ rows[j] # NoRow /\ rows[j].tenant = t /\ IsOwner(rows[j])
    BY DEF Owners, Live
<1>6. rows'[j] = NoRow
    BY <1>3, <1>5 DEF CommitDeleteUser, Live
<1>7. Commits(r)
    BY <1>1, <1>5, <1>6, NoRowNoRequest DEF Commits, Ends, CommitDeleteUser, IInv, TypeOK
<1>8. SUFFICES ASSUME ~ Stale(r, t) PROVE OwnsTwice(t)
    BY <1>1, <1>7 DEF Excused
<1>9. j \in me.owned
    BY <1>1, <1>3, <1>5, <1>8 DEF Stale, OwnerRowsOf, Live
<1>10. Several(me.seen[t])
    BY <1>1, <1>5, <1>9 DEF RequestInv, DeleteUserInv
<1>11. Several(Owners(t))
    BY <1>8, <1>10 DEF Stale, Several
<1> QED BY <1>3, <1>11 DEF OwnsTwice, Several

\* Only a commit of Excused orphans a tenant.
LEMMA OrphanStep ==
    ASSUME IInv, [Next]_vars, NEW t \in Tenants, Orphaned(t)
    PROVE  \E r \in Requests :
              /\ Commits(r) /\ Excused(r, t)
              /\ req[r].op = "delete_user" => CommitDeleteUser(r)
<1>1. rows' # rows
    BY SurvivesUntouched DEF Orphaned
<1>2. PICK i \in Owners(t) : TRUE
    BY DEF Orphaned
<1>3. i \in RowIds \ fresh /\ rows[i] # NoRow /\ rows[i].tenant = t
    BY DEF Owners, Live, IInv, FreshIsEmpty
<1>4. rows'[i] # rows[i]
    BY SurvivesUntouched
<1>5. ASSUME NEW u \in Users, NEW s \in Tenants, CreateTenant(u, s) PROVE FALSE
    BY <1>3, <1>4, <1>5 DEF CreateTenant, IInv, TypeOK
<1>6. ASSUME NEW r \in Requests, CommitAcceptInsert(r) PROVE FALSE
    BY <1>3, <1>4, <1>6 DEF CommitAcceptInsert, End, IInv, TypeOK
<1>7. ASSUME NEW r \in Requests, CommitDeleteTenant(r) PROVE FALSE
    <2>1. req[r].tenant \in Tenants /\ \A j \in req[r].locked :
                                          rows[j] # NoRow => rows[j].tenant = req[r].tenant
        BY <1>7 DEF CommitDeleteTenant, At, IInv, RequestInv, DeleteTenantInv
    <2>2. i \in req[r].locked
        BY <1>3, <1>4, <1>7 DEF CommitDeleteTenant
    <2>3. tenant'[t] = "deleted"
        BY <1>3, <1>7, <2>1, <2>2 DEF CommitDeleteTenant, IInv, TypeOK
    <2> QED BY <2>3 DEF Orphaned
<1>8. ASSUME NEW r \in Requests,
             CommitPatch(r) \/ CommitRemove(r) \/ CommitReactivate(r) \/ CommitAcceptUpdate(r)
      PROVE  Commits(r) /\ Excused(r, t) /\ req[r].op # "delete_user"
    BY <1>1, <1>8, UpdateOrphans
       DEF CommitPatch, CommitRemove, CommitReactivate, CommitAcceptUpdate, At
<1>9. ASSUME NEW r \in Requests, CommitDeleteUser(r) PROVE Commits(r) /\ Excused(r, t)
    BY <1>9, DeleteUserOrphans
<1> QED BY <1>1, <1>5, <1>6, <1>7, <1>8, <1>9, WhoWrites

\* A live tenant loses its last owner only to a commit whose own checks were
\* overtaken by another one, to a user counted twice, or to an acceptance for
\* a role with a permission the owner's role lacks.
THEOREM LastOwner == Spec => OrphanedOnlyByRaceOrDowngrade
<1>1. ASSUME IInv, [Next]_vars
      PROVE  [\A t \in Tenants : Orphaned(t) =>
                \E r \in Requests :
                   /\ Commits(r)
                   /\ \/ Stale(r, t)
                      \/ req[r].op = "delete_user" /\ OwnsTwice(t)
                      \/ /\ req[r].op = "accept"
                         /\ ~ permissions_for_role(req[r].role)
                                \subseteq permissions_for_role(req[r].was.role)]_vars
    BY <1>1, OrphanStep DEF Excused
<1> QED BY <1>1, Invariance, PTL DEF Spec, OrphanedOnlyByRaceOrDowngrade
-----------------------------------------------------------------------------
(* One request at a time *)

\* Requests do not overlap: there is one slot for all of them.
OneAtATime == \A r, s \in Requests : r = s

NoTwin ==
    \A i, j \in Live : rows[i].user = rows[j].user /\ rows[i].tenant = rows[j].tenant => i = j

\* What a request that runs alone has read is still so.
Current(me, tbl, usr, ten) ==
    /\ me.op = "accept" => ten[me.home] = "live"
    /\ me.op = "delete_tenant" => ten[me.tenant] = "live"
    /\ me.op = "accept" /\ me.stage = "commit" /\ me.row = NoRow =>
          \A i \in RowIds : tbl[i] # NoRow =>
              ~ (tbl[i].user = me.user /\ tbl[i].tenant = me.tenant)
    /\ me.op = "delete_tenant" /\ me.stage = "commit" =>
          \A i \in RowIds : tbl[i] # NoRow /\ tbl[i].tenant = me.tenant => i \in me.locked
    /\ me.op = "delete_user" => usr[me.user] = "live"
    /\ me.op = "delete_user" /\ me.stage # "load" =>
          me.owned = {i \in RowIds : tbl[i] # NoRow /\ tbl[i].user = me.user /\ IsOwner(tbl[i])}
    /\ me.row # NoRow => me.row \in RowIds /\ tbl[me.row] # NoRow /\ tbl[me.row] = me.was
    /\ me.row # NoRow /\ me.op \in {"patch", "remove"} => me.was.status = "active"
    /\ \A t \in Tenants : me.seen[t] # {} =>
          me.seen[t] = {i \in RowIds : tbl[i] # NoRow /\ tbl[i].tenant = t /\ IsOwner(tbl[i])}

SerialInv ==
    /\ NoTwin
    /\ \A r \in Requests : req[r] # NoRow => Current(req[r], rows, user, tenant)

\* A step that only replaces the request in slot r by q.
LEMMA SerialQuietStep ==
    ASSUME IInv, SerialInv, NEW r \in Requests, NEW q \in Request \cup {NoRow},
           req' = [req EXCEPT ![r] = q], q # NoRow => Current(q, rows, user, tenant),
           UNCHANGED <<rows, fresh, user, tenant>>
    PROVE  SerialInv'
<1>1. NoTwin'
    BY DEF SerialInv, NoTwin, Live
<1>2. ASSUME NEW s \in Requests, req'[s] # NoRow PROVE Current(req'[s], rows', user', tenant')
    BY <1>2 DEF SerialInv, IInv, TypeOK
<1> QED BY <1>1, <1>2 DEF SerialInv

\* A request that ends without writing, or is lost.
LEMMA SerialEndStep ==
    ASSUME IInv, SerialInv, NEW r \in Requests, End(r) PROVE SerialInv'
    BY SerialQuietStep DEF End

\* A request that starts has read nothing; a deletion starts on a live tenant, an
\* acceptance on the invitation of one.
LEMMA SerialBeginStep ==
    ASSUME IInv, SerialInv, NEW r \in Requests, Begin(r) PROVE SerialInv'
<1>1. PICK op \in Ops, u \in Users \cup {NoRow}, home \in Tenants \cup {NoRow},
           t \in Tenants \cup {NoRow}, role \in RoleNames \cup {"none"},
           actor \in RoleNames \cup {"none", "super"} :
        /\ req' = [req EXCEPT ![r] = NewRequest(op, u, home, t, role, actor)]
        /\ UNCHANGED <<rows, fresh, user, tenant>>
        /\ op = "accept" => tenant[home] = "live"
        /\ op = "delete_tenant" => tenant[t] = "live"
        /\ op = "delete_user" => user[u] = "live"
    <2>1. PICK a \in Users \cup Admins, u \in Users, t \in Tenants :
            \/ \E op \in {"patch", "remove", "reactivate"}, role \in PatchRoles \cup {"none"} :
                  StartManage(r, a, op, u, t, role)
            \/ StartDeleteTenant(r, a, t)
            \/ StartDeleteUser(r, a, u)
            \/ \E home \in Tenants, role \in InviteRoles : StartAccept(r, u, home, t, role)
        BY DEF Begin
    <2>2. CASE \E op \in {"patch", "remove", "reactivate"}, role \in PatchRoles \cup {"none"} :
                  StartManage(r, a, op, u, t, role)
        <3>1. PICK op \in {"patch", "remove", "reactivate"}, role \in PatchRoles \cup {"none"} :
                  StartManage(r, a, op, u, t, role)
            BY <2>2
        <3>2. PICK actor \in ActorRoles(a, t) :
                  Start(r, NewRequest(op, u, NoRow, t, role, IF op = "patch" THEN actor ELSE "none"))
            BY <3>1 DEF StartManage
        <3>3. actor \in RoleNames \cup {"super"}
            BY DEF ActorRoles, IInv, TypeOK, Live, RowsOf, WithStatus, Row
        <3> DEFINE named == IF op = "patch" THEN actor ELSE "none"
        <3>4. /\ role \in RoleNames \cup {"none"} /\ op \in Ops
              /\ op \notin {"accept", "delete_tenant", "delete_user"}
              /\ named \in RoleNames \cup {"none", "super"}
            BY <3>3, RolesKnown DEF RoleNames, Ops
        <3>5. /\ req' = [req EXCEPT ![r] = NewRequest(op, u, NoRow, t, role, named)]
              /\ UNCHANGED <<rows, fresh, user, tenant>>
            BY <3>2 DEF Start
        <3> HIDE DEF named
        <3> QED BY <3>4, <3>5
    <2>3. CASE StartDeleteTenant(r, a, t)
        BY <2>3 DEF StartDeleteTenant, Start, Ops
    <2>4. CASE StartDeleteUser(r, a, u)
        BY <2>4 DEF StartDeleteUser, Start, Ops
    <2>5. CASE \E home \in Tenants, role \in InviteRoles : StartAccept(r, u, home, t, role)
        <3>1. PICK home \in Tenants, role \in InviteRoles : StartAccept(r, u, home, t, role)
            BY <2>5
        <3>2. role \in RoleNames
            BY RolesKnown
        <3> QED BY <3>1, <3>2 DEF StartAccept, Start, Ops
    <2> QED BY <2>1, <2>2, <2>3, <2>4, <2>5
<1> DEFINE q == NewRequest(op, u, home, t, role, actor)
<1>2. q \in Request
    BY NewRequestType
<1>3. Current(q, rows, user, tenant)
    BY <1>1 DEF Current, NewRequest
<1>4. req' = [req EXCEPT ![r] = q] /\ UNCHANGED <<rows, fresh, user, tenant>>
    BY <1>1
<1> HIDE DEF q
<1> QED BY <1>2, <1>3, <1>4, SerialQuietStep

\* What a management request loads is the row as it stands.
LEMMA SerialLoadTargetStep ==
    ASSUME IInv, SerialInv, NEW r \in Requests, LoadTarget(r) PROVE SerialInv'
<1> DEFINE me == req[r]
<1>1. me \in Request /\ me.op \in {"patch", "remove", "reactivate"}
      /\ Current(me, rows, user, tenant) /\ me.tenant \in Tenants
    BY DEF LoadTarget, At, IInv, TypeOK, SerialInv, RequestInv, ManageInv
<1>2. End(r) \/
      \E i \in RowIds, todo \in SUBSET Tenants, stage \in Stages :
         /\ rows[i] # NoRow /\ (me.op \in {"patch", "remove"} => rows[i].status = "active")
         /\ req' = [req EXCEPT ![r] = [me EXCEPT !.row = i, !.was = rows[i],
                                                 !.todo = todo, !.stage = stage]]
         /\ UNCHANGED <<rows, fresh, user, tenant>>
    <2> DEFINE found == WithStatus(RowsOf(me.user, me.tenant),
                                   IF me.op = "reactivate" THEN "removed" ELSE "active")
               todo(i)  == IF GivesUpOwnership(me, rows[i].role) THEN {me.tenant} ELSE {}
               stage(i) == IF GivesUpOwnership(me, rows[i].role) THEN "count" ELSE "commit"
    <2>1. CASE End(r)
        BY <2>1
    <2>2. CASE ~ End(r)
        <3>1. PICK i \in found :
                /\ req' = [req EXCEPT ![r] = [@ EXCEPT !.row = i, !.was = rows[i],
                                                       !.todo = todo(i), !.stage = stage(i)]]
                /\ UNCHANGED <<rows, fresh, user, tenant>>
            BY <2>2 DEF LoadTarget
        <3>2. /\ i \in RowIds /\ rows[i] # NoRow
              /\ me.op \in {"patch", "remove"} => rows[i].status = "active"
            BY DEF WithStatus, RowsOf, Live
        <3>3. todo(i) \in SUBSET Tenants /\ stage(i) \in Stages
            BY <1>1 DEF Stages
        <3>4. req' = [req EXCEPT ![r] = [me EXCEPT !.row = i, !.was = rows[i],
                                                   !.todo = todo(i), !.stage = stage(i)]]
            BY <3>1 DEF IInv, TypeOK
        <3> HIDE DEF todo, stage
        <3> QED BY <3>1, <3>2, <3>3, <3>4
    <2> QED BY <2>1, <2>2
<1>3. ASSUME NEW i \in RowIds, NEW todo \in SUBSET Tenants, NEW stage \in Stages,
             rows[i] # NoRow, me.op \in {"patch", "remove"} => rows[i].status = "active",
             req' = [req EXCEPT ![r] = [me EXCEPT !.row = i, !.was = rows[i],
                                                  !.todo = todo, !.stage = stage]],
             UNCHANGED <<rows, fresh, user, tenant>>
      PROVE  SerialInv'
    <2> DEFINE q == [me EXCEPT !.row = i, !.was = rows[i], !.todo = todo, !.stage = stage]
    <2>1. q \in Request
        BY <1>1, <1>3 DEF Request, IInv, TypeOK
    <2>2. q.op = me.op /\ q.row = i /\ q.was = rows[i] /\ q.seen = me.seen
        BY <1>1 DEF Request
    <2>3. req' = [req EXCEPT ![r] = q]
        BY <1>3
    <2> HIDE DEF q
    <2>4. Current(q, rows, user, tenant)
        BY <1>1, <1>3, <2>2 DEF Current
    <2> QED BY <1>3, <2>1, <2>3, <2>4, SerialQuietStep
<1> QED BY <1>2, <1>3, SerialEndStep

\* A count keeps the owners it saw.
LEMMA SerialCountOwnersStep ==
    ASSUME IInv, SerialInv, NEW r \in Requests, CountOwners(r) PROVE SerialInv'
<1> DEFINE me == req[r]
<1>1. me \in Request /\ me.op \in {"patch", "remove", "delete_user"} /\ me.stage = "count"
      /\ Current(me, rows, user, tenant)
    BY DEF CountOwners, At, IInv, TypeOK, SerialInv
<1>2. End(r) \/
      \E t \in Tenants, todo \in SUBSET Tenants, stage \in Stages :
         /\ req' = [req EXCEPT ![r] = [me EXCEPT !.seen[t] = Owners(t), !.todo = todo,
                                                 !.stage = stage]]
         /\ UNCHANGED <<rows, fresh, user, tenant>>
    <2>1. PICK t \in me.todo :
            \/ End(r)
            \/ LET left == me.todo \ {t}
               IN  /\ req' = [req EXCEPT
                         ![r] = [@ EXCEPT !.seen[t] = Owners(t), !.todo = left,
                                   !.stage = IF left # {} THEN "count"
                                             ELSE IF me.op = "delete_user" THEN "cognito"
                                             ELSE "commit"]]
                   /\ UNCHANGED <<rows, fresh, user, tenant>>
        BY DEF CountOwners
    <2>2. t \in Tenants /\ me.todo \ {t} \in SUBSET Tenants
        BY <1>1 DEF Request
    <2> QED BY <2>1, <2>2 DEF Stages
<1>3. ASSUME NEW t \in Tenants, NEW todo \in SUBSET Tenants, NEW stage \in Stages,
             req' = [req EXCEPT ![r] = [me EXCEPT !.seen[t] = Owners(t), !.todo = todo,
                                                  !.stage = stage]],
             UNCHANGED <<rows, fresh, user, tenant>>
      PROVE  SerialInv'
    <2> DEFINE seen == [me.seen EXCEPT ![t] = Owners(t)]
               q    == [me EXCEPT !.seen = seen, !.todo = todo, !.stage = stage]
    <2>1. seen \in [Tenants -> SUBSET RowIds]
        BY <1>1 DEF Request, Owners, Live
    <2>2. \A s \in Tenants : seen[s] = IF s = t THEN Owners(t) ELSE me.seen[s]
        BY <1>1 DEF Request
    <2>3. [me EXCEPT !.seen[t] = Owners(t), !.todo = todo, !.stage = stage] = q
        BY <1>1 DEF Request
    <2> HIDE DEF seen
    <2>4. q \in Request
        BY <1>1, <2>1 DEF Request
    <2>5. /\ q.op = me.op /\ q.user = me.user /\ q.row = me.row /\ q.was = me.was
          /\ q.owned = me.owned /\ q.seen = seen
        BY <1>1 DEF Request
    <2>6. req' = [req EXCEPT ![r] = q]
        BY <1>3, <2>3
    <2> HIDE DEF q
    <2>7. \A s \in Tenants : q.seen[s] # {} =>
             q.seen[s] = {i \in RowIds : rows[i] # NoRow /\ rows[i].tenant = s
                                         /\ IsOwner(rows[i])}
        <3> SUFFICES ASSUME NEW s \in Tenants, q.seen[s] # {}
                     PROVE  q.seen[s] = {i \in RowIds : rows[i] # NoRow /\ rows[i].tenant = s
                                                        /\ IsOwner(rows[i])}
            OBVIOUS
        <3>1. CASE s = t
            BY <2>2, <2>5, <3>1 DEF Owners, Live
        <3>2. CASE s # t
            <4>1. q.seen[s] = me.seen[s]
                BY <2>2, <2>5, <3>2
            <4> QED BY <1>1, <4>1 DEF Current
        <3> QED BY <3>1, <3>2
    <2>8. Current(q, rows, user, tenant)
        BY <1>1, <2>5, <2>7 DEF Current
    <2> QED BY <1>3, <2>4, <2>6, <2>8, SerialQuietStep
<1> QED BY <1>2, <1>3, SerialEndStep

\* An acceptance finds no membership, or the row as it stands.
LEMMA SerialLoadMembershipStep ==
    ASSUME IInv, SerialInv, NEW r \in Requests, LoadMembership(r) PROVE SerialInv'
<1> DEFINE me == req[r]
           found == RowsOf(me.user, me.tenant)
<1>1. me \in Request /\ me.op = "accept" /\ Current(me, rows, user, tenant)
    BY DEF LoadMembership, At, IInv, TypeOK, SerialInv
<1>2. \/ End(r)
      \/ /\ found = {}
         /\ req' = [req EXCEPT ![r] = [@ EXCEPT !.stage = "commit", !.known = RowIds \ fresh]]
         /\ UNCHANGED <<rows, fresh, user, tenant>>
      \/ /\ \E i \in found : req' = [req EXCEPT ![r] = [@ EXCEPT !.row = i, !.was = rows[i],
                                                                 !.stage = "commit"]]
         /\ UNCHANGED <<rows, fresh, user, tenant>>
    BY DEF LoadMembership
<1>3. CASE /\ found = {}
           /\ req' = [req EXCEPT ![r] = [@ EXCEPT !.stage = "commit", !.known = RowIds \ fresh]]
           /\ UNCHANGED <<rows, fresh, user, tenant>>
    <2> DEFINE q == [me EXCEPT !.stage = "commit", !.known = RowIds \ fresh]
    <2>1. q \in Request
        BY <1>1 DEF Request, Stages
    <2>2. /\ q.op = me.op /\ q.user = me.user /\ q.tenant = me.tenant /\ q.home = me.home /\ q.row = me.row
          /\ q.was = me.was /\ q.seen = me.seen
        BY <1>1 DEF Request
    <2>3. req' = [req EXCEPT ![r] = q]
        BY <1>3
    <2> HIDE DEF q
    <2>4. Current(q, rows, user, tenant)
        BY <1>1, <1>3, <2>2 DEF Current, RowsOf, Live
    <2> QED BY <1>3, <2>1, <2>3, <2>4, SerialQuietStep
<1>4. ASSUME NEW i \in found,
             req' = [req EXCEPT ![r] = [@ EXCEPT !.row = i, !.was = rows[i],
                                                 !.stage = "commit"]],
             UNCHANGED <<rows, fresh, user, tenant>>
      PROVE  SerialInv'
    <2> DEFINE q == [me EXCEPT !.row = i, !.was = rows[i], !.stage = "commit"]
    <2>1. i \in RowIds /\ rows[i] # NoRow /\ rows[i] \in Row /\ i # NoRow
        BY NoRowFresh DEF RowsOf, Live, IInv, TypeOK
    <2>2. q \in Request
        BY <1>1, <2>1 DEF Request, Stages
    <2>3. /\ q.op = me.op /\ q.tenant = me.tenant /\ q.home = me.home /\ q.row = i
          /\ q.was = rows[i] /\ q.seen = me.seen
        BY <1>1 DEF Request
    <2>4. req' = [req EXCEPT ![r] = q]
        BY <1>4
    <2> HIDE DEF q
    <2>5. Current(q, rows, user, tenant)
        BY <1>1, <2>1, <2>3 DEF Current
    <2> QED BY <1>4, <2>2, <2>4, <2>5, SerialQuietStep
<1> QED BY <1>2, <1>3, <1>4, SerialEndStep

\* delete_user reads the owner rows and calls Cognito; the table stays.
LEMMA SerialDeleteUserStep ==
    ASSUME IInv, SerialInv, NEW r \in Requests, LoadOwned(r) \/ CognitoDelete(r)
    PROVE  SerialInv'
<1> DEFINE me == req[r]
           holds == {i \in RowIds : rows[i] # NoRow /\ rows[i].user = me.user
                                   /\ IsOwner(rows[i])}
<1>1. me \in Request /\ me.op = "delete_user" /\ Current(me, rows, user, tenant)
    BY DEF LoadOwned, CognitoDelete, At, IInv, TypeOK, SerialInv
<1>2. \/ End(r)
      \/ \E owned \in {holds}, todo \in SUBSET Tenants, stage \in Stages :
            /\ req' = [req EXCEPT ![r] = [me EXCEPT !.owned = owned, !.todo = todo,
                                                    !.stage = stage]]
            /\ UNCHANGED <<rows, fresh, user, tenant>>
    <2>1. CASE LoadOwned(r)
        <3> DEFINE owned == OwnerRowsOf(me.user)
                   todo  == {rows[i].tenant : i \in owned}
                   stage == IF todo = {} THEN "cognito" ELSE "count"
        <3>1. owned = holds /\ todo \in SUBSET Tenants /\ stage \in Stages
            BY DEF OwnerRowsOf, Live, IInv, TypeOK, Row, Stages
        <3>2. /\ req' = [req EXCEPT ![r] = [me EXCEPT !.owned = owned, !.todo = todo,
                                                      !.stage = stage]]
              /\ UNCHANGED <<rows, fresh, user, tenant>>
            BY <2>1 DEF LoadOwned, IInv, TypeOK
        <3> HIDE DEF owned, todo, stage, holds
        <3> QED BY <3>1, <3>2
    <2>2. CASE CognitoDelete(r)
        <3>1. [me EXCEPT !.stage = "commit"] =
                 [me EXCEPT !.owned = me.owned, !.todo = me.todo, !.stage = "commit"]
            BY <1>1 DEF Request
        <3>2. me.owned = holds /\ me.todo \in SUBSET Tenants /\ "commit" \in Stages
            BY <1>1, <2>2 DEF Request, Stages, Current, CognitoDelete, At
        <3>3. \/ End(r)
              \/ /\ req' = [req EXCEPT ![r] = [me EXCEPT !.stage = "commit"]]
                 /\ UNCHANGED <<rows, fresh, user, tenant>>
            BY <2>2 DEF CognitoDelete
        <3>4. CASE End(r)
            BY <3>4
        <3>5. CASE /\ req' = [req EXCEPT ![r] = [me EXCEPT !.stage = "commit"]]
                   /\ UNCHANGED <<rows, fresh, user, tenant>>
            <4>1. PICK owned \in {holds} : owned = me.owned
                BY <3>2
            <4>2. PICK todo \in SUBSET Tenants : todo = me.todo
                BY <3>2
            <4>3. PICK stage \in Stages : stage = "commit"
                BY <3>2
            <4>4. req' = [req EXCEPT ![r] = [me EXCEPT !.owned = owned, !.todo = todo,
                                                       !.stage = stage]]
                BY <3>1, <3>5, <4>1, <4>2, <4>3
            <4> QED BY <3>5, <4>4
        <3> QED BY <3>3, <3>4, <3>5
    <2> QED BY <2>1, <2>2
<1>3. ASSUME NEW owned \in {holds}, NEW todo \in SUBSET Tenants, NEW stage \in Stages,
             req' = [req EXCEPT ![r] = [me EXCEPT !.owned = owned, !.todo = todo,
                                                  !.stage = stage]],
             UNCHANGED <<rows, fresh, user, tenant>>
      PROVE  SerialInv'
    <2> DEFINE q == [me EXCEPT !.owned = owned, !.todo = todo, !.stage = stage]
    <2>1. q \in Request
        BY <1>1 DEF Request
    <2>2. /\ q.op = me.op /\ q.user = me.user /\ q.row = me.row /\ q.was = me.was
          /\ q.owned = holds /\ q.seen = me.seen
        BY <1>1 DEF Request
    <2>3. req' = [req EXCEPT ![r] = q]
        BY <1>3
    <2> HIDE DEF q
    <2>4. Current(q, rows, user, tenant)
        BY <1>1, <2>2 DEF Current
    <2> QED BY <1>3, <2>1, <2>3, <2>4, SerialQuietStep
<1> QED BY <1>2, <1>3, SerialEndStep

\* delete_tenant locks every row of its tenant.
LEMMA SerialDeleteTenantStep ==
    ASSUME IInv, SerialInv, NEW r \in Requests, DeleteTenantMemberships(r) PROVE SerialInv'
<1> DEFINE me == req[r]
           doomed == {i \in Live : rows[i].tenant = me.tenant}
           q == [me EXCEPT !.stage = "commit", !.locked = doomed, !.known = RowIds \ fresh]
<1>1. me \in Request /\ me.op = "delete_tenant" /\ Current(me, rows, user, tenant)
    BY DEF DeleteTenantMemberships, At, IInv, TypeOK, SerialInv
<1>2. req' = [req EXCEPT ![r] = q] /\ UNCHANGED <<rows, fresh, user, tenant>>
    BY DEF DeleteTenantMemberships
<1>3. doomed \in SUBSET RowIds /\ \A i \in RowIds :
          rows[i] # NoRow /\ rows[i].tenant = me.tenant => i \in doomed
    BY DEF Live
<1> HIDE DEF doomed
<1>4. q \in Request
    BY <1>1, <1>3 DEF Request, Stages
<1>5. /\ q.op = me.op /\ q.tenant = me.tenant /\ q.row = me.row /\ q.was = me.was
      /\ q.seen = me.seen /\ q.locked = doomed
    BY <1>1 DEF Request
<1> HIDE DEF q
<1>6. Current(q, rows, user, tenant)
    BY <1>1, <1>3, <1>5 DEF Current
<1> QED BY <1>2, <1>4, <1>6, SerialQuietStep

\* The commit of the only request leaves the slots free.
LEMMA SlotsFree ==
    ASSUME IInv, OneAtATime, NEW r \in Requests, req' = [req EXCEPT ![r] = NoRow]
    PROVE  \A s \in Requests : req'[s] = NoRow
    BY DEF OneAtATime, IInv, TypeOK

\* A step that inserts no membership makes no twin.
LEMMA SerialRemains ==
    ASSUME SerialInv, \A s \in Requests : req'[s] = NoRow,
           \A i \in RowIds : rows'[i] # NoRow =>
               /\ rows[i] # NoRow
               /\ rows'[i].user = rows[i].user /\ rows'[i].tenant = rows[i].tenant
    PROVE  SerialInv'
    BY DEF SerialInv, NoTwin, Live

\* The commits that rewrite one membership.
LEMMA SerialUpdateStep ==
    ASSUME IInv, SerialInv, OneAtATime, NEW r \in Requests,
           CommitPatch(r) \/ CommitRemove(r) \/ CommitReactivate(r) \/ CommitAcceptUpdate(r)
    PROVE  SerialInv'
<1>1. req' = [req EXCEPT ![r] = NoRow]
    BY DEF CommitPatch, CommitRemove, CommitReactivate, CommitAcceptUpdate, UpdateRow, End
<1>2. CASE UNCHANGED <<rows, fresh, user, tenant>>
    BY <1>1, <1>2, SerialEndStep DEF End
<1>3. CASE ~ UNCHANGED <<rows, fresh, user, tenant>>
    <2>1. PICK new \in Row :
            /\ req[r].row \in RowIds /\ rows[req[r].row] \in Row
            /\ rows' = [rows EXCEPT ![req[r].row] = Written(req[r], new)]
        BY <1>3, UpdateEffect
    <2>2. \A i \in RowIds : rows'[i] # NoRow =>
             /\ rows[i] # NoRow
             /\ rows'[i].user = rows[i].user /\ rows'[i].tenant = rows[i].tenant
        BY <2>1, WrittenKeeps, NoRowFresh DEF IInv, TypeOK
    <2> QED BY <1>1, <2>2, SlotsFree, SerialRemains
<1> QED BY <1>2, <1>3

\* An acceptance that found no membership still finds none.
LEMMA SerialInsertStep ==
    ASSUME IInv, SerialInv, OneAtATime, NEW r \in Requests, CommitAcceptInsert(r)
    PROVE  SerialInv'
<1> DEFINE me == req[r]
<1>1. CASE End(r)
    BY <1>1, SerialEndStep
<1>2. CASE ~ End(r)
    <2>1. PICK i \in fresh :
            /\ rows' = [rows EXCEPT ![i] = [user |-> me.user, tenant |-> me.tenant,
                                            role |-> me.role, status |-> "active"]]
            /\ req' = [req EXCEPT ![r] = NoRow]
            /\ UNCHANGED <<user, tenant>>
        BY <1>2 DEF CommitAcceptInsert
    <2>2. Current(me, rows, user, tenant) /\ me.op = "accept" /\ me.stage = "commit"
          /\ me.row = NoRow
        BY DEF CommitAcceptInsert, At, SerialInv
    <2>3. \A j \in RowIds : rows[j] # NoRow =>
             ~ (rows[j].user = me.user /\ rows[j].tenant = me.tenant)
        BY <2>2 DEF Current
    <2>4. i \in RowIds /\ rows \in [RowIds -> Row \cup {NoRow}]
        BY DEF IInv, TypeOK
    <2>5. /\ rows'[i].user = me.user /\ rows'[i].tenant = me.tenant
          /\ \A j \in RowIds : j # i => rows'[j] = rows[j]
        BY <2>1, <2>4
    <2>6. NoTwin'
        BY <2>1, <2>3, <2>5 DEF SerialInv, NoTwin, Live
    <2> QED BY <2>1, <2>6, SlotsFree DEF SerialInv
<1> QED BY <1>1, <1>2

\* delete_user and delete_tenant take memberships away.
LEMMA SerialDeleteStep ==
    ASSUME IInv, SerialInv, OneAtATime, NEW r \in Requests,
           CommitDeleteUser(r) \/ CommitDeleteTenant(r)
    PROVE  SerialInv'
<1>1. req' = [req EXCEPT ![r] = NoRow]
    BY DEF CommitDeleteUser, CommitDeleteTenant
<1>2. \A i \in RowIds : rows'[i] # NoRow => rows[i] # NoRow /\ rows'[i] = rows[i]
    BY DEF CommitDeleteUser, CommitDeleteTenant
<1> QED BY <1>1, <1>2, SlotsFree, SerialRemains

\* A new tenant has no memberships yet, and no request is in flight.
LEMMA SerialCreateTenantStep ==
    ASSUME IInv, CreatedInv, SerialInv, OneAtATime, NEW u \in Users, NEW t \in Tenants,
           CreateTenant(u, t)
    PROVE  SerialInv'
<1>1. PICK i \in fresh :
        rows' = [rows EXCEPT ![i] = [user |-> u, tenant |-> t,
                                     role |-> "account_owner", status |-> "active"]]
    BY DEF CreateTenant
<1>2. /\ i \in RowIds /\ rows[i] = NoRow /\ tenant[t] = "new"
      /\ tenant' = [tenant EXCEPT ![t] = "live"] /\ req' = req
      /\ rows \in [RowIds -> Row \cup {NoRow}]
      /\ tenant \in [Tenants -> {"new", "live", "deleted"}]
    BY DEF CreateTenant, IInv, TypeOK, FreshIsEmpty
<1>3. /\ rows'[i].user = u /\ rows'[i].tenant = t
      /\ \A j \in RowIds : j # i => rows'[j] = rows[j]
    BY <1>1, <1>2
<1>4. \A j \in RowIds : rows[j] # NoRow => rows[j].tenant # t
    BY <1>2 DEF CreatedInv, Live
<1>5. NoTwin'
    BY <1>2, <1>3, <1>4 DEF SerialInv, NoTwin, Live
<1>6. \A s \in Requests : req'[s] = NoRow
    BY <1>2 DEF CreateTenant, OneAtATime
<1> QED BY <1>5, <1>6 DEF SerialInv

\* Every step keeps the invariant when requests do not overlap.
LEMMA SerialStep ==
    ASSUME IInv, CreatedInv, SerialInv, OneAtATime, [Next]_vars
    PROVE  SerialInv'
<1>1. ASSUME UNCHANGED vars PROVE SerialInv'
    BY <1>1 DEF vars, SerialInv, NoTwin, Live
<1>2. ASSUME NEW u \in Users, NEW t \in Tenants, CreateTenant(u, t) PROVE SerialInv'
    BY <1>2, SerialCreateTenantStep
<1>3. ASSUME NEW r \in Requests, Begin(r) PROVE SerialInv'
    BY <1>3, SerialBeginStep
<1>4. ASSUME NEW r \in Requests, Continue(r) PROVE SerialInv'
    BY <1>4, SerialLoadTargetStep, SerialCountOwnersStep, SerialUpdateStep,
       SerialLoadMembershipStep, SerialInsertStep, SerialDeleteUserStep,
       SerialDeleteTenantStep, SerialDeleteStep DEF Continue
<1>5. ASSUME NEW r \in Requests, Abort(r) PROVE SerialInv'
    BY <1>5, SerialEndStep DEF Abort
<1> QED BY <1>1, <1>2, <1>3, <1>4, <1>5 DEF Next

\* It holds in every reachable state of a system that serves one request at a time.
LEMMA SerialInvariance == ASSUME OneAtATime PROVE Spec => []SerialInv
<1>1. Init => SerialInv
    BY DEF Init, SerialInv, NoTwin, Live
<1>2. IInv /\ CreatedInv /\ SerialInv /\ [Next]_vars => SerialInv'
    BY SerialStep
<1> QED BY <1>1, <1>2, Invariance, CreatedInvariance, PTL DEF Spec

\* With one request at a time a user has at most one membership in a tenant,
\* so no `scalar_one_or_none` on (user, scope) ever finds two.
THEOREM OneMembership == ASSUME OneAtATime PROVE Spec => []OneMembershipPerUser
<1>1. SerialInv => OneMembershipPerUser
    <2>1. SUFFICES ASSUME SerialInv, NEW u \in Users, NEW t \in Tenants
                   PROVE  Cardinality(RowsOf(u, t)) <= 1
        BY DEF OneMembershipPerUser
    <2>2. RowsOf(u, t) \subseteq RowIds
        BY DEF RowsOf, Live
    <2>3. ~ Several(RowsOf(u, t))
        BY <2>1 DEF Several, RowsOf, SerialInv, NoTwin
    <2> QED BY <2>2, <2>3, MoreThanOne
<1> QED BY <1>1, SerialInvariance, PTL

\* With one request at a time what delete_tenant locked is all there is when it
\* commits: only another tenant's invitation leaves a membership without a tenant.
THEOREM SerialDangling == ASSUME OneAtATime PROVE Spec => DanglingOnlyByStray
<1>1. ASSUME IInv, SerialInv, [Next]_vars, NEW i \in RowIds, ~ Dangling(i), Dangling(i)'
      PROVE  \E r \in Requests :
                Ends(r) /\ req[r].op = "accept" /\ req[r].home # req[r].tenant
    <2>1. PICK r \in Requests :
              /\ Ends(r) /\ req[r] \in Request
              /\ \/ /\ CommitDeleteTenant(r) /\ rows[i] # NoRow /\ i \notin req[r].locked
                    /\ rows[i].tenant = req[r].tenant
                 \/ req[r].op = "accept" /\ req[r].home # req[r].tenant
        BY <1>1, DanglingStep
    <2>2. ASSUME CommitDeleteTenant(r), rows[i] # NoRow, i \notin req[r].locked,
                 rows[i].tenant = req[r].tenant
          PROVE  FALSE
        BY <1>1, <2>1, <2>2, NoRowNoRequest DEF SerialInv, Current, CommitDeleteTenant, At
    <2> QED BY <2>1, <2>2
<1>2. ASSUME IInv, SerialInv, [Next]_vars
      PROVE  [\A i \in RowIds : ~ Dangling(i) /\ Dangling(i)' =>
                \E r \in Requests :
                   Ends(r) /\ req[r].op = "accept" /\ req[r].home # req[r].tenant]_vars
    BY <1>1, <1>2
<1> QED BY <1>2, Invariance, SerialInvariance, PTL DEF Spec, DanglingOnlyByStray

\* With one request at a time no stale check excuses a lost owner: only an
\* acceptance that changes the role does.
THEOREM SerialOwnerLoss == ASSUME OneAtATime PROVE Spec => OwnerLostOnlyByDowngrade
<1>1. ASSUME IInv, SerialInv, [Next]_vars, NEW t \in Tenants, Orphaned(t)
      PROVE  \E r \in Requests :
                /\ Commits(r) /\ req[r].op = "accept"
                /\ ~ permissions_for_role(req[r].role)
                       \subseteq permissions_for_role(req[r].was.role)
    <2>1. PICK r \in Requests : /\ Commits(r) /\ Excused(r, t)
                                /\ req[r].op = "delete_user" => CommitDeleteUser(r)
        BY <1>1, OrphanStep
    <2> DEFINE me == req[r]
    <2>2. me \in Request /\ RequestInv(me, rows, fresh) /\ Current(me, rows, user, tenant)
        BY <1>1, <2>1 DEF Commits, Ends, IInv, TypeOK, SerialInv
    <2>3. me.row # NoRow => rows[me.row] = me.was
        BY <2>2 DEF Current
    <2>4. me.seen[t] # {} => me.seen[t] = Owners(t)
        BY <2>2 DEF Current, Owners, Live
    <2>5. me.op = "delete_user" =>
             /\ me.todo = {} /\ me.stage = "commit"
             /\ me.owned = OwnerRowsOf(me.user)
        BY <2>1, <2>2 DEF CommitDeleteUser, At, RequestInv, DeleteUserInv, Current,
                          OwnerRowsOf, Live
    <2>6. ASSUME me.op = "delete_user" PROVE FALSE
        <3>1. \A i \in Owners(t) : rows[i].user = me.user
            <4>1. \A i \in Live : rows[i].user # me.user => rows'[i] = rows[i]
                BY <2>1, <2>6 DEF CommitDeleteUser, Live
            <4> QED BY <1>1, <4>1, SurvivesUntouched DEF Owners
        <3>2. ~ Several(Owners(t))
            BY <1>1, <3>1 DEF Several, Owners, SerialInv, NoTwin
        <3>3. PICK i \in Owners(t) : TRUE
            BY <1>1 DEF Orphaned
        <3>4. i \in me.owned /\ rows[i] # NoRow /\ rows[i].tenant = t
            BY <2>5, <2>6, <3>1 DEF Owners, OwnerRowsOf, Live
        <3>5. Several(me.seen[t])
            BY <2>2, <2>5, <2>6, <3>4 DEF RequestInv, DeleteUserInv
        <3> QED BY <2>4, <3>2, <3>5 DEF Several
    <2> QED BY <2>1, <2>3, <2>4, <2>6 DEF Excused, Stale
<1>2. ASSUME IInv, SerialInv, [Next]_vars
      PROVE  [\A t \in Tenants : Orphaned(t) =>
                \E r \in Requests :
                   /\ Commits(r) /\ req[r].op = "accept"
                   /\ ~ permissions_for_role(req[r].role)
                          \subseteq permissions_for_role(req[r].was.role)]_vars
    BY <1>1, <1>2
<1> QED BY <1>2, Invariance, SerialInvariance, PTL
        DEF Spec, OwnerLostOnlyByDowngrade

-----------------------------------------------------------------------------
(* One request at a time implements the atomic operations *)

\* The abstract specification speaks of the same roles.
LEMMA SameRoles ==
    /\ Atomic!OwnerRoles = OwnerRoles
    /\ Atomic!RoleNames = RoleNames
    /\ \A existing, invited :
          Atomic!RoleAfterAccept(existing, invited) = RoleAfterAccept(existing, invited)
    BY DEF Atomic!OwnerRoles, OwnerRoles, Atomic!RoleNames, RoleNames,
           Atomic!AccountRoles, AccountRoles, Atomic!SpaceRoles, SpaceRoles,
           Atomic!LegacyRoles, LegacyRoles, Atomic!RoleAfterAccept, RoleAfterAccept,
           Atomic!permissions_for_role, permissions_for_role,
           Atomic!permission_map, permission_map

\* Without twins a row is the one of its user and tenant.
LEMMA IsTheRow ==
    ASSUME SerialInv, NEW i \in RowIds, rows[i] # NoRow
    PROVE  Atomic!TheRow(i, rows[i].user, rows[i].tenant)
    BY DEF SerialInv, NoTwin, Live, Atomic!TheRow, Atomic!Membership

\* Without twins two owner rows are two owners.
LEMMA CountedIsDispensable ==
    ASSUME SerialInv, NEW i \in RowIds, rows[i] # NoRow,
           IsOwner(rows[i]) => Several(Owners(rows[i].tenant))
    PROVE  Atomic!Dispensable(i)
<1> DEFINE t == rows[i].tenant
<1>1. SUFFICES ASSUME Atomic!Owns(i, t)
               PROVE  \E j \in RowIds : Atomic!Owns(j, t) /\ rows[j].user # rows[i].user
    BY DEF Atomic!Dispensable
<1>2. IsOwner(rows[i])
    BY <1>1, SameRoles DEF Atomic!Owns, Atomic!Membership, IsOwner
<1>3. PICK j \in Owners(t) : j # i
    BY <1>2 DEF Several
<1>4. j \in RowIds /\ rows[j] # NoRow /\ rows[j].tenant = t /\ IsOwner(rows[j])
    BY DEF Owners, Live
<1>5. rows[j].user # rows[i].user
    BY <1>3, <1>4 DEF SerialInv, NoTwin, Live
<1>6. Atomic!Owns(j, t)
    BY <1>4, SameRoles DEF Atomic!Owns, Atomic!Membership, IsOwner
<1> QED BY <1>4, <1>5, <1>6

\* The commits that rewrite one membership.
LEMMA AtomicUpdate ==
    ASSUME IInv, CreatedInv, SerialInv, DeletedUserHasNoMembership, NEW r \in Requests,
           ~ UNCHANGED <<rows, fresh, user, tenant>>,
           CommitPatch(r) \/ CommitRemove(r) \/ CommitReactivate(r) \/ CommitAcceptUpdate(r)
    PROVE  Atomic!Next
<1> DEFINE me == req[r]
           i  == me.row
           u  == me.user
           t  == me.tenant
<1>1. PICK new \in Row :
        /\ me \in Request /\ RequestInv(me, rows, fresh) /\ me.stage = "commit"
        /\ me.op \in {"patch", "remove", "reactivate", "accept"}
        /\ Loaded(me, rows, fresh)
        /\ i \in RowIds /\ rows[i] \in Row /\ rows[i].user = u /\ rows[i].tenant = t
        /\ rows' = [rows EXCEPT ![i] = Written(me, new)]
        /\ UNCHANGED <<user, tenant>>
        /\ me.op = "patch" => new = [me.was EXCEPT !.role = me.role]
        /\ me.op = "remove" => new = [me.was EXCEPT !.status = "removed"]
        /\ me.op = "reactivate" => new = [me.was EXCEPT !.status = "active"]
        /\ me.op = "accept" => new = [me.was EXCEPT !.role = RoleAfterAccept(@, me.role),
                                                    !.status = "active"]
    BY UpdateEffect
<1>2. Current(me, rows, user, tenant) /\ i # NoRow
    BY <1>1, NoRowNoRequest, NoRowFresh DEF SerialInv
<1>3. rows[i] = me.was /\ rows[i] # NoRow
    BY <1>2 DEF Current
<1>4. u \in Users /\ t \in Tenants
    BY <1>1 DEF Loaded
<1>5. Written(me, new) = new
    <2>1. new.user = rows[i].user /\ new.tenant = rows[i].tenant
        <3>1. me.was \in Row
            BY <1>1, <1>3
        <3>2. /\ [me.was EXCEPT !.role = me.role].user = me.was.user
              /\ [me.was EXCEPT !.role = me.role].tenant = me.was.tenant
              /\ \A s \in {"active", "removed"} :
                    /\ [me.was EXCEPT !.status = s].user = me.was.user
                    /\ [me.was EXCEPT !.status = s].tenant = me.was.tenant
              /\ \A role :
                    /\ [me.was EXCEPT !.role = role, !.status = "active"].user = me.was.user
                    /\ [me.was EXCEPT !.role = role, !.status = "active"].tenant = me.was.tenant
            BY <3>1 DEF Row
        <3>3. CASE me.op = "patch"
            BY <1>1, <1>3, <3>2, <3>3
        <3>4. CASE me.op = "remove"
            BY <1>1, <1>3, <3>2, <3>4
        <3>5. CASE me.op = "reactivate"
            BY <1>1, <1>3, <3>2, <3>5
        <3>6. CASE me.op = "accept"
            <4>1. new = [me.was EXCEPT !.role = RoleAfterAccept(me.was.role, me.role),
                                       !.status = "active"]
                BY <1>1, <3>6
            <4> QED BY <1>3, <3>2, <4>1
        <3> QED BY <1>1, <3>3, <3>4, <3>5, <3>6
    <2>2. /\ Written(me, new) \in Row
          /\ Written(me, new).user = new.user /\ Written(me, new).tenant = new.tenant
          /\ Written(me, new).role = new.role /\ Written(me, new).status = new.status
        BY <1>1, <1>3, <2>1, WrittenKeeps
    <2> QED BY <2>2 DEF Row
<1>6. rows' = [rows EXCEPT ![i] = new]
    BY <1>1, <1>5
<1>7. Atomic!TheRow(i, u, t)
    BY <1>1, <1>3, IsTheRow
<1>8. GivesUpOwnership(me, me.was.role) => Atomic!Dispensable(i)
    <2>1. SUFFICES ASSUME GivesUpOwnership(me, me.was.role)
                   PROVE  Several(Owners(rows[i].tenant))
        BY <1>1, <1>3, CountedIsDispensable
    <2>2. Several(me.seen[t])
        BY <1>1, <2>1 DEF RequestInv, ManageInv, GivesUpOwnership
    <2>3. me.seen[t] = Owners(t)
        BY <1>2, <1>4, <2>2 DEF Current, Several, Owners, Live
    <2> QED BY <1>1, <2>2, <2>3
<1>9. rows[i].role \notin OwnerRoles => Atomic!Dispensable(i)
    BY <1>1, <1>3, CountedIsDispensable DEF IsOwner
<1>10. CASE me.op = "patch"
    <2>1. me.role \in Atomic!RoleNames
        BY <1>1, <1>10, SameRoles DEF RequestInv, ManageInv
    <2>2. rows[i].status = "active"
        BY <1>2, <1>3, <1>10 DEF Current
    <2>3. me.role \notin Atomic!OwnerRoles => Atomic!Dispensable(i)
        BY <1>3, <1>8, <1>9, <1>10, SameRoles DEF GivesUpOwnership
    <2>4. rows' = [rows EXCEPT ![i].role = me.role]
        BY <1>1, <1>3, <1>6, <1>10
    <2>5. Atomic!ChangeRole(i, u, t, me.role)
        BY <1>1, <1>7, <2>2, <2>3, <2>4 DEF Atomic!ChangeRole
    <2> QED BY <1>1, <1>4, <2>1, <2>5 DEF Atomic!Next
<1>11. CASE me.op = "remove"
    <2>1. rows[i].status = "active"
        BY <1>2, <1>3, <1>11 DEF Current
    <2>2. Atomic!Dispensable(i)
        BY <1>3, <1>8, <1>9, <1>11 DEF GivesUpOwnership
    <2>3. rows' = [rows EXCEPT ![i].status = "removed"]
        BY <1>1, <1>3, <1>6, <1>11
    <2>4. Atomic!Remove(i, u, t)
        BY <1>1, <1>7, <2>1, <2>2, <2>3 DEF Atomic!Remove
    <2> QED BY <1>1, <1>4, <2>4 DEF Atomic!Next
<1>12. CASE me.op = "reactivate"
    <2>1. rows[i].status = "removed"
        BY <1>1, <1>3, <1>12 DEF RequestInv, ManageInv
    <2>2. rows' = [rows EXCEPT ![i].status = "active"]
        BY <1>1, <1>3, <1>6, <1>12
    <2>3. Atomic!Reactivate(i, u, t)
        BY <1>1, <1>7, <2>1, <2>2 DEF Atomic!Reactivate
    <2> QED BY <1>1, <1>4, <2>3 DEF Atomic!Next
<1>13. CASE me.op = "accept"
    <2>1. me.role \in Atomic!RoleNames
        BY <1>1, <1>13, SameRoles DEF RequestInv, AcceptInv
    <2>2. /\ user[u] = "live" /\ tenant[me.home] = "live" /\ tenant[t] # "new"
          /\ me.home \in Tenants
        BY <1>1, <1>2, <1>3, <1>13 DEF DeletedUserHasNoMembership, Current, CreatedInv, Live,
                                       RequestInv, AcceptInv
    <2>3. new = [rows[i] EXCEPT !.role = Atomic!RoleAfterAccept(rows[i].role, me.role),
                                !.status = "active"]
        BY <1>1, <1>3, <1>13, SameRoles
    <2>4. rows' = [rows EXCEPT ![i].role = Atomic!RoleAfterAccept(rows[i].role, me.role),
                               ![i].status = "active"]
        BY <1>1, <1>3, <1>6, <2>3 DEF IInv, TypeOK, Row
    <2>5. Atomic!Accept(i, u, me.home, t, me.role)
        BY <1>1, <1>7, <2>2, <2>4 DEF Atomic!Accept
    <2> QED BY <1>1, <1>4, <2>1, <2>2, <2>5 DEF Atomic!Next
<1> QED BY <1>1, <1>10, <1>11, <1>12, <1>13

\* The insertions: a new tenant's owner, an accepted invitation.
LEMMA AtomicInsert ==
    ASSUME IInv, CreatedInv, SerialInv, ~ UNCHANGED <<rows, fresh, user, tenant>>,
           \/ \E u \in Users, t \in Tenants : CreateTenant(u, t)
           \/ \E r \in Requests : CommitAcceptInsert(r)
    PROVE  Atomic!Next
<1>1. ASSUME NEW u \in Users, NEW t \in Tenants, CreateTenant(u, t) PROVE Atomic!Next
    <2>1. PICK i \in fresh :
            rows' = [rows EXCEPT ![i] = [user |-> u, tenant |-> t,
                                         role |-> "account_owner", status |-> "active"]]
        BY <1>1 DEF CreateTenant
    <2>2. i \in RowIds /\ rows[i] = NoRow
        BY DEF IInv, TypeOK, FreshIsEmpty
    <2>3. Atomic!CreateTenant(i, u, t)
        BY <1>1, <2>1, <2>2 DEF CreateTenant, Atomic!CreateTenant, Atomic!Insert
    <2> QED BY <2>2, <2>3 DEF Atomic!Next
<1>2. ASSUME NEW r \in Requests, CommitAcceptInsert(r) PROVE Atomic!Next
    <2> DEFINE me == req[r]
    <2>1. /\ me.op = "accept" /\ me.stage = "commit" /\ me.row = NoRow
          /\ me \in Request /\ RequestInv(me, rows, fresh) /\ Current(me, rows, user, tenant)
        BY <1>2 DEF CommitAcceptInsert, At, IInv, TypeOK, SerialInv
    <2>2. /\ me.user \in Users /\ me.home \in Tenants /\ me.tenant \in Tenants
          /\ me.role \in Atomic!RoleNames /\ tenant[me.tenant] # "new"
        BY <2>1, SameRoles, NoRowNoRequest DEF RequestInv, AcceptInv, CreatedInv
    <2>3. PICK i \in fresh :
            /\ rows' = [rows EXCEPT ![i] = [user |-> me.user, tenant |-> me.tenant,
                                            role |-> me.role, status |-> "active"]]
            /\ user[me.user] = "live" /\ tenant[me.home] = "live"
            /\ UNCHANGED <<user, tenant>>
        BY <1>2 DEF CommitAcceptInsert, InsertPossible, End
    <2>4. i \in RowIds /\ rows[i] = NoRow
        BY DEF IInv, TypeOK, FreshIsEmpty
    <2>5. \A j \in RowIds :
             ~ (Atomic!Membership(j) /\ rows[j].user = me.user /\ rows[j].tenant = me.tenant)
        BY <2>1 DEF Current, Atomic!Membership
    <2> HIDE DEF me
    <2>6. Atomic!Accept(i, me.user, me.home, me.tenant, me.role)
        BY <2>2, <2>3, <2>4, <2>5 DEF Atomic!Accept, Atomic!Insert
    <2> QED BY <2>2, <2>4, <2>6 DEF Atomic!Next
<1> QED BY <1>1, <1>2

\* delete_user counted the owners of every tenant the user owns.
LEMMA AtomicDeleteUser ==
    ASSUME IInv, SerialInv, NEW r \in Requests, CommitDeleteUser(r)
    PROVE  Atomic!Next
<1> DEFINE me == req[r]
           u  == me.user
<1>1. /\ me \in Request /\ RequestInv(me, rows, fresh) /\ Current(me, rows, user, tenant)
      /\ me.op = "delete_user" /\ me.stage = "commit"
    BY DEF CommitDeleteUser, At, IInv, TypeOK, SerialInv
<1>2. u \in Users /\ user[u] = "live" /\ me.todo = {} /\ me.owned = OwnerRowsOf(u)
    BY <1>1 DEF RequestInv, DeleteUserInv, Current, OwnerRowsOf, Live
<1>3. ASSUME NEW i \in RowIds, rows[i] # NoRow, rows[i].user = u
      PROVE  Atomic!Dispensable(i)
    <2>1. SUFFICES ASSUME IsOwner(rows[i]) PROVE Several(Owners(rows[i].tenant))
        BY <1>3, CountedIsDispensable
    <2>2. i \in me.owned
        BY <1>2, <1>3, <2>1 DEF OwnerRowsOf, Live
    <2>3. Several(me.seen[rows[i].tenant])
        BY <1>1, <1>2, <1>3, <2>2 DEF RequestInv, DeleteUserInv
    <2>4. rows[i].tenant \in Tenants
        BY <1>3 DEF IInv, TypeOK, Row
    <2> QED BY <1>1, <2>3, <2>4 DEF Current, Several, Owners, Live
<1>4. rows' = [i \in RowIds |-> IF Atomic!Membership(i) /\ rows[i].user = u
                                THEN NoRow ELSE rows[i]]
    BY DEF CommitDeleteUser, Live, Atomic!Membership
<1>5. user' = [user EXCEPT ![u] = "deleted"] /\ UNCHANGED tenant
    BY DEF CommitDeleteUser
<1>6. Atomic!DeleteUser(u)
    BY <1>2, <1>3, <1>4, <1>5 DEF Atomic!DeleteUser, Atomic!Membership
<1> QED BY <1>2, <1>6 DEF Atomic!Next

\* delete_tenant has locked every row of its tenant and no other.
LEMMA AtomicDeleteTenant ==
    ASSUME IInv, SerialInv, NEW r \in Requests, CommitDeleteTenant(r)
    PROVE  Atomic!Next
<1> DEFINE me == req[r]
           t  == me.tenant
<1>1. /\ me \in Request /\ RequestInv(me, rows, fresh) /\ Current(me, rows, user, tenant)
      /\ me.op = "delete_tenant" /\ me.stage = "commit"
    BY DEF CommitDeleteTenant, At, IInv, TypeOK, SerialInv
<1>2. t \in Tenants /\ tenant[t] = "live"
    BY <1>1 DEF RequestInv, DeleteTenantInv, Current
<1>3. \A i \in RowIds : rows[i] # NoRow => (i \in me.locked <=> rows[i].tenant = t)
    BY <1>1 DEF RequestInv, DeleteTenantInv, Current
<1>4. rows' = [i \in RowIds |-> IF Atomic!Membership(i) /\ rows[i].tenant = t
                                THEN NoRow ELSE rows[i]]
    BY <1>3 DEF CommitDeleteTenant, Atomic!Membership
<1>5. tenant' = [tenant EXCEPT ![t] = "deleted"] /\ UNCHANGED user
    BY DEF CommitDeleteTenant
<1>6. Atomic!DeleteTenant(t)
    BY <1>2, <1>4, <1>5 DEF Atomic!DeleteTenant
<1> QED BY <1>2, <1>6 DEF Atomic!Next

\* With one request at a time each commit is one atomic operation of Memberships
\* on the tables as they are, last-owner rule included, and all else a stutter.
THEOREM SerialRefinement == ASSUME OneAtATime PROVE Spec => RefinesMemberships
<1>1. Init => Atomic!Init
    BY DEF Init, Atomic!Init
<1>2. ASSUME IInv, CreatedInv, SerialInv, DeletedUserHasNoMembership, [Next]_vars
      PROVE  [Atomic!Next]_Atomic!state
    <2>1. CASE UNCHANGED <<rows, fresh, user, tenant>>
        BY <2>1 DEF Atomic!state
    <2>2. CASE ~ UNCHANGED <<rows, fresh, user, tenant>>
        BY <1>2, <2>2, WhoWrites, AtomicUpdate, AtomicInsert, AtomicDeleteUser,
           AtomicDeleteTenant
    <2> QED BY <2>1, <2>2
<1> QED BY <1>1, <1>2, Invariance, CreatedInvariance, SerialInvariance, DeletedUserGone,
        PTL DEF Spec, RefinesMemberships, Atomic!Spec

-----------------------------------------------------------------------------
(* Roles and permissions *)

\* A request of this kind that commits in this step takes its last step.
LEMMA WhoCommits ==
    ASSUME IInv, [Next]_vars, NEW r \in Requests, Commits(r), req[r].op = "accept",
           req[r].row # NoRow
    PROVE  CommitAcceptUpdate(r) /\ ~ UNCHANGED <<rows, fresh, user, tenant>>
<1>1. rows' # rows /\ req'[r] # req[r] /\ req \in [Requests -> Request \cup {NoRow}]
    BY DEF Commits, Ends, IInv, TypeOK
<1>2. ASSUME NEW u \in Users, NEW t \in Tenants, CreateTenant(u, t) PROVE FALSE
    BY <1>1, <1>2 DEF CreateTenant
<1>3. ASSUME NEW s \in Requests,
             \/ CommitPatch(s) \/ CommitRemove(s) \/ CommitReactivate(s)
             \/ CommitAcceptInsert(s) \/ CommitAcceptUpdate(s)
             \/ CommitDeleteUser(s) \/ CommitDeleteTenant(s)
      PROVE  CommitAcceptUpdate(r)
    <2>1. req' = [req EXCEPT ![s] = NoRow]
        BY <1>3 DEF CommitPatch, CommitRemove, CommitReactivate, CommitAcceptInsert,
                    CommitAcceptUpdate, CommitDeleteUser, CommitDeleteTenant, UpdateRow, End
    <2>2. s = r
        BY <1>1, <2>1
    <2> QED BY <1>3, <2>2 DEF CommitPatch, CommitRemove, CommitReactivate,
                              CommitAcceptInsert, CommitDeleteUser, CommitDeleteTenant, At
<1> QED BY <1>1, <1>2, <1>3, WhoWrites

\* The permissions of the account roles form a chain: of any two roles one has
\* all that the other has, so the comparison of accept_invitation keeps the
\* larger set.
LEMMA AccountRolesChain ==
    ASSUME NEW existing \in AccountRoles, NEW invited \in AccountRoles
    PROVE  permissions_for_role(existing) \cup permissions_for_role(invited)
              \subseteq permissions_for_role(RoleAfterAccept(existing, invited))
<1>1. /\ permissions_for_role("account_member") \subseteq permissions_for_role("account_admin")
      /\ permissions_for_role("account_admin") \subseteq permissions_for_role("account_owner")
    BY DEF permissions_for_role, permission_map
<1>2. \/ permissions_for_role(existing) \subseteq permissions_for_role(invited)
      \/ permissions_for_role(invited) \subseteq permissions_for_role(existing)
    BY <1>1 DEF AccountRoles
<1> QED BY <1>2 DEF RoleAfterAccept

\* An accepted invitation between account roles never takes a permission away
\* from the membership it read, and always gives those it was issued for.
THEOREM AcceptAdds == Spec => AcceptOnlyAddsPermissions
<1>1. ASSUME IInv, [Next]_vars, NEW r \in Requests,
             Commits(r), req[r].op = "accept", req[r].row # NoRow,
             rows[req[r].row] = req[r].was,
             {req[r].was.role, req[r].role} \subseteq AccountRoles
      PROVE  permissions_for_role(req[r].was.role) \cup permissions_for_role(req[r].role)
                \subseteq permissions_for_role(rows'[req[r].row].role)
    <2> DEFINE me == req[r]
               new == [me.was EXCEPT !.role = RoleAfterAccept(@, me.role), !.status = "active"]
    <2>1. /\ me.row \in RowIds /\ rows[me.row] \in Row /\ new \in Row
          /\ rows' = [rows EXCEPT ![me.row] = Written(me, new)]
        BY <1>1, WhoCommits, UpdateEffect
    <2>2. new.role = RoleAfterAccept(me.was.role, me.role)
        BY <1>1, <2>1 DEF Row
    <2>3. rows'[me.row] = Written(me, new)
        BY <1>1, <2>1 DEF IInv, TypeOK
    <2> HIDE DEF new
    <2>4. rows'[me.row].role = RoleAfterAccept(me.was.role, me.role)
        BY <1>1, <2>1, <2>2, <2>3, WrittenKeeps
    <2> QED BY <1>1, <2>4, AccountRolesChain
<1>2. ASSUME IInv, [Next]_vars
      PROVE  [\A r \in Requests :
                /\ Commits(r) /\ req[r].op = "accept" /\ req[r].row # NoRow
                /\ rows[req[r].row] = req[r].was
                /\ {req[r].was.role, req[r].role} \subseteq AccountRoles
                => permissions_for_role(req[r].was.role) \cup permissions_for_role(req[r].role)
                      \subseteq permissions_for_role(rows'[req[r].row].role)]_vars
    BY <1>1, <1>2
<1> QED BY <1>2, Invariance, PTL DEF Spec, AcceptOnlyAddsPermissions
=============================================================================
