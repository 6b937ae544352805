------------------------- MODULE InvitationsProofs -------------------------
(***************************************************************************)
(* Invitations implements InvitationLifecycle, for any number of           *)
(* invitations, requests in flight and any durations.                      *)
(*                                                                         *)
(* Each step of the table is matched with the step of the lifecycle that   *)
(* the computed status takes, or with none.  That needs the types, and     *)
(* that no request in flight holds a key no row was created for.           *)
(* From the same invariant: dead tokens stay dead, and how an address gets *)
(* two pending invitations.  When no two requests overlap, an accepted     *)
(* invitation is never revoked, and only a resend makes a second pending   *)
(* one (SerialInv).                                                        *)
(***************************************************************************)
EXTENDS Invitations, SequenceTheorems, TLAPS

\* The rows a request in flight will write, besides the one it inserts.
Targets(q) == IF q.op = "create" THEN q.pending ELSE {q.id}

IInv ==
    /\ TypeOK
    /\ \A i \in fresh : inv[i] = None
    /\ \A r \in Requests : req[r] # None => Targets(req[r]) \cap fresh = {}

-----------------------------------------------------------------------------
(* Lemmas *)

\* What is left of a batch after its first address is a batch.
LEMMA TailOfBatch ==
    ASSUME NEW b \in Batches, Len(b) # 1
    PROVE  Tail(b) \in Batches
<1>1. PICK n \in 1 .. MaxBulk : b \in [1 .. n -> Emails]
    BY DEF Batches
<1>2. n \in Nat /\ b \in Seq(Emails) /\ Len(b) = n
    BY <1>1, Durations
<1>3. Tail(b) \in [1 .. n - 1 -> Emails]
    <2>1. b # << >>
        BY <1>1, <1>2
    <2>2. Tail(b) \in Seq(Emails) /\ Len(Tail(b)) = n - 1
        BY <1>2, <2>1, HeadTailProperties
    <2> QED BY <2>2, LenProperties
<1>4. n - 1 \in 1 .. MaxBulk
    BY <1>2, Durations
<1> QED BY <1>3, <1>4 DEF Batches

\* The first address of a batch is an address.
LEMMA HeadOfBatch == ASSUME NEW b \in Batches PROVE Head(b) \in Emails
<1>1. PICK n \in 1 .. MaxBulk : b \in [1 .. n -> Emails]
    BY DEF Batches
<1>2. b \in Seq(Emails) /\ b # << >>
    BY <1>1, Durations
<1> QED BY <1>2

\* A step that only replaces the request in slot r by q.
LEMMA RequestStep ==
    ASSUME IInv, NEW r \in Requests, NEW q \in CreateRequest \cup UpdateRequest \cup {None},
           req' = [req EXCEPT ![r] = q],
           q # None => Targets(q) \cap fresh' = {},
           inv' \in [Ids -> Invitation \cup {None}], issued' \subseteq Tokens,
           tenant' \in BOOLEAN, now' \in Clock, fresh' \subseteq fresh,
           \A i \in fresh' : inv'[i] = None
    PROVE  IInv'
<1>1. TypeOK'
    BY DEF IInv, TypeOK
<1>2. ASSUME NEW s \in Requests, req'[s] # None PROVE Targets(req'[s]) \cap fresh' = {}
    BY <1>2 DEF IInv, TypeOK
<1> QED BY <1>1, <1>2 DEF IInv

\* A step that changes nothing but the request in slot r.
LEMMA QuietStep ==
    ASSUME IInv, NEW r \in Requests, NEW q \in CreateRequest \cup UpdateRequest \cup {None},
           req' = [req EXCEPT ![r] = q],
           q # None => Targets(q) \cap fresh = {},
           UNCHANGED <<inv, fresh, issued, tenant, now>>
    PROVE  IInv'
    BY RequestStep DEF IInv, TypeOK

\* Ending a request keeps the invariant.
LEMMA EndStep == ASSUME IInv, NEW r \in Requests, End(r) PROVE IInv'
    BY QuietStep DEF End

\* The clock is a natural number that does not pass its bound.
LEMMA ClockType == Clock \subseteq Time /\ 0 \in Clock /\ \A t \in Clock : t + Ttl \in Time
    BY Durations DEF Clock, Time

-----------------------------------------------------------------------------
(* The invariant, action by action *)

\* A request that starts reads a row that exists, or none.
LEMMA BeginStep ==
    ASSUME IInv, NEW r \in Requests,
           \/ \E emails \in Batches : StartCreate(r, emails)
           \/ \E token \in Tokens, email \in Emails : StartAccept(r, token, email)
           \/ \E i \in Ids : StartRevoke(r, i) \/ StartResend(r, i)
    PROVE  IInv'
<1>1. CASE \E emails \in Batches : StartCreate(r, emails)
    <2>1. PICK emails \in Batches : StartCreate(r, emails)
        BY <1>1
    <2> DEFINE q == [op |-> "create", stage |-> "load", emails |-> emails,
                     pending |-> {}, at |-> 0]
    <2>2. q \in CreateRequest /\ Targets(q) = {}
        BY ClockType DEF CreateRequest, Targets
    <2>3. req' = [req EXCEPT ![r] = q] /\ UNCHANGED <<inv, fresh, issued, tenant, now>>
        BY <2>1 DEF StartCreate, Begin
    <2> HIDE DEF q
    <2> QED BY <2>2, <2>3, QuietStep
<1>2. ASSUME NEW i \in Live,
             NEW q \in {[op |-> "accept", id |-> i],
                        [op |-> "revoke", id |-> i, at |-> now, expires |-> inv[i].expires],
                        [op |-> "resend", id |-> i, at |-> now]},
             Begin(r, q)
      PROVE  IInv'
    <2>1. i \in Ids \ fresh /\ inv[i] \in Invitation /\ now \in Clock
        BY DEF Live, IInv, TypeOK
    <2>2. inv[i].expires \in Time
        BY <2>1 DEF Invitation
    <2>3. q \in UpdateRequest /\ q.op # "create" /\ q.id = i
        BY <2>1, <2>2 DEF UpdateRequest
    <2>4. Targets(q) \cap fresh = {}
        BY <2>1, <2>3 DEF Targets
    <2> QED BY <1>2, <2>3, <2>4, QuietStep DEF Begin
<1>3. CASE \E token \in Tokens, email \in Emails : StartAccept(r, token, email)
    BY <1>2, <1>3 DEF StartAccept
<1>4. CASE \E i \in Ids : StartRevoke(r, i) \/ StartResend(r, i)
    BY <1>2, <1>4 DEF StartRevoke, StartResend
<1> QED BY <1>1, <1>3, <1>4

\* What a creation lists has been created.
LEMMA LoadPendingStep == ASSUME IInv, NEW r \in Requests, LoadPending(r) PROVE IInv'
<1> DEFINE pending == PendingFor(Head(req[r].emails))
           q == [req[r] EXCEPT !.stage = "commit", !.at = now, !.pending = pending]
<1>1. req[r] \in CreateRequest
    BY DEF LoadPending, At, IInv, TypeOK, UpdateRequest
<1>2. pending \subseteq Ids \ fresh
    BY DEF PendingFor, Live, IInv
<1>3. now \in Clock
    BY DEF IInv, TypeOK
<1>4. req' = [req EXCEPT ![r] = q] /\ UNCHANGED <<inv, fresh, issued, tenant, now>>
    BY DEF LoadPending
<1> HIDE DEF pending
<1>5. q \in CreateRequest /\ q.op = "create" /\ q.pending = pending
    BY <1>1, <1>2, <1>3 DEF CreateRequest
<1> HIDE DEF q
<1> QED BY <1>2, <1>4, <1>5, QuietStep DEF Targets

\* The effect of a creation that does not fail.
Created(r, i, token) ==
    /\ i \in fresh /\ token \in Tokens \ issued
    /\ tenant /\ req[r].pending \subseteq Live
    /\ inv' = [j \in Ids |->
                  IF j = i
                  THEN [email |-> Head(req[r].emails), token |-> token,
                        created |-> now, expires |-> req[r].at + Ttl,
                        accepted |-> FALSE, revoked |-> FALSE]
                  ELSE IF j \in req[r].pending THEN Replaced(inv[j], req[r].at)
                  ELSE inv[j]]
    /\ fresh' = fresh \ {i}
    /\ issued' = issued \cup {token}
    /\ req' = [req EXCEPT ![r] = AfterCreate(r)]
    /\ UNCHANGED <<tenant, now>>

\* A creation ends without a trace or has that effect.
LEMMA CreateEffect ==
    ASSUME IInv, NEW r \in Requests, CommitCreate(r)
    PROVE  End(r) \/ \E i \in fresh, token \in Tokens \ issued : Created(r, i, token)
    BY DEF CommitCreate, Created

\* The rows after a creation: the new one, those it revokes, the others.
LEMMA CreatedRows ==
    ASSUME IInv, NEW r \in Requests, At(r, "create"),
           NEW i \in fresh, NEW token \in Tokens \ issued, Created(r, i, token)
    PROVE  /\ req[r] \in CreateRequest /\ i \in Ids /\ i \notin req[r].pending
           /\ inv' \in [Ids -> Invitation \cup {None}]
           /\ inv'[i] \in Invitation /\ ~ inv'[i].revoked /\ ~ inv'[i].accepted
           /\ \A j \in req[r].pending : inv'[j] \in Invitation /\ inv'[j].revoked
           /\ \A j \in Ids : j # i /\ j \notin req[r].pending => inv'[j] = inv[j]
<1>1. req[r] \in CreateRequest /\ req[r].pending \cap fresh = {} /\ i \in Ids
    BY DEF At, IInv, TypeOK, UpdateRequest, Targets
<1>2. Head(req[r].emails) \in Emails /\ req[r].at \in Clock /\ now \in Clock
    BY <1>1, HeadOfBatch DEF CreateRequest, IInv, TypeOK
<1>3. inv'[i] \in Invitation /\ ~ inv'[i].revoked /\ ~ inv'[i].accepted
    <2> DEFINE new == [email |-> Head(req[r].emails), token |-> token,
                       created |-> now, expires |-> req[r].at + Ttl,
                       accepted |-> FALSE, revoked |-> FALSE]
    <2>1. new \in Invitation
        BY <1>2, ClockType DEF Invitation
    <2>2. inv'[i] = new
        BY <1>1 DEF Created
    <2> QED BY <2>1, <2>2
<1>4. ASSUME NEW j \in req[r].pending PROVE inv'[j] \in Invitation /\ inv'[j].revoked
    <2>1. j \in Ids /\ j # i /\ inv[j] \in Invitation
        BY <1>1, <1>4 DEF CreateRequest, Created, Live, IInv, TypeOK
    <2>2. Replaced(inv[j], req[r].at) \in Invitation /\ Replaced(inv[j], req[r].at).revoked
        BY <1>2, <2>1, ClockType DEF Replaced, Invitation
    <2> QED BY <1>4, <2>1, <2>2 DEF Created
<1>5. \A j \in Ids : j # i /\ j \notin req[r].pending => inv'[j] = inv[j]
    BY DEF Created
<1>6. inv' \in [Ids -> Invitation \cup {None}]
    <2>1. \A j \in Ids : inv'[j] \in Invitation \cup {None}
        BY <1>3, <1>4, <1>5 DEF IInv, TypeOK
    <2> QED BY <2>1 DEF Created
<1> QED BY <1>1, <1>3, <1>4, <1>5, <1>6

\* A creation keeps the invariant.
LEMMA CommitCreateStep == ASSUME IInv, NEW r \in Requests, CommitCreate(r) PROVE IInv'
<1>1. At(r, "create")
    BY DEF CommitCreate
<1>2. SUFFICES ASSUME NEW i \in fresh, NEW token \in Tokens \ issued, Created(r, i, token)
               PROVE  IInv'
    BY CreateEffect, EndStep
<1>3. req[r] \in CreateRequest /\ inv' \in [Ids -> Invitation \cup {None}]
    BY <1>1, <1>2, CreatedRows
<1>4. \A j \in fresh' : inv'[j] = None
    <2>1. req[r].pending \cap fresh = {}
        BY <1>1 DEF At, IInv, Targets
    <2> QED BY <1>2, <2>1 DEF Created, IInv, TypeOK
<1>5. /\ AfterCreate(r) \in CreateRequest \cup {None}
      /\ AfterCreate(r) # None => Targets(AfterCreate(r)) = {}
    <2>1. CASE Len(req[r].emails) = 1
        BY <2>1 DEF AfterCreate
    <2>2. CASE Len(req[r].emails) # 1
        <3> DEFINE rest == Tail(req[r].emails)
                   q == [req[r] EXCEPT !.stage = "load", !.emails = rest, !.pending = {},
                                       !.at = 0]
        <3>1. rest \in Batches
            BY <1>3, <2>2, TailOfBatch DEF CreateRequest
        <3>2. AfterCreate(r) = q
            BY <2>2 DEF AfterCreate
        <3> HIDE DEF rest
        <3>3. q \in CreateRequest /\ q.op = "create" /\ q.pending = {}
            BY <1>3, <3>1, ClockType DEF CreateRequest
        <3> HIDE DEF q
        <3> QED BY <3>2, <3>3 DEF Targets
    <2> QED BY <2>1, <2>2
<1>6. fresh' \subseteq fresh /\ issued' \subseteq Tokens
    BY <1>2 DEF Created, IInv, TypeOK
<1>7. req' = [req EXCEPT ![r] = AfterCreate(r)] /\ tenant' \in BOOLEAN /\ now' \in Clock
    BY <1>2 DEF Created, IInv, TypeOK
<1> QED BY <1>3, <1>4, <1>5, <1>6, <1>7, RequestStep

\* The effect of an update that does not fail.
Updated(r, row) ==
    /\ req[r].id \in Live
    /\ inv' = [inv EXCEPT ![req[r].id] = row]
    /\ req' = [req EXCEPT ![r] = None]
    /\ issued \subseteq issued' /\ issued' \subseteq Tokens
    /\ UNCHANGED <<fresh, tenant, now>>

\* An update ends without a trace or writes one invitation: acceptance sets
\* one column, revocation and resend two.
LEMMA UpdateEffect ==
    ASSUME IInv, NEW r \in Requests, CommitAccept(r) \/ CommitRevoke(r) \/ CommitResend(r)
    PROVE  \/ End(r)
           \/ CommitAccept(r) /\ Updated(r, [inv[req[r].id] EXCEPT !.accepted = TRUE])
           \/ \E t \in Time :
                 CommitRevoke(r) /\ Updated(r, [inv[req[r].id] EXCEPT !.revoked = TRUE,
                                                                      !.expires = t])
           \/ \E t \in Time, token \in Tokens :
                 CommitResend(r) /\ Updated(r, [inv[req[r].id] EXCEPT !.token = token,
                                                                      !.expires = t])
<1> DEFINE me == req[r]
<1>1. me \in UpdateRequest
    BY DEF CommitAccept, CommitRevoke, CommitResend, At, IInv, TypeOK, CreateRequest
<1>2. issued \subseteq Tokens
    BY DEF IInv, TypeOK
<1>3. CASE me.id \notin Live
    BY <1>3 DEF CommitAccept, CommitRevoke, CommitResend, Update, End
<1>4. CASE me.id \in Live
    <2>1. inv[me.id] \in Invitation
        BY <1>4 DEF Live, IInv, TypeOK
    <2>2. CASE CommitAccept(r)
        BY <1>2, <1>4, <2>2 DEF CommitAccept, Update, Updated
    <2>3. CASE CommitRevoke(r)
        <3> DEFINE t == IF me.expires > me.at THEN me.at ELSE inv[me.id].expires
        <3>1. me.at \in Clock
            BY <1>1, <2>3 DEF UpdateRequest, CommitRevoke, At
        <3>2. t \in Time
            BY <2>1, <3>1, ClockType DEF Invitation
        <3>3. Updated(r, [inv[me.id] EXCEPT !.revoked = TRUE, !.expires = t])
            BY <1>2, <1>4, <2>3 DEF CommitRevoke, Update, Updated
        <3> HIDE DEF t
        <3> QED BY <2>3, <3>2, <3>3
    <2>4. CASE CommitResend(r)
        <3> DEFINE t == me.at + Ttl
        <3>1. me.at \in Clock
            BY <1>1, <2>4 DEF UpdateRequest, CommitResend, At
        <3>2. t \in Time
            BY <3>1, ClockType
        <3>3. PICK token \in Tokens \ issued :
                /\ Update(r, [inv[me.id] EXCEPT !.token = token, !.expires = t])
                /\ issued' = issued \cup {token}
            BY <1>4, <2>4 DEF CommitResend
        <3>4. Updated(r, [inv[me.id] EXCEPT !.token = token, !.expires = t])
            BY <1>2, <1>4, <3>3 DEF Update, Updated
        <3> HIDE DEF t
        <3> QED BY <2>4, <3>2, <3>4
    <2> QED BY <2>2, <2>3, <2>4
<1> QED BY <1>3, <1>4

\* An update keeps the row an invitation.
LEMMA UpdateStep ==
    ASSUME IInv, NEW r \in Requests, CommitAccept(r) \/ CommitRevoke(r) \/ CommitResend(r)
    PROVE  IInv'
<1> DEFINE old == inv[req[r].id]
<1>1. ASSUME NEW row, Updated(r, row), row \in Invitation PROVE IInv'
    <2>1. inv' \in [Ids -> Invitation \cup {None}]
        BY <1>1 DEF Updated, IInv, TypeOK
    <2>2. \A i \in fresh' : inv'[i] = None
        BY <1>1 DEF Updated, Live, IInv, TypeOK
    <2>3. /\ req' = [req EXCEPT ![r] = None] /\ tenant' \in BOOLEAN /\ now' \in Clock
          /\ fresh' \subseteq fresh /\ issued' \subseteq Tokens
        BY <1>1 DEF Updated, IInv, TypeOK
    <2> QED BY <2>1, <2>2, <2>3, RequestStep
<1>2. CASE End(r)
    BY <1>2, EndStep
<1>3. ASSUME req[r].id \in Live
      PROVE  /\ [old EXCEPT !.accepted = TRUE] \in Invitation
             /\ \A t \in Time : [old EXCEPT !.revoked = TRUE, !.expires = t] \in Invitation
             /\ \A t \in Time, token \in Tokens :
                   [old EXCEPT !.token = token, !.expires = t] \in Invitation
    <2>1. old \in Invitation
        BY <1>3 DEF Live, IInv, TypeOK
    <2> QED BY <2>1 DEF Invitation
<1>4. CASE Updated(r, [old EXCEPT !.accepted = TRUE])
    BY <1>1, <1>3, <1>4 DEF Updated
<1>5. ASSUME NEW t \in Time, Updated(r, [old EXCEPT !.revoked = TRUE, !.expires = t])
      PROVE  IInv'
    BY <1>1, <1>3, <1>5 DEF Updated
<1>6. ASSUME NEW t \in Time, NEW token \in Tokens,
             Updated(r, [old EXCEPT !.token = token, !.expires = t])
      PROVE  IInv'
    BY <1>1, <1>3, <1>6 DEF Updated
<1> QED BY <1>2, <1>4, <1>5, <1>6, UpdateEffect

\* Deleting rows and the passing of time keep the invariant.
LEMMA OtherStep ==
    ASSUME IInv, purge_stale_invitations \/ DeleteTenant \/ Tick PROVE IInv'
<1>1. CASE purge_stale_invitations
    <2>1. TypeOK'
        BY <1>1 DEF purge_stale_invitations, IInv, TypeOK
    <2> QED BY <1>1, <2>1 DEF purge_stale_invitations, IInv, TypeOK
<1>2. CASE DeleteTenant
    <2>1. TypeOK'
        BY <1>2 DEF DeleteTenant, IInv, TypeOK
    <2> QED BY <1>2, <2>1 DEF DeleteTenant, IInv, TypeOK
<1>3. CASE Tick
    <2>1. now' \in Clock
        BY <1>3, Durations DEF Tick, IInv, TypeOK, Clock
    <2>2. TypeOK'
        BY <1>3, <2>1 DEF Tick, IInv, TypeOK
    <2> QED BY <1>3, <2>2 DEF Tick, IInv
<1> QED BY <1>1, <1>2, <1>3

\* Every step keeps the invariant.
LEMMA NextStep == ASSUME IInv, [Next]_vars PROVE IInv'
<1>1. ASSUME UNCHANGED vars PROVE IInv'
    <2>1. TypeOK'
        BY <1>1 DEF vars, IInv, TypeOK
    <2> QED BY <1>1, <2>1 DEF vars, IInv
<1>2. ASSUME NEW r \in Requests, Abort(r) PROVE IInv'
    BY <1>2, EndStep DEF Abort
<1> QED BY <1>1, <1>2, BeginStep, LoadPendingStep, CommitCreateStep, UpdateStep, OtherStep
        DEF Next

\* The invariant holds from the start.
LEMMA InitIInv == ASSUME Init PROVE IInv
    BY ClockType DEF Init, IInv, TypeOK

\* The invariant holds always.
LEMMA Invariance == Spec => []IInv
<1>1. Init => IInv
    BY InitIInv
<1>2. IInv /\ [Next]_vars => IInv'
    BY NextStep
<1> QED BY <1>1, <1>2, PTL DEF Spec

-----------------------------------------------------------------------------
(* Theorems *)

\* The table, the clock and every request in flight keep their types.
THEOREM TypeCorrect == Spec => []TypeOK
<1>1. IInv => TypeOK
    BY DEF IInv
<1> QED BY <1>1, Invariance, PTL

-----------------------------------------------------------------------------
(* The refinement *)

\* The lifecycle's state, as a function of the table.
st == [i \in Ids |-> StatusOf(i)]

\* The invitations whose row and deadline a step leaves alone keep their status.
LEMMA SameStatus ==
    ASSUME NEW i \in Ids, inv'[i] = inv[i], i \in fresh' <=> i \in fresh, now' = now
    PROVE  st'[i] = st[i]
    BY DEF st, StatusOf, is_expired

\* What the status says of the row.
LEMMA StatusFacts ==
    ASSUME NEW i \in Ids
    PROVE  /\ st[i] = IF inv[i] = None THEN IF i \in fresh THEN "none" ELSE "gone"
                      ELSE IF inv[i].revoked THEN "revoked"
                      ELSE IF inv[i].accepted THEN "accepted"
                      ELSE IF now > inv[i].expires THEN "expired"
                      ELSE "pending"
           /\ st'[i] = IF inv'[i] = None THEN IF i \in fresh' THEN "none" ELSE "gone"
                       ELSE IF inv'[i].revoked THEN "revoked"
                       ELSE IF inv'[i].accepted THEN "accepted"
                       ELSE IF now' > inv'[i].expires THEN "expired"
                       ELSE "pending"
    BY DEF st, StatusOf, is_expired

\* A creation inserts one invitation and revokes those it listed.
LEMMA CreateRefines ==
    ASSUME IInv, NEW r \in Requests, NEW i \in fresh, NEW token \in Tokens \ issued,
           At(r, "create"), Created(r, i, token)
    PROVE  Lifecycle!Next
<1> DEFINE pending == req[r].pending
           replaced == {j \in Ids : j \in pending /\ st[j] # "revoked"}
<1>1. i \in Ids /\ i \notin pending /\ inv[i] = None /\ now' = now
    <2>1. i \in Ids /\ i \notin pending
        BY CreatedRows
    <2>2. inv[i] = None
        BY DEF IInv
    <2> QED BY <2>1, <2>2 DEF Created
<1>2. st[i] = "none" /\ st'[i] \in {"pending", "expired"}
    BY <1>1, CreatedRows, StatusFacts, NoneIsNoInvitation
<1>3. \A j \in pending : j \in Ids /\ st'[j] = "revoked" /\ st[j] \notin {"none", "gone"}
    <2>1. \A j \in pending : j \in Ids /\ inv[j] # None
        BY DEF Created, Live
    <2> QED BY <2>1, CreatedRows, StatusFacts, NoneIsNoInvitation
<1>4. \A j \in Ids : j # i /\ j \notin pending => st'[j] = st[j]
    BY <1>1, CreatedRows, SameStatus DEF Created
<1>5. \A j \in Ids : st[j] \in {"none", "pending", "expired", "accepted", "revoked", "gone"}
    BY StatusFacts
<1>6. i \in Lifecycle!Having("none") /\ replaced \subseteq Lifecycle!Revocable
    BY <1>1, <1>2, <1>3, <1>5 DEF Lifecycle!Having, Lifecycle!Revocable, st
<1>7. st' = [j \in Ids |-> IF j = i THEN st'[i] ELSE IF j \in replaced THEN "revoked" ELSE st[j]]
    <2>1. \A j \in Ids :
            st'[j] = IF j = i THEN st'[i] ELSE IF j \in replaced THEN "revoked" ELSE st[j]
        BY <1>3, <1>4
    <2> HIDE DEF replaced
    <2> QED BY <2>1 DEF st
<1> HIDE DEF replaced, pending
<1>8. Lifecycle!Create(i, replaced)
    BY <1>2, <1>6, <1>7 DEF Lifecycle!Create, st
<1>9. replaced \in SUBSET Ids
    BY DEF replaced
<1> QED BY <1>1, <1>8, <1>9 DEF Lifecycle!Next

\* A step that gives the invitations of ids the status s and changes no other.
LEMMA BecomesStep ==
    ASSUME NEW ids \in SUBSET Ids, NEW s,
           \A i \in Ids : st'[i] = IF i \in ids THEN s ELSE st[i]
    PROVE  Lifecycle!Becomes(ids, s)
    BY DEF Lifecycle!Becomes, st

\* A step that changes the status of no invitation.
LEMMA StutterStep ==
    ASSUME \A i \in Ids : st'[i] = st[i]
    PROVE  st' = st
    BY DEF st

\* The invitations in a status, in terms of the table.
LEMMA HavingIs ==
    ASSUME NEW s, NEW i
    PROVE  i \in Lifecycle!Having(s) <=> i \in Ids /\ st[i] = s
    BY DEF Lifecycle!Having, st

\* An update accepts, revokes or resends one invitation, or is not visible.
LEMMA UpdateRefines ==
    ASSUME IInv, NEW r \in Requests, CommitAccept(r) \/ CommitRevoke(r) \/ CommitResend(r),
           ~ End(r)
    PROVE  Lifecycle!Next \/ st' = st
<1> DEFINE i == req[r].id
<1>1. PICK row :
        /\ Updated(r, row)
        /\ \/ CommitAccept(r) /\ row = [inv[i] EXCEPT !.accepted = TRUE]
           \/ CommitRevoke(r) /\ \E t \in Time : row = [inv[i] EXCEPT !.revoked = TRUE,
                                                                      !.expires = t]
           \/ CommitResend(r) /\ \E t \in Time, token \in Tokens :
                                    row = [inv[i] EXCEPT !.token = token, !.expires = t]
    BY UpdateEffect
<1>2. i \in Ids /\ inv[i] \in Invitation
    BY <1>1 DEF Updated, Live, IInv, TypeOK
<1>3. row \in Invitation
    BY <1>1, <1>2 DEF Invitation
<1>4. inv'[i] = row /\ now' = now /\ fresh' = fresh /\ i \notin fresh
    BY <1>1, <1>2, NoneIsNoInvitation DEF Updated, IInv, TypeOK
<1>5. \A j \in Ids : j # i => st'[j] = st[j]
    BY <1>1, <1>4, SameStatus DEF Updated, IInv, TypeOK
<1>6. CASE CommitAccept(r) /\ row = [inv[i] EXCEPT !.accepted = TRUE]
    <2>1. row.accepted /\ row.revoked = inv[i].revoked
        BY <1>2, <1>6 DEF Invitation
    <2>2. CASE st[i] \in {"pending", "expired"}
        <3>1. st'[i] = "accepted"
            BY <1>2, <1>3, <1>4, <2>1, <2>2, StatusFacts, NoneIsNoInvitation
        <3>2. Lifecycle!Becomes({i}, "accepted")
            BY <1>2, <1>5, <3>1, BecomesStep
        <3>3. i \in Lifecycle!Having("pending") \cup Lifecycle!Having("expired")
            BY <1>2, <2>2, HavingIs
        <3> QED BY <1>2, <3>2, <3>3 DEF Lifecycle!Next, Lifecycle!Accept
    <2>3. CASE st[i] \notin {"pending", "expired"}
        <3>1. st'[i] = st[i]
            BY <1>2, <1>3, <1>4, <2>1, <2>3, StatusFacts, NoneIsNoInvitation
        <3> QED BY <1>5, <3>1, StutterStep
    <2> QED BY <2>2, <2>3
<1>7. CASE CommitRevoke(r) /\ \E t \in Time : row = [inv[i] EXCEPT !.revoked = TRUE,
                                                                   !.expires = t]
    <2>1. row.revoked
        BY <1>2, <1>7 DEF Invitation
    <2>2. st'[i] = "revoked" /\ st[i] \in {"pending", "expired", "accepted", "revoked"}
        BY <1>2, <1>3, <1>4, <2>1, StatusFacts, NoneIsNoInvitation
    <2>3. CASE st[i] = "revoked"
        BY <1>5, <2>2, <2>3, StutterStep
    <2>4. CASE st[i] # "revoked"
        <3>1. Lifecycle!Becomes({i}, "revoked")
            BY <1>2, <1>5, <2>2, BecomesStep
        <3>2. i \in Lifecycle!Revocable
            BY <1>2, <2>2, <2>4, HavingIs DEF Lifecycle!Revocable
        <3> QED BY <1>2, <3>1, <3>2 DEF Lifecycle!Next, Lifecycle!Revoke
    <2> QED BY <2>3, <2>4
<1>8. CASE CommitResend(r) /\ \E t \in Time, token \in Tokens :
                                 row = [inv[i] EXCEPT !.token = token, !.expires = t]
    <2>1. row.accepted = inv[i].accepted /\ row.revoked = inv[i].revoked
        BY <1>2, <1>8 DEF Invitation
    <2>2. \/ st'[i] = st[i]
          \/ st[i] = "expired" /\ st'[i] = "pending"
          \/ st[i] = "pending" /\ st'[i] = "expired"
        BY <1>2, <1>3, <1>4, <2>1, StatusFacts, NoneIsNoInvitation
    <2>3. CASE st'[i] = st[i]
        BY <1>5, <2>3, StutterStep
    <2>4. CASE st[i] = "expired" /\ st'[i] = "pending"
        <3>1. Lifecycle!Becomes({i}, "pending") /\ i \in Lifecycle!Having("expired")
            BY <1>2, <1>5, <2>4, BecomesStep, HavingIs
        <3> QED BY <1>2, <3>1 DEF Lifecycle!Next, Lifecycle!Resend
    <2>5. CASE st[i] = "pending" /\ st'[i] = "expired"
        <3>1. Lifecycle!Becomes({i}, "expired") /\ i \in Lifecycle!Having("pending")
            BY <1>2, <1>5, <2>5, BecomesStep, HavingIs
        <3> QED BY <1>2, <3>1 DEF Lifecycle!Next, Lifecycle!Resend
    <2> QED BY <2>2, <2>3, <2>4, <2>5
<1> QED BY <1>1, <1>6, <1>7, <1>8

\* The cleanup takes no pending invitation.
LEMMA CleanupRefines == ASSUME IInv, purge_stale_invitations PROVE Lifecycle!Next
<1> DEFINE ids == {i \in Ids : i \in Live /\ Stale(inv[i])}
<1>1. \A i \in ids : st[i] \in {"expired", "accepted", "revoked"} /\ st'[i] = "gone"
    <2>1. ASSUME NEW i \in ids PROVE st[i] \in {"expired", "accepted", "revoked"}
        <3>1. i \in Ids /\ inv[i] \in Invitation /\ now \in Nat
            BY ClockType, Durations DEF Live, IInv, TypeOK, Clock
        <3>2. inv[i].expires \in Nat /\ (inv[i].expires < now \/ inv[i].revoked)
            BY <3>1, Durations DEF Invitation, Time, Stale
        <3> QED BY <3>1, <3>2, StatusFacts, NoneIsNoInvitation
    <2>2. ASSUME NEW i \in ids PROVE st'[i] = "gone"
        <3>1. i \in Ids /\ inv'[i] = None /\ i \notin fresh'
            BY DEF purge_stale_invitations, Live, IInv, TypeOK
        <3> QED BY <3>1, StatusFacts
    <2> QED BY <2>1, <2>2
<1>2. \A i \in Ids : i \notin ids => st'[i] = st[i]
    <2>1. \A i \in Ids : i \notin ids => inv'[i] = inv[i]
        BY DEF purge_stale_invitations
    <2> QED BY <2>1, SameStatus DEF purge_stale_invitations
<1> HIDE DEF ids
<1>3. ids \in SUBSET Ids
    BY DEF ids
<1>4. Lifecycle!Becomes(ids, "gone")
    BY <1>1, <1>2, <1>3, BecomesStep
<1>5. ids \subseteq Lifecycle!Having("expired") \cup Lifecycle!Having("accepted")
                       \cup Lifecycle!Having("revoked")
    BY <1>1, <1>3, HavingIs
<1> QED BY <1>3, <1>4, <1>5 DEF Lifecycle!Next, Lifecycle!Cleanup

\* The deletion of the tenant takes them all.
LEMMA DeleteTenantRefines == ASSUME IInv, DeleteTenant PROVE Lifecycle!Next
<1> DEFINE ids == {i \in Ids : st[i] # "none"}
<1>1. \A i \in Ids : st'[i] = IF i \in ids THEN "gone" ELSE st[i]
    <2>1. \A i \in Ids : inv'[i] = None /\ (i \in fresh' <=> i \in fresh)
        BY DEF DeleteTenant
    <2>2. \A i \in fresh : inv[i] = None
        BY DEF IInv
    <2> QED BY <2>1, <2>2, StatusFacts
<1>2. Lifecycle!Becomes(ids, "gone")
    BY <1>1, BecomesStep
<1>3. Lifecycle!DeleteAll
    BY <1>2 DEF Lifecycle!DeleteAll, Lifecycle!Becomes, st
<1> QED BY <1>3 DEF Lifecycle!Next

\* The clock only makes pending invitations expire.
LEMMA TickRefines == ASSUME IInv, Tick PROVE Lifecycle!Next
<1> DEFINE ids == {i \in Ids : st[i] = "pending" /\ st'[i] # "pending"}
<1>1. now \in Nat /\ now' = now + 1 /\ inv' = inv /\ fresh' = fresh
    BY ClockType, Durations DEF Tick, IInv, TypeOK, Clock
<1>2. ASSUME NEW i \in Ids PROVE st'[i] = IF i \in ids THEN "expired" ELSE st[i]
    <2>1. inv[i] # None => inv[i].expires \in Nat
        BY Durations DEF IInv, TypeOK, Invitation, Time
    <2> QED BY <1>1, <2>1, StatusFacts
<1> HIDE DEF ids
<1>3. ids \in SUBSET Ids /\ ids \subseteq Lifecycle!Having("pending")
    BY HavingIs DEF ids
<1>4. Lifecycle!Becomes(ids, "expired")
    BY <1>2, <1>3, BecomesStep
<1> QED BY <1>3, <1>4 DEF Lifecycle!Next, Lifecycle!Expire

\* A step that leaves the table and the clock alone is not visible.
LEMMA QuietRefines ==
    ASSUME UNCHANGED <<inv, fresh, now>> PROVE st' = st
    BY SameStatus, StutterStep

\* The lifecycle the computed status shows is what the table implements.
THEOREM Refinement == Spec => RefinesLifecycle
<1>1. Init => Lifecycle!Init
    BY DEF Init, Lifecycle!Init, StatusOf
<1>2. ASSUME IInv, [Next]_vars PROVE Lifecycle!Next \/ st' = st
    <2>1. CASE UNCHANGED vars
        BY <2>1, QuietRefines DEF vars
    <2>2. ASSUME NEW r \in Requests,
                 \/ \E emails \in Batches : StartCreate(r, emails)
                 \/ \E token \in Tokens, email \in Emails : StartAccept(r, token, email)
                 \/ \E i \in Ids : StartRevoke(r, i) \/ StartResend(r, i)
                 \/ LoadPending(r) \/ Abort(r) \/ End(r)
          PROVE  st' = st
        <3>1. UNCHANGED <<inv, fresh, now>>
            BY <2>2 DEF StartCreate, StartAccept, StartRevoke, StartResend, Begin, LoadPending,
                        Abort, End
        <3> QED BY <3>1, QuietRefines
    <2>3. ASSUME NEW r \in Requests, CommitCreate(r) PROVE Lifecycle!Next \/ st' = st
        BY <1>2, <2>2, <2>3, CreateEffect, CreateRefines DEF CommitCreate
    <2>4. ASSUME NEW r \in Requests, CommitAccept(r) \/ CommitRevoke(r) \/ CommitResend(r)
          PROVE  Lifecycle!Next \/ st' = st
        BY <1>2, <2>2, <2>4, UpdateRefines
    <2> QED BY <1>2, <2>1, <2>2, <2>3, <2>4, CleanupRefines, DeleteTenantRefines, TickRefines
            DEF Next
<1>3. IInv /\ [Next]_vars => [Lifecycle!Next]_st
    BY <1>2
<1> QED BY <1>1, <1>3, Invariance, PTL DEF Spec, RefinesLifecycle, Lifecycle!Spec, st

-----------------------------------------------------------------------------
(* What can open an invitation *)

\* The clock never goes back.
LEMMA ClockOnward == ASSUME IInv, [Next]_vars PROVE now \in Nat /\ now' \in Nat /\ now' >= now
<1>1. now \in Nat
    BY Durations DEF IInv, TypeOK, Clock
<1>2. now' = now \/ Tick
    BY DEF Next, vars, StartCreate, StartAccept, StartRevoke, StartResend, Begin, LoadPending,
           CommitCreate, CommitAccept, CommitRevoke, CommitResend, Update, Abort, End,
           purge_stale_invitations, DeleteTenant
<1> QED BY <1>1, <1>2 DEF Tick

\* Rows are written by the commits of requests, and deleted.
LEMMA RowsWritten ==
    ASSUME IInv, [Next]_vars, NEW i \in Ids, inv'[i] # inv[i], inv'[i] # None
    PROVE  \E r \in Requests :
              ~ End(r) /\ (CommitCreate(r) \/ CommitAccept(r) \/ CommitRevoke(r) \/ CommitResend(r))
<1>1. inv' # inv
    OBVIOUS
<1>2. ~ purge_stale_invitations
    BY DEF purge_stale_invitations
<1>3. ~ DeleteTenant
    BY DEF DeleteTenant
<1> QED BY <1>1, <1>2, <1>3
        DEF Next, vars, StartCreate, StartAccept, StartRevoke, StartResend, Begin, LoadPending,
            Abort, End, Tick

\* A row that a step writes and leaves open has a token never issued before: it
\* was resent, or created for its address by a request that closes what it had
\* found pending there and leaves the rest alone.
LEMMA OpenRow ==
    ASSUME IInv, [Next]_vars, NEW i \in Ids,
           inv'[i] # inv[i], inv'[i] # None, ~ inv'[i].accepted, ~ inv'[i].revoked
    PROVE  /\ inv'[i].token \notin issued
           /\ \E r \in Requests :
                /\ req[r] # None /\ req'[r] # req[r]
                /\ \/ req[r].op = "resend"
                   \/ /\ req[r].op = "create" /\ req[r].stage = "commit"
                      /\ inv'[i].email = Head(req[r].emails) /\ now' = now
                      /\ \A j \in Ids : j # i => \/ inv'[j] = inv[j]
                                                 \/ j \in req[r].pending /\ inv'[j].revoked
                      /\ \A j \in req[r].pending : inv'[j].revoked
<1>1. PICK r \in Requests :
         ~ End(r) /\ (CommitCreate(r) \/ CommitAccept(r) \/ CommitRevoke(r) \/ CommitResend(r))
    BY RowsWritten
<1>2. req \in [Requests -> CreateRequest \cup UpdateRequest \cup {None}]
      /\ inv \in [Ids -> Invitation \cup {None}]
    BY DEF IInv, TypeOK
<1>3. CASE CommitCreate(r)
    <2>1. At(r, "create") /\ req[r].stage = "commit"
        BY <1>3 DEF CommitCreate
    <2>2. PICK k \in fresh, token \in Tokens \ issued : Created(r, k, token)
        BY <1>1, <1>3, CreateEffect
    <2>3. /\ k \in Ids
          /\ \A j \in req[r].pending : inv'[j].revoked
          /\ \A j \in Ids : j # k /\ j \notin req[r].pending => inv'[j] = inv[j]
          /\ req[r] \in CreateRequest
        BY <2>1, <2>2, CreatedRows
    <2>4. i = k
        BY <2>3
    <2>5. inv'[i].token = token /\ inv'[i].email = Head(req[r].emails)
        BY <2>2, <2>3, <2>4 DEF Created
    <2>6. AfterCreate(r) # req[r]
        BY <1>2, <2>1, <2>3, NoneIsNoRequest DEF AfterCreate, CreateRequest
    <2>7. req[r] # None /\ req'[r] # req[r] /\ now' = now
        BY <1>2, <2>1, <2>2, <2>6 DEF Created, At
    <2> QED BY <2>1, <2>3, <2>4, <2>5, <2>7 DEF At
<1>4. CASE CommitAccept(r) \/ CommitRevoke(r)
    <2>1. PICK row : /\ req[r].id \in Live /\ inv' = [inv EXCEPT ![req[r].id] = row]
                     /\ \/ row = [inv[req[r].id] EXCEPT !.accepted = TRUE]
                        \/ \E t : row = [inv[req[r].id] EXCEPT !.revoked = TRUE, !.expires = t]
        BY <1>1, <1>4 DEF CommitAccept, CommitRevoke, Update
    <2>2. i = req[r].id /\ inv'[i] = row /\ inv[i] \in Invitation
        BY <1>2, <2>1 DEF Live
    <2>3. row.accepted \/ row.revoked
        BY <2>1, <2>2 DEF Invitation
    <2> QED BY <2>2, <2>3
<1>5. CASE CommitResend(r)
    <2>1. /\ req[r] # None /\ req[r].op = "resend" /\ req'[r] = None
        BY <1>1, <1>2, <1>5 DEF CommitResend, At, Update, End
    <2>2. inv'[i].token \notin issued
        BY <1>1, <1>2, <1>5 DEF CommitResend, Update, Live, Invitation
    <2> QED BY <2>1, <2>2
<1> QED BY <1>1, <1>3, <1>4, <1>5

\* The rows' deadlines are numbers.
LEMMA DeadlineType ==
    ASSUME IInv, NEW i \in Ids, inv[i] # None
    PROVE  inv[i] \in Invitation /\ inv[i].expires \in Nat
    BY Durations DEF IInv, TypeOK, Invitation, Time

\* A row that is not written is not pending again.
LEMMA PendingBefore ==
    ASSUME IInv, [Next]_vars, NEW i \in Ids, inv[i] # None, inv'[i] = inv[i],
           StatusOf(i)' = "pending"
    PROVE  StatusOf(i) = "pending"
<1>1. now \in Nat /\ now' \in Nat /\ now' >= now /\ inv[i].expires \in Nat
    BY ClockOnward, DeadlineType
<1>2. ~ inv[i].revoked /\ ~ inv[i].accepted /\ ~ (now' > inv[i].expires)
    BY DEF StatusOf, is_expired
<1> QED BY <1>1, <1>2 DEF StatusOf, is_expired

\* A token that is dead stays so: open rows keep theirs or get a fresh one.
THEOREM DeadTokens == Spec => DeadTokenStaysDead
<1>1. ASSUME IInv, [Next]_vars, NEW token \in issued, Usable(token)'
      PROVE  Usable(token)
    <2>1. PICK i \in Ids : inv'[i] # None /\ inv'[i].token = token /\ StatusOf(i)' = "pending"
        BY <1>1 DEF Usable, Live
    <2>2. ~ inv'[i].revoked /\ ~ inv'[i].accepted
        BY <2>1 DEF StatusOf
    <2>3. inv'[i] = inv[i]
        BY <1>1, <2>1, <2>2, OpenRow
    <2>4. StatusOf(i) = "pending"
        BY <1>1, <2>1, <2>3, PendingBefore
    <2> QED BY <2>1, <2>3, <2>4 DEF Usable, Live
<1>2. IInv /\ [Next]_vars => [\A token \in issued : ~ Usable(token) => ~ Usable(token)']_vars
    BY <1>1
<1> QED BY <1>2, Invariance, PTL DEF Spec, DeadTokenStaysDead

\* A second pending invitation comes from a resend, or from the commit of a
\* creation that did not know the first.
LEMMA NewTwins ==
    ASSUME IInv, [Next]_vars, NEW i \in Ids, NEW j \in Ids, Twins(i, j)', ~ Twins(i, j)
    PROVE  \E r \in Requests :
              /\ req[r] # None /\ req'[r] # req[r]
              /\ \/ req[r].op = "resend"
                 \/ /\ req[r].op = "create" /\ req[r].stage = "commit"
                    /\ PendingFor(Head(req[r].emails)) \ req[r].pending # {}
<1> DEFINE Explained ==
        \E r \in Requests :
           /\ req[r] # None /\ req'[r] # req[r]
           /\ \/ req[r].op = "resend"
              \/ /\ req[r].op = "create" /\ req[r].stage = "commit"
                 /\ PendingFor(Head(req[r].emails)) \ req[r].pending # {}
<1>1. ASSUME NEW k \in Ids, NEW l \in Ids, Twins(k, l)', inv'[k] # inv[k]
      PROVE  Explained
    <2>1. /\ inv'[k] # None /\ ~ inv'[k].accepted /\ ~ inv'[k].revoked
          /\ inv'[l] # None /\ ~ inv'[l].accepted /\ ~ inv'[l].revoked
          /\ k # l /\ inv'[k].email = inv'[l].email /\ inv'[l].expires > now'
        BY <1>1 DEF Twins, Live, is_open
    <2>2. PICK r \in Requests :
             /\ req[r] # None /\ req'[r] # req[r]
             /\ \/ req[r].op = "resend"
                \/ /\ req[r].op = "create" /\ req[r].stage = "commit"
                   /\ inv'[k].email = Head(req[r].emails) /\ now' = now
                   /\ \A m \in Ids : m # k => \/ inv'[m] = inv[m]
                                              \/ m \in req[r].pending /\ inv'[m].revoked
                   /\ \A m \in req[r].pending : inv'[m].revoked
        BY <1>1, <2>1, OpenRow
    <2>3. CASE req[r].op = "resend"
        BY <2>2, <2>3
    <2>4. CASE req[r].op # "resend"
        <3>1. inv'[l] = inv[l] /\ l \notin req[r].pending
            BY <2>1, <2>2, <2>4
        <3>2. l \in PendingFor(Head(req[r].emails))
            BY <2>1, <2>2, <2>4, <3>1 DEF PendingFor, Live, is_open
        <3> QED BY <2>2, <2>4, <3>1, <3>2
    <2> QED BY <2>3, <2>4
<1>2. inv'[i] # inv[i] \/ inv'[j] # inv[j]
    <2>1. SUFFICES ASSUME inv'[i] = inv[i], inv'[j] = inv[j] PROVE Twins(i, j)
        OBVIOUS
    <2>2. /\ inv[i] # None /\ ~ inv[i].accepted /\ ~ inv[i].revoked /\ inv[i].expires > now'
          /\ inv[j] # None /\ ~ inv[j].accepted /\ ~ inv[j].revoked /\ inv[j].expires > now'
          /\ i # j /\ inv[i].email = inv[j].email
        BY <2>1 DEF Twins, Live, is_open
    <2>3. now \in Nat /\ now' \in Nat /\ now' >= now
          /\ inv[i].expires \in Nat /\ inv[j].expires \in Nat
        BY <2>2, ClockOnward, DeadlineType
    <2>4. inv[i].expires > now /\ inv[j].expires > now
        BY <2>2, <2>3
    <2> QED BY <2>2, <2>4 DEF Twins, Live, is_open
<1>3. Twins(j, i)'
    BY DEF Twins
<1> HIDE DEF Explained
<1>4. Explained
    BY <1>1, <1>2, <1>3
<1> QED BY <1>4 DEF Explained

\* A creation finds the pending invitations of its address or has been overtaken.
THEOREM TwinsExplained == Spec => TwinsOnlyByResendOrRace
<1>1. IInv /\ [Next]_vars
      => [\A i, j \in Ids : Twins(i, j)' /\ ~ Twins(i, j) =>
             \E r \in Requests :
                /\ req[r] # None /\ req'[r] # req[r]
                /\ \/ req[r].op = "resend"
                   \/ /\ req[r].op = "create"
                      /\ PendingFor(Head(req[r].emails)) \ req[r].pending # {}]_vars
    BY NewTwins
<1> QED BY <1>1, Invariance, PTL DEF Spec, TwinsOnlyByResendOrRace

-----------------------------------------------------------------------------
(* One request at a time *)

\* No two requests overlap.  The cleanup, the deletion of the tenant and the
\* clock still run beside them.
OneAtATime == \A r, s \in Requests : r = s

\* What a request has checked is so when it commits: its invitation is open, or
\* deleted, and a creation knows every pending one of its address.
Current(q, tbl, time) ==
    /\ q.op # "create" => tbl[q.id] = None \/ is_open(tbl[q.id])
    /\ q.op = "create" /\ q.stage = "commit" =>
          \A i \in Ids : tbl[i] # None =>
              /\ i \in q.pending => is_open(tbl[i])
              /\ /\ tbl[i].email = Head(q.emails)
                 /\ is_open(tbl[i]) /\ tbl[i].expires > time
                 => i \in q.pending

SerialInv ==
    /\ AcceptedNotRevoked
    /\ \A r \in Requests : req[r] # None => Current(req[r], inv, now)

\* A request that begins or reads.
LEMMA SerialReadStep ==
    ASSUME IInv, SerialInv, NEW r \in Requests, NEW q,
           req' = [req EXCEPT ![r] = q], UNCHANGED <<inv, now>>,
           q # None => Current(q, inv, now)
    PROVE  SerialInv'
<1>1. \A s \in Requests : req'[s] = IF s = r THEN q ELSE req[s]
    BY DEF IInv, TypeOK
<1>2. ASSUME NEW s \in Requests, req'[s] # None PROVE Current(req[s], inv, now)'
    <2>1. Current(req'[s], inv, now)
        BY <1>1, <1>2 DEF SerialInv
    <2> QED BY <2>1 DEF Current, is_open
<1> QED BY <1>2 DEF SerialInv, AcceptedNotRevoked, Live

\* The requests begin with what they checked, and LoadPending finds them all.
LEMMA SerialBeginStep ==
    ASSUME IInv, SerialInv, NEW r \in Requests,
           \/ \E emails \in Batches : StartCreate(r, emails)
           \/ \E token \in Tokens, email \in Emails : StartAccept(r, token, email)
           \/ \E i \in Ids : StartRevoke(r, i) \/ StartResend(r, i)
           \/ LoadPending(r) \/ Abort(r)
    PROVE  SerialInv'
<1>1. CASE \E emails \in Batches : StartCreate(r, emails)
    <2>1. PICK emails \in Batches : StartCreate(r, emails)
        BY <1>1
    <2> DEFINE q == [op |-> "create", stage |-> "load", emails |-> emails,
                     pending |-> {}, at |-> 0]
    <2>2. req' = [req EXCEPT ![r] = q] /\ UNCHANGED <<inv, now>>
        BY <2>1 DEF StartCreate, Begin
    <2>3. Current(q, inv, now)
        BY DEF Current
    <2> QED BY <2>2, <2>3, SerialReadStep
<1>2. ASSUME NEW i \in Ids, NEW q, i \in Live, is_open(inv[i]),
             q.op # "create", q.id = i, Begin(r, q)
      PROVE  SerialInv'
    <2>1. Current(q, inv, now)
        BY <1>2 DEF Current
    <2> QED BY <1>2, <2>1, SerialReadStep DEF Begin
<1>3. CASE \E token \in Tokens, email \in Emails : StartAccept(r, token, email)
    <2>1. PICK i \in Live : is_open(inv[i]) /\ Begin(r, [op |-> "accept", id |-> i])
        BY <1>3 DEF StartAccept
    <2> DEFINE q == [op |-> "accept", id |-> i]
    <2>2. q.op # "create" /\ q.id = i
        OBVIOUS
    <2> HIDE DEF q
    <2>3. Begin(r, q)
        BY <2>1 DEF q
    <2> QED BY <1>2, <2>1, <2>2, <2>3 DEF Live
<1>4. ASSUME NEW i \in Ids, StartRevoke(r, i) PROVE SerialInv'
    <2> DEFINE q == [op |-> "revoke", id |-> i, at |-> now, expires |-> inv[i].expires]
    <2>1. q.op # "create" /\ q.id = i /\ Begin(r, q)
        BY <1>4 DEF StartRevoke
    <2> HIDE DEF q
    <2> QED BY <1>2, <1>4, <2>1 DEF StartRevoke
<1>5. ASSUME NEW i \in Ids, StartResend(r, i) PROVE SerialInv'
    <2> DEFINE q == [op |-> "resend", id |-> i, at |-> now]
    <2>1. q.op # "create" /\ q.id = i /\ Begin(r, q)
        BY <1>5 DEF StartResend
    <2> HIDE DEF q
    <2> QED BY <1>2, <1>5, <2>1 DEF StartResend
<1>6. CASE LoadPending(r)
    <2> DEFINE pending == PendingFor(Head(req[r].emails))
               q == [req[r] EXCEPT !.stage = "commit", !.at = now, !.pending = pending]
    <2>1. req[r] \in CreateRequest
        BY <1>6 DEF LoadPending, At, IInv, TypeOK, UpdateRequest
    <2>2. req' = [req EXCEPT ![r] = q] /\ UNCHANGED <<inv, now>>
        BY <1>6 DEF LoadPending
    <2>3. q.op = "create" /\ q.pending = pending /\ q.emails = req[r].emails
        BY <2>1 DEF CreateRequest
    <2> HIDE DEF q
    <2>4. Current(q, inv, now)
        BY <2>3 DEF Current, PendingFor, Live
    <2> QED BY <2>2, <2>4, SerialReadStep
<1>7. CASE Abort(r)
    BY <1>7, SerialReadStep DEF Abort, End
<1> QED BY <1>1, <1>3, <1>4, <1>5, <1>6, <1>7

\* No other request is in flight when one commits.
LEMMA SerialCommitStep ==
    ASSUME IInv, OneAtATime, NEW r \in Requests, NEW q, req' = [req EXCEPT ![r] = q],
           q = None \/ (q.op = "create" /\ q.stage = "load"), AcceptedNotRevoked'
    PROVE  SerialInv'
<1>1. \A s \in Requests : req'[s] = q
    BY DEF OneAtATime, IInv, TypeOK
<1> QED BY <1>1 DEF SerialInv, Current

\* The commits write to open invitations only.
LEMMA SerialWriteStep ==
    ASSUME IInv, SerialInv, OneAtATime, NEW r \in Requests,
           CommitCreate(r) \/ CommitAccept(r) \/ CommitRevoke(r) \/ CommitResend(r)
    PROVE  SerialInv'
<1>1. CASE End(r)
    BY <1>1, SerialReadStep DEF End
<1>2. CASE CommitCreate(r) /\ ~ End(r)
    <2>1. At(r, "create") /\ req[r].stage = "commit"
        BY <1>2 DEF CommitCreate
    <2>2. PICK i \in fresh, token \in Tokens \ issued : Created(r, i, token)
        BY <1>2, CreateEffect
    <2>3. /\ req[r] \in CreateRequest /\ ~ inv'[i].revoked /\ ~ inv'[i].accepted
          /\ \A j \in Ids : j # i /\ j \notin req[r].pending => inv'[j] = inv[j]
        BY <2>1, <2>2, CreatedRows
    <2>4. ASSUME NEW j \in req[r].pending PROVE ~ inv'[j].accepted
        <3>1. j \in Ids /\ j # i /\ inv[j] \in Invitation /\ inv[j] # None
            BY <2>1, <2>2, <2>3, CreatedRows DEF CreateRequest, Created, Live, IInv, TypeOK
        <3>2. ~ inv[j].accepted
            BY <2>1, <3>1 DEF SerialInv, Current, At, is_open
        <3>3. Replaced(inv[j], req[r].at).accepted = inv[j].accepted
            BY <3>1 DEF Replaced, Invitation
        <3> QED BY <2>2, <3>1, <3>2, <3>3 DEF Created
    <2>5. AcceptedNotRevoked'
        BY <2>3, <2>4 DEF SerialInv, AcceptedNotRevoked, Live
    <2>6. AfterCreate(r) = None \/ (AfterCreate(r).op = "create" /\ AfterCreate(r).stage = "load")
        BY <2>1, <2>3 DEF AfterCreate, CreateRequest, At
    <2> QED BY <2>2, <2>5, <2>6, SerialCommitStep DEF Created
<1>3. CASE (CommitAccept(r) \/ CommitRevoke(r) \/ CommitResend(r)) /\ ~ End(r)
    <2> DEFINE i == req[r].id
    <2>1. PICK row :
            /\ Updated(r, row)
            /\ \/ row = [inv[i] EXCEPT !.accepted = TRUE]
               \/ \E t \in Time : row = [inv[i] EXCEPT !.revoked = TRUE, !.expires = t]
               \/ \E t \in Time, token \in Tokens :
                     row = [inv[i] EXCEPT !.token = token, !.expires = t]
        BY <1>3, UpdateEffect
    <2>2. /\ i \in Ids /\ inv[i] \in Invitation /\ inv[i] # None /\ req[r] # None
          /\ req[r].op # "create"
          /\ inv' = [inv EXCEPT ![i] = row] /\ req' = [req EXCEPT ![r] = None]
        BY <1>3, <2>1 DEF Updated, Live, IInv, TypeOK, CommitAccept, CommitRevoke, CommitResend, At
    <2>3. ~ inv[i].accepted /\ ~ inv[i].revoked
        BY <2>2 DEF SerialInv, Current, is_open
    <2>4. ~ (row.accepted /\ row.revoked)
        BY <2>1, <2>2, <2>3 DEF Invitation
    <2>5. AcceptedNotRevoked'
        BY <2>2, <2>4 DEF SerialInv, AcceptedNotRevoked, Live, IInv, TypeOK
    <2> QED BY <2>2, <2>5, SerialCommitStep
<1> QED BY <1>1, <1>2, <1>3

\* Rows go and time passes: what was open is open or gone, and nothing is
\* pending that was not.
LEMMA SerialOtherStep ==
    ASSUME IInv, SerialInv, [Next]_vars, req' = req,
           \A i \in Ids : inv'[i] = inv[i] \/ inv'[i] = None
    PROVE  SerialInv'
<1>1. now \in Nat /\ now' \in Nat /\ now' >= now
    BY ClockOnward
<1>2. ASSUME NEW r \in Requests, req'[r] # None PROVE Current(req[r], inv, now)'
    <2>1. PICK q \in CreateRequest \cup UpdateRequest :
            q = req[r] /\ q = req'[r] /\ Current(q, inv, now)
        BY <1>2 DEF SerialInv, IInv, TypeOK
    <2>2. q.op # "create" => q.id \in Ids
        BY <2>1 DEF CreateRequest, UpdateRequest
    <2>3. ASSUME NEW i \in Ids, inv'[i] # None
          PROVE  inv'[i] = inv[i] /\ (inv'[i].expires > now' => inv[i].expires > now)
        <3>1. inv'[i] = inv[i] /\ inv[i].expires \in Nat
            BY <2>3, DeadlineType
        <3> QED BY <1>1, <3>1
    <2>4. Current(q, inv', now')
        BY <2>1, <2>2, <2>3 DEF Current
    <2> QED BY <2>1, <2>4 DEF Current, is_open
<1>3. AcceptedNotRevoked'
    BY DEF SerialInv, AcceptedNotRevoked, Live
<1> QED BY <1>2, <1>3 DEF SerialInv

\* One request at a time, every check still holds at the commit.
LEMMA SerialInvariance == ASSUME OneAtATime PROVE Spec => []SerialInv
<1>1. ASSUME Init PROVE SerialInv
    BY <1>1 DEF Init, SerialInv, AcceptedNotRevoked, Live
<1>2. ASSUME IInv, SerialInv, [Next]_vars PROVE SerialInv'
    <2>1. CASE UNCHANGED vars
        BY <1>2, <2>1, SerialOtherStep DEF vars
    <2>2. CASE purge_stale_invitations \/ DeleteTenant \/ Tick
        <3>1. req' = req /\ \A i \in Ids : inv'[i] = inv[i] \/ inv'[i] = None
            BY <2>2 DEF purge_stale_invitations, DeleteTenant, Tick
        <3> QED BY <1>2, <3>1, SerialOtherStep
    <2> QED BY <1>2, <2>1, <2>2, SerialBeginStep, SerialWriteStep DEF Next
<1> QED BY <1>1, <1>2, Invariance, PTL DEF Spec

\* "Accepted invitations cannot be revoked": that is so when no revocation or
\* re-invite overlaps the acceptance.
THEOREM SerialAcceptance == ASSUME OneAtATime PROVE Spec => []AcceptedNotRevoked
<1>1. SerialInv => AcceptedNotRevoked
    BY DEF SerialInv
<1> QED BY <1>1, SerialInvariance, PTL

\* "Previous pending invitations for same email+tenant auto-revoked on
\* re-invite": without overlaps only the resending of an expired invitation
\* gives an address a second pending one.
THEOREM SerialTwins ==
    ASSUME OneAtATime
    PROVE  Spec => [][\A i, j \in Ids : Twins(i, j)' /\ ~ Twins(i, j) =>
                         \E r \in Requests : At(r, "resend") /\ req'[r] # req[r]]_vars
<1>1. ASSUME IInv, SerialInv, [Next]_vars, NEW i \in Ids, NEW j \in Ids,
             Twins(i, j)', ~ Twins(i, j)
      PROVE  \E r \in Requests : At(r, "resend") /\ req'[r] # req[r]
    <2>1. PICK r \in Requests :
             /\ req[r] # None /\ req'[r] # req[r]
             /\ \/ req[r].op = "resend"
                \/ /\ req[r].op = "create" /\ req[r].stage = "commit"
                   /\ PendingFor(Head(req[r].emails)) \ req[r].pending # {}
        BY <1>1, NewTwins
    <2>2. req[r].op = "create" /\ req[r].stage = "commit" =>
             PendingFor(Head(req[r].emails)) \subseteq req[r].pending
        BY <1>1, <2>1 DEF SerialInv, Current, PendingFor, Live
    <2> QED BY <2>1, <2>2 DEF At
<1>2. IInv /\ SerialInv /\ [Next]_vars
      => [\A i, j \in Ids : Twins(i, j)' /\ ~ Twins(i, j) =>
             \E r \in Requests : At(r, "resend") /\ req'[r] # req[r]]_vars
    BY <1>1
<1> QED BY <1>2, Invariance, SerialInvariance, PTL DEF Spec
=============================================================================
