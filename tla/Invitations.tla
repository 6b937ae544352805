---------------------------- MODULE Invitations ----------------------------
(***************************************************************************)
(* The invitations of one tenant: creating them (one or in bulk), looking  *)
(* them up by token or id to accept, revoke or resend them, the cleanup of *)
(* old rows and the deletion of the tenant.                                *)
(*                                                                         *)
(* A request reads its invitation in one step, checks it, and writes in a  *)
(* later step, at its commit; the membership an acceptance grants is       *)
(* written by the same commit and is the subject of TenantMembership.      *)
(* Time is counted in ticks.                                               *)
(***************************************************************************)
EXTENDS Naturals, Sequences, FiniteSets

CONSTANTS
    Ids,          \* primary keys invitations can get (bounds the creations)
    Tokens,       \* values token_urlsafe can draw (bounds creations and resends)
    Emails,       \* normalized addresses that are invited
    Requests,     \* request slots: how many requests run at the same time
    Ttl,          \* expires_in_days, in ticks
    CleanupAge,   \* invitation_days of the cleanup, in ticks
    MaxBulk,      \* invitations in one request (the API allows 50)
    MaxTime,      \* bound on the clock
    None          \* no row, no request

ASSUME Durations == Ttl \in Nat /\ CleanupAge \in Nat /\ MaxTime \in Nat /\ MaxBulk \in Nat

Clock == 0 .. MaxTime
Time  == 0 .. MaxTime + Ttl

Invitation ==
    [ email : Emails, token : Tokens, created : Clock, expires : Time,
      accepted : BOOLEAN, revoked : BOOLEAN ]

ASSUME NoneIsNoInvitation == None \notin Invitation

VARIABLES
    inv,      \* the invitations table, by primary key
    fresh,    \* primary keys never handed out
    issued,   \* tokens handed out so far
    tenant,   \* whether the tenant still exists
    now,      \* utc_now()
    req       \* the request in each slot, None when the slot is free

vars == <<inv, fresh, issued, tenant, now, req>>

(***************************************************************************)
(* A request in flight.  A creation has the addresses still to invite and, *)
(* for the first of them, the invitations it found pending and when.  The  *)
(* others have the invitation they read and checked and, where their write *)
(* depends on it, the time and the deadline they read.                     *)
(***************************************************************************)
Batches == UNION {[1 .. n -> Emails] : n \in 1 .. MaxBulk}

CreateRequest ==
    [ op : {"create"}, stage : {"load", "commit"}, emails : Batches,
      pending : SUBSET Ids, at : Clock ]

UpdateRequest ==
    [ op : {"accept"}, id : Ids ] \cup [ op : {"resend"}, id : Ids, at : Clock ]
        \cup [ op : {"revoke"}, id : Ids, at : Clock, expires : Time ]

ASSUME NoneIsNoRequest == None \notin CreateRequest \cup UpdateRequest

TypeOK ==
    /\ inv \in [Ids -> Invitation \cup {None}]
    /\ fresh \subseteq Ids
    /\ issued \subseteq Tokens
    /\ tenant \in BOOLEAN
    /\ now \in Clock
    /\ req \in [Requests -> CreateRequest \cup UpdateRequest \cup {None}]

-----------------------------------------------------------------------------
(* The computed properties of an invitation *)

is_expired(row) == now > row.expires

is_open(row) == ~ row.accepted /\ ~ row.revoked

\* Invitation.status, and what to call the absence of the row.
StatusOf(i) ==
    IF inv[i] = None THEN IF i \in fresh THEN "none" ELSE "gone"
    ELSE IF inv[i].revoked THEN "revoked"
    ELSE IF inv[i].accepted THEN "accepted"
    ELSE IF is_expired(inv[i]) THEN "expired"
    ELSE "pending"

Live == {i \in Ids : inv[i] # None}

\* What create_invitation selects to revoke: strictly before the deadline.
PendingFor(email) ==
    {i \in Live : inv[i].email = email /\ is_open(inv[i]) /\ inv[i].expires > now}

Init ==
    /\ inv = [i \in Ids |-> None]
    /\ fresh = Ids
    /\ issued = {}
    /\ tenant = TRUE
    /\ now = 0
    /\ req = [r \in Requests |-> None]

-----------------------------------------------------------------------------
(* Requests *)

\* The handler answers without writing, or the process dies and the open
\* transaction rolls back.
End(r) ==
    /\ req' = [req EXCEPT ![r] = None]
    /\ UNCHANGED <<inv, fresh, issued, tenant, now>>

Abort(r) == req[r] # None /\ End(r)

At(r, op) == req[r] # None /\ req[r].op = op

Begin(r, request) ==
    /\ req[r] = None
    /\ req' = [req EXCEPT ![r] = request]
    /\ UNCHANGED <<inv, fresh, issued, tenant, now>>

-----------------------------------------------------------------------------
(* Creating *)

StartCreate(r, emails) ==
    /\ tenant
    /\ Begin(r, [op |-> "create", stage |-> "load", emails |-> emails,
                 pending |-> {}, at |-> 0])

LoadPending(r) ==
    /\ At(r, "create") /\ req[r].stage = "load"
    /\ req' = [req EXCEPT ![r] = [@ EXCEPT !.stage = "commit", !.at = now,
                                           !.pending = PendingFor(Head(req[r].emails))]]
    /\ UNCHANGED <<inv, fresh, issued, tenant, now>>

\* Mutant: a replaced invitation stays as it is.
ReplacedKept(row, at) == row

Replaced(row, at) == [row EXCEPT !.revoked = TRUE, !.expires = at]

\* Mutant: one round too many.
AfterCreateOnceMore(r) ==
    IF Len(req[r].emails) = 0 THEN None
    ELSE [req[r] EXCEPT !.stage = "load", !.emails = Tail(@), !.pending = {}, !.at = 0]

\* Each invitation of a bulk request commits by itself; the first that fails
\* leaves a session that fails every later one.
AfterCreate(r) ==
    IF Len(req[r].emails) = 1 THEN None
    ELSE [req[r] EXCEPT !.stage = "load", !.emails = Tail(@), !.pending = {}, !.at = 0]

\* The pending invitations are revoked and the new one inserted in one commit.
\* It fails without the tenant (foreign key), or when a row it revokes has been
\* deleted meanwhile (StaleDataError).
CommitCreate(r) ==
    /\ At(r, "create") /\ req[r].stage = "commit"
    /\ IF tenant /\ req[r].pending \subseteq Live
       THEN /\ \E i \in fresh, token \in Tokens \ issued :
                 /\ inv' = [j \in Ids |->
                       IF j = i
                       THEN [email |-> Head(req[r].emails), token |-> token,
                             created |-> now, expires |-> req[r].at + Ttl,
                             accepted |-> FALSE, revoked |-> FALSE]
                       ELSE IF j \in req[r].pending THEN Replaced(inv[j], req[r].at)
                       ELSE inv[j]]
                 /\ fresh' = fresh \ {i}
                 /\ issued' = issued \cup {token}
            /\ req' = [req EXCEPT ![r] = AfterCreate(r)]
            /\ UNCHANGED <<tenant, now>>
       ELSE End(r)

-----------------------------------------------------------------------------
(* Accepting, revoking, resending *)

\* A token matches at most one invitation; the address must be the user's.
StartAccept(r, token, email) ==
    \E i \in Live :
        /\ inv[i].token = token
        /\ ~ is_expired(inv[i]) /\ is_open(inv[i])
        /\ inv[i].email = email
        /\ Begin(r, [op |-> "accept", id |-> i])

StartRevoke(r, i) ==
    /\ i \in Live
    /\ is_open(inv[i])
    /\ Begin(r, [op |-> "revoke", id |-> i, at |-> now, expires |-> inv[i].expires])

StartResend(r, i) ==
    /\ i \in Live
    /\ is_open(inv[i])
    /\ Begin(r, [op |-> "resend", id |-> i, at |-> now])

\* The UPDATE of the columns that changed; a deleted row raises StaleDataError.
Update(r, row) ==
    IF req[r].id \in Live
    THEN /\ inv' = [inv EXCEPT ![req[r].id] = row]
         /\ req' = [req EXCEPT ![r] = None]
         /\ UNCHANGED <<fresh, tenant, now>>
    ELSE End(r)

CommitAccept(r) ==
    /\ At(r, "accept")
    /\ Update(r, [inv[req[r].id] EXCEPT !.accepted = TRUE])
    /\ UNCHANGED issued

\* The deadline is cut short unless it was over when the row was read.
CommitRevoke(r) ==
    /\ At(r, "revoke")
    /\ Update(r, [inv[req[r].id] EXCEPT
                    !.revoked = TRUE,
                    !.expires = IF req[r].expires > req[r].at THEN req[r].at ELSE @])
    /\ UNCHANGED issued

\* Mutant: the deadline moves, the token stays.
CommitResendSameToken(r) ==
    /\ At(r, "resend")
    /\ Update(r, [inv[req[r].id] EXCEPT !.expires = req[r].at + Ttl])
    /\ UNCHANGED issued

\* A fresh token and deadline in the same row: the old token is lost.
CommitResend(r) ==
    /\ At(r, "resend")
    /\ \E token \in Tokens \ issued :
          /\ Update(r, [inv[req[r].id] EXCEPT !.token = token, !.expires = req[r].at + Ttl])
          /\ issued' = IF req[r].id \in Live THEN issued \cup {token} ELSE issued

-----------------------------------------------------------------------------
(* Cleanup, the end of the tenant, the clock *)

\* Mutant: old is enough.
StaleByAge(row) == row.created + CleanupAge < now

\* The created_at cutoff, then expired or revoked; an accepted invitation goes
\* like any other once its deadline is over.
Stale(row) ==
    /\ row.created + CleanupAge < now
    /\ row.expires < now \/ row.revoked

purge_stale_invitations ==
    /\ inv' = [i \in Ids |-> IF i \in Live /\ Stale(inv[i]) THEN None ELSE inv[i]]
    /\ UNCHANGED <<fresh, issued, tenant, now, req>>

DeleteTenant ==
    /\ tenant' = FALSE
    /\ inv' = [i \in Ids |-> None]
    /\ UNCHANGED <<fresh, issued, now, req>>

Tick ==
    /\ now < MaxTime
    /\ now' = now + 1
    /\ UNCHANGED <<inv, fresh, issued, tenant, req>>

-----------------------------------------------------------------------------
Next ==
    \/ \E r \in Requests :
          \/ \E emails \in Batches : StartCreate(r, emails)
          \/ \E token \in Tokens, email \in Emails : StartAccept(r, token, email)
          \/ \E i \in Ids : StartRevoke(r, i) \/ StartResend(r, i)
          \/ LoadPending(r) \/ CommitCreate(r)
          \/ CommitAccept(r) \/ CommitRevoke(r) \/ CommitResend(r)
          \/ Abort(r)
    \/ purge_stale_invitations \/ DeleteTenant \/ Tick

Spec == Init /\ [][Next]_vars
-----------------------------------------------------------------------------
(* Properties *)

\* The table implements the lifecycle its computed status promises: a revoked
\* invitation is never open or accepted again, whatever was in flight when it
\* was revoked, and the cleanup takes no invitation still pending.
Lifecycle == INSTANCE InvitationLifecycle WITH status <- [i \in Ids |-> StatusOf(i)]

RefinesLifecycle == Lifecycle!Spec

\* The tokens that still open a membership.
Usable(token) ==
    \E i \in Live : inv[i].token = token /\ StatusOf(i) = "pending"

\* A token that has been issued and is dead (revoked, replaced by a resend,
\* used, expired or deleted) is never usable again: no commit in flight revives
\* the link of an e-mail sent earlier.
DeadTokenStaysDead ==
    [][\A token \in issued : ~ Usable(token) => ~ Usable(token)']_vars

Twins(i, j) ==
    /\ i # j /\ {i, j} \subseteq Live
    /\ inv[i].email = inv[j].email
    /\ \A k \in {i, j} : is_open(inv[k]) /\ inv[k].expires > now

\* "Previous pending invitations for same email+tenant auto-revoked on
\* re-invite": one address gets a second pending invitation only if an expired
\* one is resent, or if the creation's list of pending ones was overtaken by
\* another commit.
TwinsOnlyByResendOrRace ==
    [][\A i, j \in Ids : Twins(i, j)' /\ ~ Twins(i, j) =>
          \E r \in Requests :
             /\ req[r] # None /\ req'[r] # req[r]
             /\ \/ req[r].op = "resend"
                \/ /\ req[r].op = "create"
                   /\ PendingFor(Head(req[r].emails)) \ req[r].pending # {}]_vars

\* "Accepted invitations cannot be revoked."
AcceptedNotRevoked == \A i \in Live : ~ (inv[i].accepted /\ inv[i].revoked)
=============================================================================
