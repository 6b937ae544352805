------------------------ MODULE InvitationLifecycle ------------------------
(***************************************************************************)
(* What the status of an invitation promises its readers, with no table,   *)
(* token or request in flight: the values Invitation.status returns        *)
(* ("none" before the row exists, "gone" once it is deleted) and the only  *)
(* ways from one to another.                                               *)
(*                                                                         *)
(* Requests overlap and the clock runs while they do: an acceptance that   *)
(* was checked in time commits after the expiry, a revocation that was     *)
(* checked before an acceptance commits after it.  What remains of the     *)
(* rules of the service is that revoked is final, that accepted is final   *)
(* but for such a revocation, and that nothing pending is cleaned up.      *)
(***************************************************************************)
CONSTANTS Ids

VARIABLE status

Statuses == {"none", "pending", "expired", "accepted", "revoked", "gone"}

Having(s) == {i \in Ids : status[i] = s}

Becomes(ids, s) == status' = [i \in Ids |-> IF i \in ids THEN s ELSE status[i]]

Init == status = [i \in Ids |-> "none"]

\* What a revocation finds when it commits: an invitation still open, or one
\* accepted since the revocation checked it.
Revocable == Having("pending") \cup Having("expired") \cup Having("accepted")

\* A new invitation revokes those it replaces; it may be committed so late that
\* its own deadline is over.
Create(i, replaced) ==
    /\ i \in Having("none")
    /\ replaced \subseteq Revocable
    /\ \E s \in {"pending", "expired"} :
          status' = [j \in Ids |-> IF j = i THEN s
                                   ELSE IF j \in replaced THEN "revoked"
                                   ELSE status[j]]

Accept(i) ==
    /\ i \in Having("pending") \cup Having("expired")
    /\ Becomes({i}, "accepted")

Revoke(i) ==
    /\ i \in Revocable
    /\ Becomes({i}, "revoked")

\* Resending opens an expired invitation again; a resend that commits late may
\* set an earlier deadline than another resend before it.
Resend(i) ==
    \/ i \in Having("expired") /\ Becomes({i}, "pending")
    \/ i \in Having("pending") /\ Becomes({i}, "expired")

Expire(ids) ==
    /\ ids \subseteq Having("pending")
    /\ Becomes(ids, "expired")

\* The periodic cleanup never takes an invitation that can still be accepted.
Cleanup(ids) ==
    /\ ids \subseteq Having("expired") \cup Having("accepted") \cup Having("revoked")
    /\ Becomes(ids, "gone")

\* With its tenant every invitation goes.
DeleteAll == Becomes({i \in Ids : status[i] # "none"}, "gone")

Next ==
    \/ \E i \in Ids : \/ \E replaced \in SUBSET Ids : Create(i, replaced)
                      \/ Accept(i) \/ Revoke(i) \/ Resend(i)
    \/ \E ids \in SUBSET Ids : Expire(ids) \/ Cleanup(ids)
    \/ DeleteAll

Spec == Init /\ [][Next]_status
=============================================================================
