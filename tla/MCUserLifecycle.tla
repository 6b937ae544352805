-------------------------- MODULE MCUserLifecycle --------------------------
(* A small instance of UserLifecycle for TLC. *)
EXTENDS UserLifecycle, TLC

\* Syncs and changes of users where accounts are always confirmed; sign-ups,
\* invitations and the management of accounts where those have a life.
MCDeployments ==
    { [auth_mode |-> "hosted_ui", emails |-> Emails,
       ops |-> {"suspend", "unsuspend", "promote", "demote", "delete"}],
      [auth_mode |-> "custom_ui", emails |-> Emails,
       ops |-> {"delete", "disable", "enable", "reset"}] }

Symmetry ==
    Permutations(Emails) \cup Permutations(Ids) \cup Permutations(Subs) \cup Permutations(Requests)

\* The last identity is for somebody who signs up beside a deletion that has been
\* to Cognito: who was deleted, or removed there, comes back before its commit.
SpareIdentity ==
    \/ subs # {}
    \/ /\ deployment.auth_mode = "hosted_ui"
       /\ \E r \in Requests : At(r, {"delete"}, "commit")
       /\ \A r \in Requests : req[r] = None \/ req[r].op \in {"delete", "sync"}
=============================================================================
