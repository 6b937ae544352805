--------------------------- MODULE MCInvitations ---------------------------
(* Small instances of Invitations for TLC. *)
EXTENDS Invitations, TLC

\* Nothing tells two keys, tokens, addresses or request slots apart.
Symmetry ==
    Permutations(Ids) \cup Permutations(Tokens) \cup Permutations(Emails)
        \cup Permutations(Requests)
=============================================================================
