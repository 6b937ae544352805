-------------------------- MODULE MCRefreshCookies --------------------------
(* Small instances of RefreshCookies for TLC. *)
EXTENDS RefreshCookies, TLC

\* Nothing tells two browsers, two keys or two request slots apart.
Symmetry ==
    Permutations(Browsers) \cup Permutations(Keys) \cup Permutations(Requests)

\* The bounds of the liveness run.  EveryRequestEnds holds from the last key on,
\* so what comes after it is left out; and so is the logout, whose one step in
\* the store is that of a refresh too, and with it the other cookie path.
EndsBounds == Fresh # {} /\ wide /\ \A r \in Active : req[r].op # "clear"
=============================================================================
