---------------------------- MODULE MCJwksCache ----------------------------
EXTENDS JwksCache

CONSTANT FirstKid

\* Cognito lists one kid at first; which one makes no difference.
OneKidAtFirst == Init /\ published = {FirstKid}

MCSpec == OneKidAtFirst /\ [][Next]_vars

MCFairSpec == MCSpec /\ Fairness
=============================================================================
