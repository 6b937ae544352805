\* Two requests at a time; two addresses and rows, two identities and a spare.
SPECIFICATION Spec
CONSTANTS
    Emails = {e1, e2}
    Ids = {i1, i2}
    Subs = {s1, s2, s3}
    Requests = {r1, r2}
    Ops = {"suspend", "unsuspend", "promote", "demote", "delete", "disable", "enable", "reset"}
    Deployments <- MCDeployments
    None = None
SYMMETRY Symmetry
CONSTRAINT SpareIdentity
INVARIANT TypeOK
PROPERTIES
    RowLostOnlyToOldTokenOrOverlap
    LastAdminLostOnlyByStaleCheck
    NoFlagWrittenBack
    StrandedUntilDeleted
    DeletedIdentityIsGone
CHECK_DEADLOCK FALSE
