--------------------------- MODULE SessionsProofs ---------------------------
(***************************************************************************)
(* What holds of Sessions for any number of users, keys and requests and   *)
(* any MaxTime.                                                            *)
(*                                                                         *)
(* Everything rests on rows only fading: once its key has been handed out, *)
(* a row may be revoked or deleted but never changes hands, comes back or  *)
(* becomes valid again.  So what a request has selected is, when it        *)
(* commits, still what it selected or less; and just that, but for deleted *)
(* users, when no two requests overlap (SerialInv).                        *)
(***************************************************************************)
EXTENDS Sessions, TLAPS

\* A key that can still be handed out is in no row.
FreshUnused ==
    /\ \A i \in fresh : rows[i] = None
    /\ \A i \in Ids : rows[i] # None => rows[i].login \notin fresh

\* What a request knows of the rows it has selected.
RequestInv(q) ==
    /\ q.id \notin fresh /\ q.known \cap fresh = {}
    /\ q.op = "rotate" => q.id \in Ids
    /\ q.op = "rotate" /\ q.stage = "commit" =>
          rows[q.id] = None \/ rows[q.id].user = q.user
    /\ q.op = "revoke_all" /\ q.stage = "commit" =>
          \A i \in q.known \ {q.id} : rows[i] = None \/ rows[i].revoked \/ i \in q.selected

IInv ==
    /\ TypeOK
    /\ FreshUnused
    /\ \A r \in Requests : req[r] # None => RequestInv(req[r])
    /\ DeletedUserHasNoSession
    /\ LoginForksOnlyByOverlap

\* Row i is what it was, or revoked, or gone.
Fades(i) ==
    \/ rows'[i] = None
    \/ /\ rows[i] # None /\ rows'[i] # None
       /\ rows'[i].user = rows[i].user /\ rows'[i].login = rows[i].login
       /\ rows'[i].expires_at = rows[i].expires_at
       /\ rows[i].revoked => rows'[i].revoked

Fading == fresh' \subseteq fresh /\ \A i \in Ids \ fresh : Fades(i)

-----------------------------------------------------------------------------
\* A new row is a row.
LEMMA NewRowTyped ==
    ASSUME NEW u \in Users, NEW e \in Time \cup {None}, NEW l \in Ids
    PROVE  /\ NewRow(u, e, l) \in Row
           /\ NewRow(u, e, l).user = u /\ NewRow(u, e, l).login = l
           /\ ~NewRow(u, e, l).revoked /\ NewRow(u, e, l) # None
<1>1. NewRow(u, e, l) \in Row
    BY DEF NewRow, Row
<1>2. NewRow(u, e, l) # None
    BY <1>1, NoneIsNothing
<1> QED BY <1>1, <1>2 DEF NewRow

\* The insertion of a registration, in its parts.
LEMMA RegisterParts ==
    ASSUME IInv, NEW r \in Requests, CommitRegister(r), ~ End(r)
    PROVE  \E i \in fresh, new \in Row :
              /\ new.user = req[r].user /\ new.login = i /\ ~new.revoked /\ new # None
              /\ user[new.user] = "live"
              /\ rows' = [rows EXCEPT ![i] = new] /\ fresh' = fresh \ {i}
              /\ req' = [req EXCEPT ![r] = None] /\ UNCHANGED <<user, now, forked>>
<1>1. req[r] \in Request /\ user[req[r].user] = "live"
    BY DEF CommitRegister, At, IInv, TypeOK
<1>2. PICK i \in fresh, e \in Time \cup {None} :
         /\ rows' = [rows EXCEPT ![i] = NewRow(req[r].user, e, i)] /\ fresh' = fresh \ {i}
    BY <1>1 DEF CommitRegister
<1>3. req[r].user \in Users /\ i \in Ids
    BY <1>1 DEF Request, IInv, TypeOK
<1> DEFINE new == NewRow(req[r].user, e, i)
<1>4. new \in Row /\ new.user = req[r].user /\ new.login = i /\ ~new.revoked /\ new # None
    BY <1>3, NewRowTyped
<1> HIDE DEF new
<1>5. rows' = [rows EXCEPT ![i] = new]
    BY <1>2 DEF new
<1> QED BY <1>1, <1>2, <1>4, <1>5 DEF CommitRegister

\* The two writes of a rotation, in their parts.
LEMMA RotateParts ==
    ASSUME IInv, NEW r \in Requests, CommitRotate(r), ~ End(r)
    PROVE  \E i \in fresh, new \in Row :
              /\ req[r].id \in Ids \ fresh /\ rows[req[r].id] # None
              /\ new.user = req[r].user /\ new.user = rows[req[r].id].user
              /\ new.login = rows[req[r].id].login /\ ~new.revoked /\ new # None
              /\ rows' = [rows EXCEPT ![req[r].id].revoked = TRUE, ![i] = new]
              /\ fresh' = fresh \ {i}
              /\ forked' = IF rows[req[r].id].revoked THEN forked \cup {rows[req[r].id].login}
                           ELSE forked
              /\ req[r].op = "rotate" /\ req[r].stage = "commit"
              /\ req' = [req EXCEPT ![r] = None] /\ UNCHANGED <<user, now>>
<1> DEFINE old == req[r].id
<1>1. /\ req[r] \in Request /\ req[r] # None /\ req[r].op = "rotate" /\ req[r].stage = "commit"
      /\ RequestInv(req[r])
    BY DEF CommitRotate, At, IInv, TypeOK
<1>2. old \in Ids \ fresh
    BY <1>1 DEF RequestInv
<1>3. rows[old] # None /\ rows[old] \in Row
    BY <1>2 DEF CommitRotate, IInv, TypeOK
<1>4. PICK i \in fresh, e \in Time \cup {rows[old].expires_at} :
         /\ rows' = Rotated(old, i, NewRow(req[r].user, e, rows[old].login))
         /\ fresh' = fresh \ {i}
    BY <1>3 DEF CommitRotate
<1>5. /\ req[r].user \in Users /\ rows[old].login \in Ids /\ e \in Time \cup {None}
      /\ rows[old].user = req[r].user
    BY <1>1, <1>3 DEF Request, Row, RequestInv
<1> DEFINE new == NewRow(req[r].user, e, rows[old].login)
<1>6. ASSUME NEW u \in Users, NEW d \in Time \cup {None}, NEW login \in Ids,
             NewRow(u, d, login) = new
      PROVE  /\ new \in Row /\ new.user = u /\ new.login = login
             /\ ~new.revoked /\ new # None
    <2> HIDE DEF new
    <2> QED BY <1>6, NewRowTyped
<1>7. /\ new \in Row /\ new.user = req[r].user /\ new.login = rows[old].login
      /\ ~new.revoked /\ new # None
    <2> new = NewRow(req[r].user, e, rows[old].login)
        OBVIOUS
    <2> HIDE DEF new
    <2> QED BY <1>5, <1>6, Zenon
<1>8. rows' = [rows EXCEPT ![old].revoked = TRUE, ![i] = new]
    BY <1>4 DEF Rotated
<1> HIDE DEF new
<1> QED BY <1>1, <1>2, <1>3, <1>4, <1>5, <1>7, <1>8 DEF CommitRotate

\* A revocation writes TRUE to the rows it selected and to nothing else.
LEMMA RevokeParts ==
    ASSUME IInv, NEW r \in Requests, CommitRevoke(r), ~ End(r)
    PROVE  /\ req[r] \in Request
           /\ \A i \in req[r].selected : rows[i] # None
           /\ \A i \in Ids : rows'[i] = IF i \in req[r].selected
                                        THEN [rows[i] EXCEPT !.revoked = TRUE] ELSE rows[i]
           /\ rows' \in [Ids -> Row \cup {None}]
           /\ req' = [req EXCEPT ![r] = None] /\ UNCHANGED <<fresh, user, now, forked>>
<1>1. req[r] \in Request /\ rows \in [Ids -> Row \cup {None}]
    BY DEF CommitRevoke, At, IInv, TypeOK
<1>2. /\ \A i \in req[r].selected : rows[i] # None
      /\ rows' = [i \in Ids |-> IF i \in req[r].selected
                                THEN [rows[i] EXCEPT !.revoked = TRUE] ELSE rows[i]]
    BY DEF CommitRevoke
<1>3. \A i \in Ids : rows[i] # None => [rows[i] EXCEPT !.revoked = TRUE] \in Row
    BY <1>1 DEF Row
<1> QED BY <1>1, <1>2, <1>3 DEF CommitRevoke

\* A row that has been handed out only fades.
LEMMA RowsFade == ASSUME IInv, [Next]_vars PROVE Fading
<1>1. rows \in [Ids -> Row \cup {None}] /\ fresh \subseteq Ids
    BY DEF IInv, TypeOK
<1>2. CASE UNCHANGED <<rows, fresh>>
    BY <1>2 DEF Fading, Fades
<1>3. ASSUME NEW u \in Users, DeleteUser(u) PROVE Fading
    BY <1>1, <1>3 DEF DeleteUser, Fading, Fades
<1>4. ASSUME NEW r \in Requests, CommitRegister(r), ~ End(r) PROVE Fading
    BY <1>1, <1>4, RegisterParts DEF Fading, Fades
<1>5. ASSUME NEW r \in Requests, CommitRotate(r), ~ End(r) PROVE Fading
    <2>1. PICK i \in fresh, new \in Row :
             /\ req[r].id \in Ids \ fresh /\ rows[req[r].id] # None
             /\ rows' = [rows EXCEPT ![req[r].id].revoked = TRUE, ![i] = new]
             /\ fresh' = fresh \ {i}
        BY <1>5, RotateParts
    <2>2. /\ rows'[req[r].id] = [rows[req[r].id] EXCEPT !.revoked = TRUE]
          /\ \A j \in Ids \ {i, req[r].id} : rows'[j] = rows[j]
        BY <1>1, <2>1
    <2>3. rows[req[r].id] \in Row
        BY <1>1, <2>1
    <2>4. rows'[req[r].id] \in Row
        BY <2>2, <2>3 DEF Row
    <2>5. rows'[req[r].id] # None
        BY <2>4, NoneIsNothing
    <2>6. Fades(req[r].id)
        BY <2>1, <2>2, <2>3, <2>5 DEF Fades, Row
    <2> QED BY <2>1, <2>2, <2>6 DEF Fading, Fades
<1>6. ASSUME NEW r \in Requests, CommitRevoke(r), ~ End(r) PROVE Fading
    <2>1. ASSUME NEW i \in Ids PROVE Fades(i)
        <3>1. rows[i] \in Row \cup {None}
            BY <1>1
        <3>2. CASE i \in req[r].selected
            <4>1. rows[i] \in Row /\ rows'[i] = [rows[i] EXCEPT !.revoked = TRUE]
                BY <1>6, <3>1, <3>2, RevokeParts
            <4>2. rows'[i] \in Row
                BY <4>1 DEF Row
            <4>3. rows'[i] # None
                BY <4>2, NoneIsNothing
            <4> QED BY <3>2, <4>1, <4>3, <1>6, RevokeParts DEF Fades, Row
        <3>3. CASE i \notin req[r].selected
            BY <1>6, <3>3, RevokeParts DEF Fades
        <3> QED BY <3>2, <3>3
    <2> QED BY <1>6, <2>1, RevokeParts DEF Fading
<1> QED BY <1>2, <1>3, <1>4, <1>5, <1>6
        DEF Next, vars, Tick, Start, Select, End, Abort
-----------------------------------------------------------------------------
(* The invariant, step by step *)

\* What a request knows stays true while rows fade.
LEMMA RequestInvStable ==
    ASSUME IInv, Fading, NEW q \in Request, RequestInv(q) PROVE RequestInv(q)'
<1>1. q.id \in Ids \cup {None} /\ q.known \subseteq Ids
    BY DEF Request
<1> QED BY <1>1 DEF RequestInv, Fading, Fades

\* So only the slot a step writes needs looking at.
LEMMA SlotStep ==
    ASSUME IInv, Fading, NEW r \in Requests, NEW q \in Request \cup {None},
           req' = [req EXCEPT ![r] = q], q # None => RequestInv(q)'
    PROVE  /\ req' \in [Requests -> Request \cup {None}]
           /\ \A s \in Requests : req'[s] # None => RequestInv(req[s])'
<1>1. req \in [Requests -> Request \cup {None}]
    BY DEF IInv, TypeOK
<1>2. \A s \in Requests : req'[s] = IF s = r THEN q ELSE req[s]
    BY <1>1
<1>3. ASSUME NEW s \in Requests, s # r, req[s] # None
      PROVE  req'[s] = req[s] /\ req[s] \in Request /\ RequestInv(req[s])
    BY <1>1, <1>2, <1>3 DEF IInv
<1>4. ASSUME NEW s \in Requests, s # r, req'[s] # None PROVE RequestInv(req[s])'
    <2>1. PICK p \in Request : p = req[s] /\ p = req'[s] /\ RequestInv(p)
        BY <1>2, <1>3, <1>4
    <2>2. RequestInv(p)'
        BY <2>1, RequestInvStable
    <2> QED BY <2>1, <2>2 DEF RequestInv
<1>5. ASSUME req'[r] # None PROVE RequestInv(req[r])'
    BY <1>2, <1>5 DEF RequestInv
<1> QED BY <1>1, <1>2, <1>4, <1>5

\* A request begins, selects or ends without a write.
LEMMA RequestStep ==
    ASSUME IInv, Fading, NEW r \in Requests, NEW q \in Request \cup {None},
           req' = [req EXCEPT ![r] = q], q # None => RequestInv(q)',
           UNCHANGED <<rows, fresh, user, now, forked>>
    PROVE  IInv'
<1>1. TypeOK'
    BY SlotStep DEF IInv, TypeOK
<1>2. FreshUnused' /\ DeletedUserHasNoSession' /\ LoginForksOnlyByOverlap'
    BY DEF IInv, FreshUnused, DeletedUserHasNoSession, LoginForksOnlyByOverlap
<1> QED BY <1>1, <1>2, SlotStep DEF IInv

\* A request that ends with an error frees its slot.
LEMMA EndStep ==
    ASSUME IInv, Fading, NEW r \in Requests, End(r) PROVE IInv'
    BY RequestStep DEF End

\* A new request is typed and knows nothing yet.
LEMMA StartStep ==
    ASSUME IInv, Fading, NEW r \in Requests,
           NEW op \in {"register", "rotate", "revoke", "revoke_all"}, NEW u \in Users,
           NEW id \in Ids \cup {None}, Start(r, op, u, id)
    PROVE  IInv'
<1>1. PICK q \in Request :
         /\ q.op = op /\ q.id = id /\ q.known = {} /\ (op = "register" <=> q.stage = "commit")
         /\ req' = [req EXCEPT ![r] = q]
    <2>1. PICK stage \in {"select", "commit"} :
             stage = IF op = "register" THEN "commit" ELSE "select"
        OBVIOUS
    <2> DEFINE q == [ op |-> op, stage |-> stage, user |-> u, id |-> id, selected |-> {},
                      known |-> {} ]
    <2>2. q \in Request
        BY DEF Request
    <2>3. req' = [req EXCEPT ![r] = q]
        BY <2>1 DEF Start
    <2> QED BY <2>1, <2>2, <2>3
<1>2. fresh' = fresh /\ id \notin fresh /\ (op = "rotate" => id # None)
    BY DEF Start
<1>3. RequestInv(q)'
    BY <1>1, <1>2 DEF RequestInv
<1> QED BY <1>1, <1>3, RequestStep DEF Start

\* The SELECT: what it leaves out of a revoke_all is revoked already.
LEMMA SelectStep ==
    ASSUME IInv, Fading, NEW r \in Requests, Select(r) PROVE IInv'
<1>1. CASE End(r)
    BY <1>1, EndStep
<1>2. CASE ~ End(r)
    <2>1. /\ req[r] \in Request /\ req[r] # None /\ RequestInv(req[r])
          /\ req[r].op \in {"rotate", "revoke", "revoke_all"}
        BY DEF Select, At, IInv, TypeOK
    <2> DEFINE selecting == [req[r] EXCEPT !.stage = "commit", !.selected = Selected(req[r]),
                                           !.known = SessionsOf(req[r].user)]
    <2>2. /\ Selected(req[r]) # {} /\ req' = [req EXCEPT ![r] = selecting]
          /\ UNCHANGED <<rows, fresh, user, now, forked>>
        BY <1>2 DEF Select
    <2>3. Selected(req[r]) \subseteq Ids /\ SessionsOf(req[r].user) \subseteq Ids \ fresh
        BY DEF Selected, Listed, SessionsOf, IInv, FreshUnused, TypeOK
    <2>4. PICK q \in Request :
             /\ q = selecting /\ q.op = req[r].op /\ q.id = req[r].id /\ q.user = req[r].user
             /\ q.selected = Selected(req[r]) /\ q.known = SessionsOf(req[r].user)
        <3>1. selecting \in Request
            BY <2>1, <2>3 DEF Request
        <3>2. /\ selecting.op = req[r].op /\ selecting.id = req[r].id
              /\ selecting.user = req[r].user /\ selecting.selected = Selected(req[r])
              /\ selecting.known = SessionsOf(req[r].user)
            BY <2>1 DEF Request
        <3> HIDE DEF selecting
        <3> QED BY <3>1, <3>2
    <2> HIDE DEF selecting
    <2>5. q.id \notin fresh /\ q.known \cap fresh = {} /\ (q.op = "rotate" => q.id \in Ids)
        BY <2>1, <2>3, <2>4 DEF RequestInv
    <2>6. q.op = "rotate" => rows[q.id].user = q.user
        BY <2>2, <2>4 DEF Selected, Listed, SessionsOf
    <2>7. q.op = "revoke_all" =>
             \A i \in q.known \ {q.id} : rows[i].revoked \/ i \in q.selected
        BY <2>4 DEF Selected, Listed, SessionsOf
    <2>8. RequestInv(q)
        BY <2>5, <2>6, <2>7 DEF RequestInv
    <2> QED BY <2>2, <2>4, <2>8, RequestInvStable, RequestStep
<1> QED BY <1>1, <1>2

\* POST /sessions/register inserts its row under an unused id, of a user who exists.
LEMMA RegisterStep ==
    ASSUME IInv, Fading, NEW r \in Requests, CommitRegister(r) PROVE IInv'
<1>1. CASE End(r)
    BY <1>1, EndStep
<1>2. CASE ~ End(r)
    <2>1. PICK i \in fresh, new \in Row :
             /\ new.login = i /\ ~new.revoked /\ new # None /\ user[new.user] = "live"
             /\ rows' = [rows EXCEPT ![i] = new] /\ fresh' = fresh \ {i}
             /\ req' = [req EXCEPT ![r] = None] /\ UNCHANGED <<user, now, forked>>
        BY <1>2, RegisterParts
    <2>2. /\ rows \in [Ids -> Row \cup {None}] /\ i \in Ids /\ rows[i] = None
          /\ \A j \in Ids : rows'[j] = IF j = i THEN new ELSE rows[j]
        BY <2>1 DEF IInv, TypeOK, FreshUnused
    <2>3. TypeOK'
        BY <2>1, <2>2, SlotStep DEF IInv, TypeOK
    <2>4. FreshUnused'
        BY <2>1, <2>2 DEF IInv, FreshUnused
    <2>5. DeletedUserHasNoSession'
        BY <2>1, <2>2 DEF IInv, DeletedUserHasNoSession
    <2>6. LoginForksOnlyByOverlap'
        BY <2>1, <2>2 DEF IInv, LoginForksOnlyByOverlap, FreshUnused
    <2> QED BY <2>1, <2>3, <2>4, <2>5, <2>6, SlotStep DEF IInv
<1> QED BY <1>1, <1>2

\* If the old row was not revoked it was the login's only one, and it is now.
LEMMA RotateStep ==
    ASSUME IInv, Fading, NEW r \in Requests, CommitRotate(r) PROVE IInv'
<1>1. CASE End(r)
    BY <1>1, EndStep
<1>2. CASE ~ End(r)
    <2> DEFINE old == req[r].id
    <2>1. PICK i \in fresh, new \in Row :
             /\ old \in Ids \ fresh /\ rows[old] # None
             /\ new.user = rows[old].user /\ new.login = rows[old].login
             /\ ~new.revoked /\ new # None
             /\ rows' = [rows EXCEPT ![old].revoked = TRUE, ![i] = new]
             /\ fresh' = fresh \ {i}
             /\ forked' = IF rows[old].revoked THEN forked \cup {rows[old].login} ELSE forked
             /\ req' = [req EXCEPT ![r] = None] /\ UNCHANGED <<user, now>>
        BY <1>2, RotateParts
    <2>2. /\ rows \in [Ids -> Row \cup {None}] /\ i \in Ids /\ rows[i] = None /\ i # old
          /\ rows' \in [Ids -> Row \cup {None}]
          /\ rows'[i] = new /\ \A j \in Ids \ {i, old} : rows'[j] = rows[j]
          /\ rows'[old] = [rows[old] EXCEPT !.revoked = TRUE]
        <3>1. rows \in [Ids -> Row \cup {None}] /\ i \in Ids /\ rows[i] = None /\ i # old
            BY <2>1 DEF IInv, TypeOK, FreshUnused
        <3>2. rows[old] \in Row
            BY <2>1, <3>1
        <3>3. [rows[old] EXCEPT !.revoked = TRUE] \in Row
            BY <3>2 DEF Row
        <3> QED BY <2>1, <3>1, <3>3
    <2>3. /\ rows[old] \in Row
          /\ rows'[old].user = rows[old].user /\ rows'[old].login = rows[old].login
          /\ rows'[old].revoked
        BY <2>1, <2>2 DEF Row
    <2>4. TypeOK'
        BY <2>1, <2>2, <2>3, SlotStep DEF IInv, TypeOK, Row
    <2>5. FreshUnused'
        <3>1. fresh \subseteq Ids /\ rows[old].login \notin fresh
            BY <2>1 DEF IInv, TypeOK, FreshUnused
        <3>2. \A j \in Ids : rows'[j] # None => rows'[j].login \notin fresh
            BY <2>1, <2>2, <2>3, <3>1 DEF IInv, FreshUnused
        <3>3. \A j \in fresh \ {i} : rows'[j] = None
            BY <2>1, <2>2, <3>1 DEF IInv, FreshUnused
        <3>4. fresh' = fresh \ {i}
            BY <2>1
        <3> QED BY <3>2, <3>3, <3>4 DEF FreshUnused
    <2>6. DeletedUserHasNoSession'
        BY <2>1, <2>2, <2>3 DEF IInv, DeletedUserHasNoSession
    <2>7. LoginForksOnlyByOverlap'
        BY <2>1, <2>2, <2>3 DEF IInv, LoginForksOnlyByOverlap
    <2> QED BY <2>1, <2>4, <2>5, <2>6, <2>7, SlotStep DEF IInv
<1> QED BY <1>1, <1>2

\* The commit of a revocation keeps every row, so every request's knowledge of it.
LEMMA RevokeStep ==
    ASSUME IInv, Fading, NEW r \in Requests, CommitRevoke(r) PROVE IInv'
<1>1. CASE End(r)
    BY <1>1, EndStep
<1>2. CASE ~ End(r)
    <2>1. /\ rows \in [Ids -> Row \cup {None}] /\ rows' \in [Ids -> Row \cup {None}]
          /\ req' = [req EXCEPT ![r] = None] /\ UNCHANGED <<fresh, user, now, forked>>
          /\ \A i \in Ids : \/ rows'[i] = rows[i]
                            \/ rows[i] # None /\ rows'[i] = [rows[i] EXCEPT !.revoked = TRUE]
        <3>1. rows \in [Ids -> Row \cup {None}]
            BY DEF IInv, TypeOK
        <3> QED BY <1>2, <3>1, RevokeParts
    <2>2. ASSUME NEW i \in Ids, rows'[i] # None
          PROVE  /\ rows[i] # None /\ rows'[i].user = rows[i].user
                 /\ rows'[i].login = rows[i].login /\ (rows[i].revoked => rows'[i].revoked)
        <3>1. CASE rows'[i] = rows[i]
            BY <2>2, <3>1
        <3>2. CASE rows[i] # None /\ rows'[i] = [rows[i] EXCEPT !.revoked = TRUE]
            <4>1. rows[i] \in Row
                BY <2>1, <3>2
            <4> QED BY <3>2, <4>1 DEF Row
        <3> QED BY <2>1, <3>1, <3>2
    <2>3. TypeOK'
        BY <2>1, SlotStep DEF IInv, TypeOK
    <2>4. FreshUnused'
        BY <2>1, <2>2 DEF IInv, FreshUnused, TypeOK
    <2>5. DeletedUserHasNoSession'
        BY <2>1, <2>2 DEF IInv, DeletedUserHasNoSession
    <2>6. LoginForksOnlyByOverlap'
        BY <2>1, <2>2 DEF IInv, LoginForksOnlyByOverlap
    <2> QED BY <2>1, <2>3, <2>4, <2>5, <2>6, SlotStep DEF IInv
<1> QED BY <1>1, <1>2

\* Deletions and the clock touch no request.
LEMMA OtherStep ==
    ASSUME IInv, Fading, Tick \/ (\E u \in Users : DeleteUser(u)) PROVE IInv'
<1>1. req' = req /\ req \in [Requests -> Request \cup {None}]
    BY DEF Tick, DeleteUser, IInv, TypeOK
<1>2. \A r \in Requests : req'[r] # None => RequestInv(req[r])'
    <2>1. ASSUME NEW r \in Requests, req'[r] # None PROVE RequestInv(req[r])'
        <3>1. PICK q \in Request : q = req[r] /\ q = req'[r] /\ RequestInv(q)
            BY <1>1, <2>1 DEF IInv
        <3>2. RequestInv(q)'
            BY <3>1, RequestInvStable
        <3> QED BY <3>1, <3>2 DEF RequestInv
    <2> QED BY <2>1
<1>3. TypeOK' /\ FreshUnused' /\ DeletedUserHasNoSession' /\ LoginForksOnlyByOverlap'
    <2>1. CASE Tick
        <3>1. now' \in Time
            BY <2>1, ClockBounded DEF Tick, IInv, TypeOK, Time
        <3> QED BY <2>1, <3>1 DEF Tick, IInv, TypeOK, FreshUnused, DeletedUserHasNoSession,
                                  LoginForksOnlyByOverlap
    <2>2. ASSUME NEW u \in Users, DeleteUser(u)
          PROVE  TypeOK' /\ FreshUnused' /\ DeletedUserHasNoSession' /\ LoginForksOnlyByOverlap'
        <3>1. /\ \A i \in Ids : rows'[i] = IF i \in SessionsOf(u) THEN None ELSE rows[i]
              /\ rows' \in [Ids -> Row \cup {None}]
            BY <2>2 DEF DeleteUser, IInv, TypeOK
        <3>2. user' = [user EXCEPT ![u] = "deleted"] /\ UNCHANGED <<fresh, now, req, forked>>
            BY <2>2 DEF DeleteUser
        <3>3. TypeOK'
            BY <3>1, <3>2 DEF IInv, TypeOK
        <3>4. FreshUnused'
            BY <3>1, <3>2 DEF IInv, FreshUnused, TypeOK
        <3>5. DeletedUserHasNoSession'
            BY <3>1, <3>2 DEF IInv, DeletedUserHasNoSession, SessionsOf, TypeOK, Row
        <3>6. LoginForksOnlyByOverlap'
            BY <3>1, <3>2 DEF IInv, LoginForksOnlyByOverlap
        <3> QED BY <3>3, <3>4, <3>5, <3>6
    <2> QED BY <2>1, <2>2
<1> QED BY <1>2, <1>3 DEF IInv

\* The inductive invariant holds in every state the endpoints can reach.
LEMMA Invariance == Spec => []IInv
<1>1. Init => IInv
    <2>1. ASSUME Init PROVE TypeOK
        BY <2>1, ClockBounded DEF Init, TypeOK, Time
    <2> QED BY <2>1 DEF Init, IInv, FreshUnused, DeletedUserHasNoSession,
                        LoginForksOnlyByOverlap
<1>2. IInv /\ [Next]_vars => IInv'
    <2> SUFFICES ASSUME IInv, [Next]_vars PROVE IInv'
        OBVIOUS
    <2>1. Fading
        BY RowsFade
    <2>2. CASE UNCHANGED vars
        BY <2>2 DEF vars, IInv, TypeOK, FreshUnused, RequestInv, DeletedUserHasNoSession,
                    LoginForksOnlyByOverlap
    <2>3. ASSUME NEW r \in Requests, Abort(r) PROVE IInv'
        BY <2>1, <2>3, EndStep DEF Abort
    <2> QED BY <2>1, <2>2, <2>3, StartStep, SelectStep, RegisterStep, RotateStep, RevokeStep,
               OtherStep DEF Next
<1> QED BY <1>1, <1>2, PTL DEF Spec
-----------------------------------------------------------------------------
(* Theorems *)

\* The tables and the requests hold what their columns and fields may hold.
THEOREM TypeCorrectness == Spec => []TypeOK
    BY Invariance, PTL DEF IInv

\* delete_user leaves no session behind, and none appears afterwards.
THEOREM DeletedUsersStayWithoutSessions == Spec => []DeletedUserHasNoSession
    BY Invariance, PTL DEF IInv

\* rotate_user_session leaves one session per login, but for overlaps.
THEOREM LoginsForkOnlyByOverlap == Spec => []LoginForksOnlyByOverlap
    BY Invariance, PTL DEF IInv

\* A step of one request leaves the slots of the others alone.
LEMMA OneSlot ==
    ASSUME IInv, [Next]_vars, NEW r \in Requests, req'[r] # req[r]
    PROVE  \/ \E op \in {"register", "rotate", "revoke", "revoke_all"}, u \in Users,
                id \in Ids \cup {None} : Start(r, op, u, id)
           \/ Select(r) \/ CommitRegister(r) \/ CommitRotate(r) \/ CommitRevoke(r) \/ Abort(r)
<1>1. req \in [Requests -> Request \cup {None}]
    BY DEF IInv, TypeOK
<1>2. ASSUME NEW s \in Requests, s # r, NEW v, req' = [req EXCEPT ![s] = v] PROVE FALSE
    BY <1>1, <1>2
<1>3. ASSUME NEW s \in Requests, s # r,
             NEW op \in {"register", "rotate", "revoke", "revoke_all"}, NEW u \in Users,
             NEW id \in Ids \cup {None}, Start(s, op, u, id)
      PROVE  FALSE
    BY <1>2, <1>3 DEF Start
<1>4. ASSUME NEW s \in Requests, s # r, Select(s) PROVE FALSE
    BY <1>2, <1>4 DEF Select, End
<1>5. ASSUME NEW s \in Requests, s # r,
             CommitRegister(s) \/ CommitRotate(s) \/ CommitRevoke(s) \/ Abort(s)
      PROVE  FALSE
    BY <1>2, <1>5 DEF CommitRegister, CommitRotate, CommitRevoke, Abort, End
<1>6. req' # req
    OBVIOUS
<1> QED BY <1>3, <1>4, <1>5, <1>6 DEF Next, vars, Tick, DeleteUser

\* revoke_all_user_sessions misses only the kept session and what is newer
\* than its SELECT.
THEOREM RevokeAllMissesNothingOlder == Spec => RevokeAllMissesOnlyNewer
<1>1. ASSUME IInv, [Next]_vars, NEW r \in Requests,
             At(r, {"revoke_all"}, "commit"), req'[r] = None, rows' # rows
      PROVE  \A i \in req[r].known \ {req[r].id} : rows'[i] = None \/ rows'[i].revoked
    <2>1. /\ req[r] \in Request /\ RequestInv(req[r]) /\ rows \in [Ids -> Row \cup {None}]
          /\ req[r].op = "revoke_all" /\ req[r].stage = "commit" /\ req[r] # None
        BY <1>1 DEF IInv, TypeOK, At
    <2>2. CommitRevoke(r) /\ ~ End(r)
        BY <1>1, <2>1, OneSlot DEF Start, Select, CommitRegister, CommitRotate, Abort, End, At
    <2>3. ASSUME NEW i \in req[r].known \ {req[r].id} PROVE rows'[i] = None \/ rows'[i].revoked
        <3>1. i \in Ids /\ (rows[i] = None \/ rows[i].revoked \/ i \in req[r].selected)
            BY <2>1 DEF RequestInv, Request
        <3>2. CASE i \in req[r].selected
            <4>1. rows[i] \in Row
                BY <1>1, <2>1, <2>2, <3>1, <3>2, RevokeParts
            <4> QED BY <1>1, <2>2, <3>1, <3>2, <4>1, RevokeParts DEF Row
        <3>3. CASE i \notin req[r].selected
            BY <1>1, <2>2, <3>1, <3>3, RevokeParts
        <3> QED BY <3>2, <3>3
    <2> QED BY <2>3
<1>2. IInv /\ [Next]_vars =>
         [\A r \in Requests :
             At(r, {"revoke_all"}, "commit") /\ req'[r] = None /\ rows' # rows
                => \A i \in req[r].known \ {req[r].id} :
                      rows'[i] = None \/ rows'[i].revoked]_vars
    BY <1>1
<1> QED BY <1>2, Invariance, PTL DEF Spec, RevokeAllMissesOnlyNewer

\* A row appears in a login of its own, or in that of a rotated session.
LEMMA NewRowsLogin ==
    ASSUME IInv, [Next]_vars, NEW i \in fresh, rows'[i] # None
    PROVE  \/ rows'[i].login \in fresh
           \/ \E r \in Requests : /\ At(r, {"rotate"}, "commit") /\ rows[req[r].id] # None
                                  /\ rows'[i].login = rows[req[r].id].login
<1>1. rows \in [Ids -> Row \cup {None}] /\ i \in Ids /\ rows[i] = None
    BY DEF IInv, TypeOK, FreshUnused
<1>2. ASSUME NEW r \in Requests, CommitRegister(r), ~ End(r) PROVE rows'[i].login \in fresh
    BY <1>1, <1>2, RegisterParts
<1>3. ASSUME NEW r \in Requests, CommitRotate(r), ~ End(r)
      PROVE  /\ At(r, {"rotate"}, "commit") /\ rows[req[r].id] # None
             /\ rows'[i].login = rows[req[r].id].login
    <2>1. PICK j \in fresh, new \in Row :
             /\ req[r].id \in Ids \ fresh /\ rows[req[r].id] # None
             /\ new.login = rows[req[r].id].login
             /\ rows' = [rows EXCEPT ![req[r].id].revoked = TRUE, ![j] = new]
        BY <1>3, RotateParts
    <2>2. i # req[r].id
        BY <2>1
    <2>3. i = j
        BY <1>1, <2>1, <2>2
    <2>4. rows'[i] = new
        BY <1>1, <2>1, <2>2, <2>3
    <2> QED BY <1>3, <2>1, <2>4 DEF CommitRotate
<1>4. ASSUME NEW r \in Requests, CommitRevoke(r), ~ End(r) PROVE FALSE
    <2>1. i \notin req[r].selected
        BY <1>1, <1>4, RevokeParts
    <2> QED BY <1>1, <1>4, <2>1, RevokeParts
<1>5. ASSUME NEW u \in Users, DeleteUser(u) PROVE FALSE
    BY <1>1, <1>5 DEF DeleteUser
<1> QED BY <1>1, <1>2, <1>3, <1>4, <1>5 DEF Next, vars, Tick, Start, Select, End, Abort

\* A rotation passes its validation on a session that is good.
LEMMA RotationsValidate ==
    ASSUME IInv, [Next]_vars, NEW r \in Requests, req'[r] # req[r],
           req'[r] # None, req'[r].op = "rotate", req'[r].stage = "commit"
    PROVE  /\ rows' = rows /\ req'[r].id \in Ids /\ Valid(req'[r].id)
<1>1. req \in [Requests -> Request \cup {None}]
    BY DEF IInv, TypeOK
<1>2. ASSUME NEW op \in {"register", "rotate", "revoke", "revoke_all"}, NEW u \in Users,
             NEW id \in Ids \cup {None}, Start(r, op, u, id)
      PROVE  FALSE
    BY <1>1, <1>2 DEF Start
<1>3. Select(r) /\ ~ End(r)
    BY <1>1, <1>2, OneSlot DEF CommitRegister, CommitRotate, CommitRevoke, Abort, End, Select
<1>4. /\ req[r] \in Request /\ Selected(req[r]) # {} /\ rows' = rows
      /\ req'[r] = [req[r] EXCEPT !.stage = "commit", !.selected = Selected(req[r]),
                                  !.known = SessionsOf(req[r].user)]
    BY <1>1, <1>3 DEF Select, At
<1>5. req[r].op = "rotate" /\ req'[r].id = req[r].id
    BY <1>4 DEF Request
<1>6. PICK i \in Listed(req[r].user) : i = req[r].id /\ NotExpired(rows[i])
    BY <1>4, <1>5 DEF Selected
<1> QED BY <1>4, <1>5, <1>6 DEF Listed, SessionsOf, Valid

\* Revoked, expired or deleted, a login gives no session any more.
THEOREM LoginsEndForGood == Spec => LoginOverForGood
<1>1. ASSUME IInv, [Next]_vars, NEW l \in Ids \ fresh, Over(l) PROVE Over(l)'
    <2>1. Fading /\ rows \in [Ids -> Row \cup {None}] /\ fresh \subseteq Ids
        BY <1>1, RowsFade DEF IInv, TypeOK
    <2>2. now \in Nat /\ now' \in Nat /\ now <= now'
        <3>1. now \in Nat
            BY <1>1, ClockBounded DEF IInv, TypeOK, Time
        <3>2. CASE Tick
            BY <3>1, <3>2 DEF Tick
        <3>3. CASE now' = now
            BY <3>1, <3>3
        <3>4. ASSUME NEW r \in Requests,
                     CommitRegister(r) \/ CommitRotate(r) \/ CommitRevoke(r)
              PROVE  now' = now
            BY <3>4 DEF CommitRegister, CommitRotate, CommitRevoke, End
        <3>5. ASSUME NEW r \in Requests, Select(r) \/ Abort(r) PROVE now' = now
            BY <3>5 DEF Select, Abort, End
        <3> QED BY <1>1, <3>2, <3>3, <3>4, <3>5 DEF Next, vars, DeleteUser, Start
    <2>3. ASSUME NEW i \in Ids, Valid(i)' PROVE rows'[i].login # l
        <3>1. CASE i \in fresh
            <4>1. rows'[i] # None
                BY <2>3 DEF Valid
            <4>2. CASE rows'[i].login \in fresh
                BY <1>1, <4>2
            <4>3. CASE \E r \in Requests : /\ At(r, {"rotate"}, "commit")
                                           /\ rows[req[r].id] # None
                                           /\ rows'[i].login = rows[req[r].id].login
                BY <1>1, <4>3 DEF Over
            <4> QED BY <1>1, <3>1, <4>1, <4>2, <4>3, NewRowsLogin
        <3>2. CASE i \notin fresh
            <4>1. /\ rows[i] # None /\ ~rows[i].revoked /\ rows'[i].login = rows[i].login
                  /\ rows[i].expires_at = None \/ rows[i].expires_at > now'
                BY <2>1, <2>3, <3>2 DEF Fading, Fades, Valid, NotExpired
            <4>2. rows[i].expires_at \in Nat \cup {None}
                BY <2>1, <4>1, ClockBounded DEF Row, Time
            <4>3. Valid(i)
                BY <2>2, <4>1, <4>2, NoneIsNothing DEF Valid, NotExpired
            <4> QED BY <1>1, <4>1, <4>3 DEF Over
        <3> QED BY <3>1, <3>2
    <2>4. ASSUME NEW r \in Requests, At(r, {"rotate"}, "commit")'
          PROVE  rows'[req'[r].id] = None \/ rows'[req'[r].id].login # l
        <3>1. CASE req'[r] = req[r]
            <4>1. /\ At(r, {"rotate"}, "commit") /\ req[r].id \in Ids \ fresh
                BY <1>1, <2>4, <3>1 DEF At, IInv, RequestInv
            <4>2. rows[req[r].id] = None \/ rows[req[r].id].login # l
                BY <1>1, <4>1 DEF Over
            <4> QED BY <2>1, <3>1, <4>1, <4>2 DEF Fading, Fades
        <3>2. CASE req'[r] # req[r]
            <4>1. rows' = rows /\ req'[r].id \in Ids /\ Valid(req'[r].id)
                BY <1>1, <2>4, <3>2, RotationsValidate DEF At
            <4> QED BY <1>1, <4>1 DEF Over
        <3> QED BY <3>1, <3>2
    <2> QED BY <2>3, <2>4 DEF Over
<1>2. IInv /\ [Next]_vars => [\A l \in Ids \ fresh : Over(l) => Over(l)']_vars
    BY <1>1
<1> QED BY <1>2, Invariance, PTL DEF Spec, LoginOverForGood

-----------------------------------------------------------------------------
(* One request at a time *)

\* No two requests overlap.  Users are still deleted, and time passes, beside
\* them.
OneAtATime == \A r, s \in Requests : r = s

\* What a request selected: a rotation's session is not revoked, and a
\* revoke_all knows every session of its user.
Current(q, tbl) ==
    /\ q.op = "rotate" /\ q.stage = "commit" => tbl[q.id] = None \/ ~tbl[q.id].revoked
    /\ q.op = "revoke_all" /\ q.stage = "commit" =>
          \A i \in Ids : tbl[i] # None /\ tbl[i].user = q.user => i \in q.known

SerialInv ==
    /\ forked = {}
    /\ \A r \in Requests : req[r] # None => Current(req[r], rows)

\* A request begins, selects or ends without a write.
LEMMA SerialReadStep ==
    ASSUME IInv, SerialInv, NEW r \in Requests, NEW q,
           req' = [req EXCEPT ![r] = q], UNCHANGED <<rows, forked>>,
           q # None => Current(q, rows)
    PROVE  SerialInv'
<1>1. \A s \in Requests : req'[s] = IF s = r THEN q ELSE req[s]
    BY DEF IInv, TypeOK
<1>2. ASSUME NEW s \in Requests, req'[s] # None PROVE Current(req[s], rows)'
    <2>1. Current(req'[s], rows')
        BY <1>1, <1>2 DEF SerialInv
    <2> QED BY <2>1 DEF Current
<1> QED BY <1>2 DEF SerialInv

\* The SELECT finds what is there.
LEMMA SerialSelectStep ==
    ASSUME IInv, SerialInv, NEW r \in Requests, Select(r), ~ End(r)
    PROVE  SerialInv'
<1>1. req[r] \in Request
    BY DEF Select, At, IInv, TypeOK
<1>2. PICK q : q = [req[r] EXCEPT !.stage = "commit", !.selected = Selected(req[r]),
                                  !.known = SessionsOf(req[r].user)]
    OBVIOUS
<1>3. /\ Selected(req[r]) # {} /\ req' = [req EXCEPT ![r] = q]
      /\ UNCHANGED <<rows, fresh, user, now, forked>>
    BY <1>2 DEF Select
<1>4. q.op = req[r].op /\ q.id = req[r].id /\ q.user = req[r].user
      /\ q.known = SessionsOf(req[r].user)
    BY <1>1, <1>2 DEF Request
<1>5. q.op = "rotate" => ~rows[q.id].revoked
    BY <1>3, <1>4 DEF Selected, Listed
<1>6. Current(q, rows)
    BY <1>4, <1>5 DEF Current, SessionsOf
<1> QED BY <1>3, <1>6, SerialReadStep

\* No other request is in flight when one commits, and a rotation commits on
\* the session it validated.
LEMMA SerialCommitStep ==
    ASSUME IInv, SerialInv, OneAtATime, NEW r \in Requests,
           CommitRegister(r) \/ CommitRotate(r) \/ CommitRevoke(r), ~ End(r)
    PROVE  SerialInv'
<1>1. req'[r] = None
    BY DEF CommitRegister, CommitRotate, CommitRevoke, IInv, TypeOK
<1>2. \A s \in Requests : req'[s] = None
    BY <1>1 DEF OneAtATime
<1>3. CASE CommitRotate(r)
    <2>1. req[r] # None /\ Current(req[r], rows) /\ rows[req[r].id] # None
          /\ req[r].op = "rotate" /\ req[r].stage = "commit"
        BY <1>3 DEF CommitRotate, At, SerialInv
    <2>2. forked' = forked
        BY <1>3, <2>1 DEF CommitRotate, Current
    <2> QED BY <1>2, <2>2 DEF SerialInv
<1>4. CASE CommitRegister(r) \/ CommitRevoke(r)
    BY <1>2, <1>4 DEF CommitRegister, CommitRevoke, SerialInv
<1> QED BY <1>3, <1>4

\* Users go and time passes: what was there is there or gone.
LEMMA SerialOtherStep ==
    ASSUME IInv, SerialInv, UNCHANGED <<req, forked>>,
           \A i \in Ids : rows'[i] = rows[i] \/ rows'[i] = None
    PROVE  SerialInv'
<1>1. ASSUME NEW r \in Requests, req'[r] # None PROVE Current(req[r], rows)'
    <2>1. PICK q \in Request : q = req[r] /\ q = req'[r] /\ Current(q, rows) /\ RequestInv(q)
        BY <1>1 DEF SerialInv, IInv, TypeOK
    <2>2. Current(q, rows')
        BY <2>1 DEF Current, RequestInv
    <2> QED BY <2>1, <2>2 DEF Current
<1> QED BY <1>1 DEF SerialInv

\* One request at a time, what it selected is so when it commits.
LEMMA SerialInvariance == ASSUME OneAtATime PROVE Spec => []SerialInv
<1>1. ASSUME Init PROVE SerialInv
    BY <1>1 DEF Init, SerialInv
<1>2. ASSUME IInv, SerialInv, [Next]_vars PROVE SerialInv'
    <2>1. CASE UNCHANGED vars
        BY <1>2, <2>1, SerialOtherStep DEF vars
    <2>2. CASE Tick \/ \E u \in Users : DeleteUser(u)
        <3>1. UNCHANGED <<req, forked>> /\ \A i \in Ids : rows'[i] = rows[i] \/ rows'[i] = None
            BY <2>2 DEF Tick, DeleteUser
        <3> QED BY <1>2, <3>1, SerialOtherStep
    <2>3. ASSUME NEW r \in Requests, End(r) PROVE SerialInv'
        BY <1>2, <2>3, SerialReadStep DEF End
    <2>4. ASSUME NEW r \in Requests, NEW op \in {"register", "rotate", "revoke", "revoke_all"},
                 NEW u \in Users, NEW id \in Ids \cup {None}, Start(r, op, u, id)
          PROVE  SerialInv'
        <3>1. PICK q : q = [ op |-> op, stage |-> IF op = "register" THEN "commit" ELSE "select",
                             user |-> u, id |-> id, selected |-> {}, known |-> {} ]
            OBVIOUS
        <3>2. Current(q, rows)
            BY <3>1 DEF Current
        <3>3. req' = [req EXCEPT ![r] = q] /\ UNCHANGED <<rows, forked>>
            BY <2>4, <3>1 DEF Start
        <3> QED BY <1>2, <3>2, <3>3, SerialReadStep
    <2> QED BY <1>2, <2>1, <2>2, <2>3, <2>4, SerialSelectStep, SerialCommitStep DEF Next, Abort
<1> QED BY <1>1, <1>2, Invariance, PTL DEF Spec

\* "Rotate refresh token by revoking old session and creating a replacement":
\* when no two requests overlap, a login has at most one session that is not
\* revoked.
THEOREM SerialRotation ==
    ASSUME OneAtATime
    PROVE  Spec => [](\A i, j \in Ids :
                        /\ i # j /\ rows[i] # None /\ rows[j] # None
                        /\ ~rows[i].revoked /\ ~rows[j].revoked
                        => rows[i].login # rows[j].login)
<1>1. IInv /\ SerialInv => \A i, j \in Ids :
                              /\ i # j /\ rows[i] # None /\ rows[j] # None
                              /\ ~rows[i].revoked /\ ~rows[j].revoked
                              => rows[i].login # rows[j].login
    BY DEF IInv, SerialInv, LoginForksOnlyByOverlap
<1> QED BY <1>1, Invariance, SerialInvariance, PTL

\* Without overlaps revoke_all_user_sessions leaves its user no session that is
\* not revoked but the one to be kept.
THEOREM SerialRevokeAll ==
    ASSUME OneAtATime
    PROVE  Spec => [][\A r \in Requests :
                        At(r, {"revoke_all"}, "commit") /\ req'[r] = None /\ rows' # rows
                           => \A i \in SessionsOf(req[r].user) \ {req[r].id} :
                                 rows'[i] = None \/ rows'[i].revoked]_vars
<1>1. ASSUME SerialInv, NEW r \in Requests, At(r, {"revoke_all"}, "commit")
      PROVE  SessionsOf(req[r].user) \subseteq req[r].known
    BY <1>1 DEF SerialInv, Current, At, SessionsOf
<1>2. /\ SerialInv
      /\ [\A r \in Requests :
             At(r, {"revoke_all"}, "commit") /\ req'[r] = None /\ rows' # rows
                => \A i \in req[r].known \ {req[r].id} :
                      rows'[i] = None \/ rows'[i].revoked]_vars
      => [\A r \in Requests :
             At(r, {"revoke_all"}, "commit") /\ req'[r] = None /\ rows' # rows
                => \A i \in SessionsOf(req[r].user) \ {req[r].id} :
                      rows'[i] = None \/ rows'[i].revoked]_vars
    BY <1>1
<1> QED BY <1>2, SerialInvariance, RevokeAllMissesNothingOlder, PTL
        DEF RevokeAllMissesOnlyNewer
=============================================================================
