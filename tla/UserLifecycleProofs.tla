------------------------ MODULE UserLifecycleProofs ------------------------
(***************************************************************************)
(* What holds of UserLifecycle for any addresses, identities and rows, any *)
(* number of requests and any set of deployments.                          *)
(*                                                                         *)
(* What Cognito does in a step is summed up first (Tame): an address keeps *)
(* its identity, or gets a new one, or one that has moved.  The invariant  *)
(* then says what a request that has loaded a row knows of it, and for     *)
(* requests that do not overlap (SerialInv) that the row is still so.      *)
(***************************************************************************)
EXTENDS UserLifecycle, FiniteSetTheorems, TLAPS

\* Identity s is at address e, if anywhere, or has moved.
Home(s, e) == s \in moved \/ \A f \in Emails : pool[f] # None /\ pool[f].sub = s => f = e

\* The identities in use have been handed out, each at one address.
PoolInv ==
    \A e \in Emails : pool[e] # None => pool[e].sub \notin subs /\ Home(pool[e].sub, e)

\* A row is about an identity and its address, if it is not mixed.
RowsInv ==
    /\ \A i \in fresh : users[i] = None
    /\ \A i \in Live :
          /\ users[i].cognito_sub \notin subs
          /\ i \in mixed \/ Home(users[i].cognito_sub, users[i].email)

\* The account of the identity a deletion is about is gone, or has moved.
AccountGone(row) ==
    \/ pool[row.email] = None \/ pool[row.email].sub # row.cognito_sub
    \/ row.cognito_sub \in moved

RequestInv(q) ==
    /\ q.op = "sync" => q.sub \in Subs \ subs /\ q.email \in Emails /\ Home(q.sub, q.email)
    /\ q.op = "sync" /\ q.stage # "commit" => q.id = None
    /\ q.op = "sync" /\ q.stage = "commit" /\ q.id # None =>
         q.was \in User /\ (q.was.cognito_sub = q.sub \/ q.was.email = q.email)
    /\ q.op \in Ops => q.id \in Ids
    /\ q.op \in Ops /\ q.stage # "load" =>
         /\ q.was \in User /\ q.was.cognito_sub \notin subs
         /\ q.id \in mixed \/ Home(q.was.cognito_sub, q.was.email)
    /\ q.op = "demote" /\ q.stage = "commit" /\ q.was.is_platform_admin =>
         Cardinality(q.seen) > 1
    /\ q.op = "delete" /\ q.stage # "load" => ~ q.was.is_platform_admin
    /\ q.op = "delete" /\ q.stage = "commit" => AccountGone(q.was)

IInv ==
    /\ TypeOK /\ PoolInv /\ RowsInv
    /\ \A r \in Requests : req[r] # None => RequestInv(req[r])

-----------------------------------------------------------------------------
(* Cognito *)

\* What any step does to the accounts.
Tame ==
    /\ CognitoTypeOK' /\ PoolInv'
    /\ subs' \subseteq subs /\ moved \subseteq moved'
    /\ \A e \in Emails : pool'[e] # None =>
         \/ pool[e] # None /\ pool'[e].sub = pool[e].sub
         \/ pool'[e].sub \in subs \/ pool'[e].sub \in moved'

\* Nothing changes.
LEMMA TameUnchanged == CognitoTypeOK /\ PoolInv /\ UNCHANGED cognito => Tame
    BY DEF CognitoTypeOK, PoolInv, Home, cognito, Tame

\* An account is written that has the identity of the one before, or goes.
LEMMA TamePut ==
    ASSUME CognitoTypeOK, PoolInv, NEW e \in Emails, NEW account \in Account \cup {None},
           Put(e, account), account # None => pool[e] # None /\ account.sub = pool[e].sub
    PROVE  Tame
<1>1. pool' = [pool EXCEPT ![e] = account] /\ UNCHANGED <<deployment, subs, moved>>
    BY DEF Put
<1>2. CognitoTypeOK'
    BY <1>1 DEF CognitoTypeOK
<1>3. \A f \in Emails : pool'[f] # None => pool[f] # None /\ pool'[f].sub = pool[f].sub
    BY <1>1 DEF CognitoTypeOK
<1>4. PoolInv'
    BY <1>1, <1>3 DEF PoolInv, Home
<1> QED BY <1>1, <1>2, <1>3, <1>4 DEF Tame

\* An account is created.
LEMMA TameCreate ==
    ASSUME CognitoTypeOK, PoolInv, NEW e \in Emails,
           NEW status \in {"UNCONFIRMED", "CONFIRMED", "FORCE_CHANGE_PASSWORD"},
           NEW known \in BOOLEAN, Create(e, status, known)
    PROVE  Tame
<1>1. PICK s \in subs : /\ pool' = [pool EXCEPT ![e] = NewAccount(s, status, known)]
                        /\ subs' = subs \ {s} /\ UNCHANGED <<deployment, moved>>
    BY DEF Create
<1>2. s \in Subs
    BY DEF CognitoTypeOK
<1> DEFINE new == NewAccount(s, status, known)
<1>3. new \in Account /\ new.sub = s
    BY <1>2 DEF NewAccount, Account
<1> HIDE DEF new
<1>4. pool' = [pool EXCEPT ![e] = new]
    BY <1>1 DEF new
<1>5. CognitoTypeOK'
    BY <1>1, <1>3, <1>4 DEF CognitoTypeOK
<1>6. \A f \in Emails : pool'[f] # None =>
         \/ f = e /\ pool'[f].sub = s
         \/ pool[f] # None /\ pool'[f].sub = pool[f].sub
    BY <1>3, <1>4 DEF CognitoTypeOK
<1>7. PoolInv'
    <2>1. ASSUME NEW f \in Emails, pool'[f] # None, NEW g \in Emails, pool'[g] # None,
                 pool'[f].sub = pool'[g].sub
          PROVE  f = g \/ pool'[f].sub \in moved
        BY <1>6, <2>1 DEF PoolInv, Home
    <2>2. ASSUME NEW f \in Emails, pool'[f] # None PROVE pool'[f].sub \notin subs'
        BY <1>1, <1>6, <2>2 DEF PoolInv
    <2> QED BY <1>1, <2>1, <2>2 DEF PoolInv, Home
<1> QED BY <1>1, <1>5, <1>6, <1>7 DEF Tame

\* A field of an account changes.
LEMMA AccountField ==
    ASSUME CognitoTypeOK, NEW e \in Emails, pool[e] # None,
           NEW status \in {"UNCONFIRMED", "CONFIRMED", "FORCE_CHANGE_PASSWORD", "RESET_REQUIRED"},
           NEW b \in BOOLEAN, NEW c \in BOOLEAN
    PROVE  /\ pool[e] \in Account
           /\ [pool[e] EXCEPT !.status = status] \in Account
           /\ [pool[e] EXCEPT !.status = status].sub = pool[e].sub
           /\ [pool[e] EXCEPT !.code = c] \in Account
           /\ [pool[e] EXCEPT !.code = c].sub = pool[e].sub
           /\ [pool[e] EXCEPT !.enabled = b] \in Account
           /\ [pool[e] EXCEPT !.enabled = b].sub = pool[e].sub
           /\ [pool[e] EXCEPT !.status = status, !.known = b] \in Account
           /\ [pool[e] EXCEPT !.status = status, !.known = b].sub = pool[e].sub
           /\ [pool[e] EXCEPT !.status = status, !.code = c] \in Account
           /\ [pool[e] EXCEPT !.status = status, !.code = c].sub = pool[e].sub
           /\ [pool[e] EXCEPT !.status = status, !.known = b, !.code = c] \in Account
           /\ [pool[e] EXCEPT !.status = status, !.known = b, !.code = c].sub = pool[e].sub
<1>1. pool[e] \in Account
    BY DEF CognitoTypeOK
<1> QED BY <1>1 DEF Account

\* The sign-ups, the pages and the invitations.
LEMMA TameCognitoNext ==
    ASSUME CognitoTypeOK, PoolInv, CognitoNext
    PROVE  Tame
<1>1. PICK e \in Emails :
         \/ HostedSignUp(e) \/ RemoveAccount(e)
         \/ \E f \in Emails : ChangeAddress(e, f)
         \/ sign_up_user(e) \/ confirm_sign_up(e)
         \/ forgot_password(e) \/ confirm_forgot_password(e)
         \/ create_invited_cognito_user(e)
    BY DeploymentsKnown DEF CognitoNext, CognitoTypeOK
<1>2. CASE HostedSignUp(e)
    BY <1>2, TameCreate DEF HostedSignUp
<1>3. CASE RemoveAccount(e)
    BY <1>3, TamePut DEF RemoveAccount
<1>4. ASSUME NEW f \in Emails, ChangeAddress(e, f) PROVE Tame
    <2>1. /\ pool[e] # None /\ pool[f] = None /\ pool[e] \in Account
          /\ pool' = [pool EXCEPT ![f] = pool[e], ![e] = None]
          /\ moved' = moved \cup {pool[e].sub} /\ UNCHANGED <<deployment, subs>>
        BY <1>4 DEF ChangeAddress, In, CognitoTypeOK
    <2>2. pool[e].sub \in Subs
        BY <2>1 DEF Account
    <2>3. CognitoTypeOK'
        BY <2>1, <2>2 DEF CognitoTypeOK
    <2>4. \A g \in Emails : pool'[g] # None =>
             \/ g = f /\ pool'[g] = pool[e]
             \/ pool[g] # None /\ pool'[g] = pool[g]
        BY <2>1 DEF CognitoTypeOK
    <2>5. pool[e].sub \notin subs /\ pool[e].sub \in moved'
        BY <2>1 DEF PoolInv
    <2>6. subs' = subs /\ moved \subseteq moved'
        BY <2>1
    <2>7. ASSUME NEW g \in Emails, pool'[g] # None
          PROVE  /\ pool'[g].sub \notin subs'
                 /\ \/ pool[g] # None /\ pool'[g].sub = pool[g].sub
                    \/ pool'[g].sub \in moved'
        <3>1. CASE pool'[g] = pool[e]
            BY <2>5, <2>6, <3>1
        <3>2. CASE pool[g] # None /\ pool'[g] = pool[g]
            BY <2>6, <3>2 DEF PoolInv
        <3> QED BY <2>4, <2>7, <3>1, <3>2
    <2>8. ASSUME NEW g \in Emails, pool'[g] # None, NEW h \in Emails, pool'[h] # None,
                 pool'[g].sub = pool'[h].sub
          PROVE  g = h \/ pool'[g].sub \in moved'
        <3>1. CASE pool'[g] = pool[e] \/ pool'[h] = pool[e]
            BY <2>5, <2>8, <3>1
        <3>2. CASE pool[g] # None /\ pool'[g] = pool[g] /\ pool[h] # None /\ pool'[h] = pool[h]
            BY <2>6, <2>8, <3>2 DEF PoolInv, Home
        <3> QED BY <2>4, <2>8, <3>1, <3>2
    <2>9. PoolInv'
        BY <2>7, <2>8 DEF PoolInv, Home
    <2> QED BY <2>3, <2>6, <2>7, <2>9 DEF Tame
<1>5. CASE sign_up_user(e)
    BY <1>5, TameCreate DEF sign_up_user
<1>6. CASE confirm_sign_up(e)
    <2>1. pool[e] # None /\ Put(e, [pool[e] EXCEPT !.status = "CONFIRMED"])
        BY <1>6 DEF confirm_sign_up, In
    <2> QED BY <2>1, AccountField, TamePut
<1>7. CASE forgot_password(e)
    <2>1. pool[e] # None /\ Put(e, [pool[e] EXCEPT !.code = TRUE])
        BY <1>7 DEF forgot_password, In
    <2> QED BY <2>1, AccountField, TamePut
<1>8. CASE confirm_forgot_password(e)
    <2>1. pool[e] # None
          /\ Put(e, [pool[e] EXCEPT !.status = "CONFIRMED", !.known = TRUE, !.code = FALSE])
        BY <1>8 DEF confirm_forgot_password
    <2> QED BY <2>1, AccountField, TamePut
<1>9. CASE create_invited_cognito_user(e)
    <2>1. CASE Create(e, "FORCE_CHANGE_PASSWORD", FALSE)
        BY <2>1, TameCreate
    <2>2. CASE /\ pool[e] # None
               /\ Put(e, [pool[e] EXCEPT !.status = "FORCE_CHANGE_PASSWORD", !.known = FALSE])
        <3> DEFINE new == [pool[e] EXCEPT !.status = "FORCE_CHANGE_PASSWORD", !.known = FALSE]
        <3>1. new \in Account /\ new.sub = pool[e].sub
            BY <2>2, AccountField
        <3> HIDE DEF new
        <3>2. Put(e, new)
            BY <2>2 DEF new
        <3> QED BY <2>2, <3>1, <3>2, TamePut
    <2> QED BY <1>9, <2>1, <2>2 DEF create_invited_cognito_user
<1> QED BY <1>1, <1>2, <1>3, <1>4, <1>5, <1>6, <1>7, <1>8, <1>9

\* The requests' calls.
LEMMA TameCalls ==
    ASSUME CognitoTypeOK, PoolInv, NEW e \in Emails, NEW s,
           \/ respond_to_new_password_challenge(e, s) \/ admin_delete_user(e)
           \/ admin_disable_user(e) \/ admin_enable_user(e) \/ admin_reset_user_password(e)
    PROVE  Tame
<1>1. CASE respond_to_new_password_challenge(e, s)
    <2>1. pool[e] # None /\ Put(e, [pool[e] EXCEPT !.status = "CONFIRMED", !.known = TRUE])
        BY <1>1 DEF respond_to_new_password_challenge, In
    <2> QED BY <2>1, AccountField, TamePut
<1>2. CASE admin_delete_user(e)
    BY <1>2, TamePut DEF admin_delete_user
<1>3. CASE admin_disable_user(e)
    BY <1>3, AccountField, TamePut DEF admin_disable_user
<1>4. CASE admin_enable_user(e)
    BY <1>4, AccountField, TamePut DEF admin_enable_user
<1>5. CASE admin_reset_user_password(e)
    <2>1. pool[e] # None
          /\ Put(e, [pool[e] EXCEPT !.status = "RESET_REQUIRED", !.code = TRUE])
        BY <1>5 DEF admin_reset_user_password, In
    <2> QED BY <2>1, AccountField, TamePut
<1> QED BY <1>1, <1>2, <1>3, <1>4, <1>5

\* The same step leaves an identity at its address, or another one there.
LEMMA GoneStays ==
    ASSUME Tame, PoolInv, NEW row \in User, row.cognito_sub \notin subs, AccountGone(row)
    PROVE  AccountGone(row)'
<1>1. row.email \in Emails
    BY DEF User
<1>2. CASE row.cognito_sub \in moved
    BY <1>2 DEF Tame, AccountGone
<1>3. CASE row.cognito_sub \notin moved'
    BY <1>1, <1>3 DEF Tame, AccountGone
<1>4. CASE row.cognito_sub \in moved'
    BY <1>4 DEF AccountGone
<1> QED BY <1>2, <1>3, <1>4

\* An identity that has been handed out comes to no other address but by moving.
LEMMA HomeStays ==
    ASSUME Tame, NEW s, s \notin subs, NEW e, Home(s, e)
    PROVE  Home(s, e)'
<1>1. CASE s \in moved
    BY <1>1 DEF Tame, Home
<1>2. CASE s \notin moved'
    <2>1. ASSUME NEW f \in Emails, pool'[f] # None, pool'[f].sub = s PROVE f = e
        BY <1>2, <2>1 DEF Tame, Home
    <2> QED BY <2>1 DEF Home
<1> QED BY <1>1, <1>2 DEF Home

-----------------------------------------------------------------------------
(* Rows *)

\* The columns an UPDATE leaves.
LEMMA WrittenColumns ==
    ASSUME NEW i \in Ids, users[i] \in User, NEW was \in User, NEW new \in User,
           NEW me, me.id = i, me.was = was
    PROVE  /\ Written(me, new) \in User
           /\ Written(me, new).cognito_sub =
                 IF new.cognito_sub # was.cognito_sub THEN new.cognito_sub
                 ELSE users[i].cognito_sub
           /\ Written(me, new).email = IF new.email # was.email THEN new.email ELSE users[i].email
           /\ Written(me, new).is_active =
                 IF new.is_active # was.is_active THEN new.is_active ELSE users[i].is_active
           /\ Written(me, new).is_platform_admin =
                 IF new.is_platform_admin # was.is_platform_admin THEN new.is_platform_admin
                 ELSE users[i].is_platform_admin
<1>1. DOMAIN new = {"cognito_sub", "email", "is_platform_admin", "is_active"}
    BY DEF User
<1>2. /\ Written(me, new).cognito_sub =
            IF new.cognito_sub # was.cognito_sub THEN new.cognito_sub ELSE users[i].cognito_sub
      /\ Written(me, new).email = IF new.email # was.email THEN new.email ELSE users[i].email
      /\ Written(me, new).is_active =
            IF new.is_active # was.is_active THEN new.is_active ELSE users[i].is_active
      /\ Written(me, new).is_platform_admin =
            IF new.is_platform_admin # was.is_platform_admin THEN new.is_platform_admin
            ELSE users[i].is_platform_admin
    BY <1>1 DEF Written
<1>3. Written(me, new) \in User
    <2>1. /\ Written(me, new).cognito_sub \in Subs /\ Written(me, new).email \in Emails
          /\ Written(me, new).is_active \in BOOLEAN
          /\ Written(me, new).is_platform_admin \in BOOLEAN
        BY <1>2 DEF User
    <2> DEFINE row == Written(me, new)
    <2>2. row = [ cognito_sub |-> row.cognito_sub, email |-> row.email,
                  is_platform_admin |-> row.is_platform_admin, is_active |-> row.is_active ]
        BY <1>1 DEF Written
    <2> HIDE DEF row
    <2>3. row \in User
        BY <2>1, <2>2 DEF User, row
    <2> QED BY <2>3 DEF row
<1> QED BY <1>2, <1>3

\* What the administrators' operations make of a row.
LEMMA FlaggedRow ==
    ASSUME NEW me, me.was \in User, me.op \in {"suspend", "unsuspend", "promote", "demote"}
    PROVE  /\ Flagged(me) \in User
           /\ Flagged(me).cognito_sub = me.was.cognito_sub /\ Flagged(me).email = me.was.email
           /\ me.op # "unsuspend" => (Flagged(me).is_active => me.was.is_active)
           /\ me.op # "promote" =>
                (Flagged(me).is_platform_admin => me.was.is_platform_admin)
           /\ me.op # "demote" =>
                (me.was.is_platform_admin => Flagged(me).is_platform_admin)
    BY DEF Flagged, User

\* What a request knows it goes on knowing, whatever Cognito does meanwhile.
LEMMA KnowsStill ==
    ASSUME Tame, PoolInv, mixed \subseteq mixed', NEW q \in Request, RequestInv(q)
    PROVE  RequestInv(q)'
<1>1. subs' \subseteq subs
    BY DEF Tame
<1>2. ASSUME q.op = "delete", q.stage = "commit" PROVE AccountGone(q.was)'
    <2>1. q.op \in Ops /\ q.stage # "load"
        BY <1>2, OpsKnown
    <2>2. PICK row : row = q.was
        OBVIOUS
    <2>3. row \in User /\ row.cognito_sub \notin subs /\ AccountGone(row)
        BY <1>2, <2>1, <2>2 DEF RequestInv
    <2>4. AccountGone(row)'
        BY <2>3, GoneStays
    <2> QED BY <2>2, <2>4
<1>3. ASSUME q.op = "sync" PROVE Home(q.sub, q.email)'
    <2>1. PICK s, e : s = q.sub /\ e = q.email
        OBVIOUS
    <2>2. Home(s, e)'
        BY <1>3, <2>1, HomeStays DEF RequestInv
    <2> QED BY <2>1, <2>2 DEF Home
<1>4. ASSUME q.op \in Ops, q.stage # "load", q.id \notin mixed
      PROVE  Home(q.was.cognito_sub, q.was.email)'
    <2>1. PICK s, e : s = q.was.cognito_sub /\ e = q.was.email
        OBVIOUS
    <2>2. Home(s, e)'
        BY <1>4, <2>1, HomeStays DEF RequestInv
    <2> QED BY <2>1, <2>2 DEF Home
<1> QED BY <1>1, <1>2, <1>3, <1>4 DEF RequestInv

\* A step changes one request.
LEMMA OneRequest ==
    ASSUME IInv, Tame, mixed \subseteq mixed', NEW r \in Requests, NEW q \in Request \cup {None},
           req' = [req EXCEPT ![r] = q], q # None => RequestInv(q)'
    PROVE  /\ req' \in [Requests -> Request \cup {None}]
           /\ \A s \in Requests : req'[s] # None => RequestInv(req[s])'
<1>1. req \in [Requests -> Request \cup {None}]
    BY DEF IInv, TypeOK
<1>2. req' \in [Requests -> Request \cup {None}]
    BY <1>1
<1>3. ASSUME NEW s \in Requests, req'[s] # None PROVE RequestInv(req[s])'
    <2>1. CASE s = r
        <3>1. req'[s] = q
            BY <1>1, <2>1
        <3> QED BY <1>3, <3>1 DEF RequestInv, AccountGone, Home
    <2>2. CASE s # r
        <3>1. req'[s] = req[s]
            BY <1>1, <2>2
        <3>2. PICK p \in Request : p = req[s]
            BY <1>1, <1>3, <3>1
        <3>3. RequestInv(p)
            BY <1>3, <3>1, <3>2 DEF IInv
        <3>4. RequestInv(p)'
            BY <3>3, KnowsStill DEF IInv
        <3> QED BY <3>1, <3>2, <3>4 DEF RequestInv, AccountGone, Home
    <2> QED BY <2>1, <2>2
<1> QED BY <1>2, <1>3

\* No row changes.
LEMMA RowsSame ==
    ASSUME IInv, Tame, users' = users, fresh' = fresh, mixed' = mixed
    PROVE  RowsInv' /\ users' \in [Ids -> User \cup {None}] /\ fresh' \subseteq Ids
<1>1. ASSUME NEW i \in Live
      PROVE  /\ users[i].cognito_sub \notin subs'
             /\ i \in mixed \/ Home(users[i].cognito_sub, users[i].email)'
    <2>1. PICK s, e : s = users[i].cognito_sub /\ e = users[i].email
        OBVIOUS
    <2>2. s \notin subs /\ (i \in mixed \/ Home(s, e))
        BY <2>1 DEF IInv, RowsInv
    <2>3. s \notin subs' /\ (i \in mixed \/ Home(s, e)')
        BY <2>2, HomeStays DEF Tame
    <2> QED BY <2>1, <2>3 DEF Home
<1> QED BY <1>1 DEF IInv, TypeOK, RowsInv, Live, Home

\* A row is written that is about an identity and its address, or is mixed.
LEMMA RowWritten ==
    ASSUME IInv, UNCHANGED cognito, NEW i \in Ids, NEW row \in User,
           users' = [users EXCEPT ![i] = row], fresh' = fresh \ {i}, mixed \subseteq mixed',
           row.cognito_sub \notin subs, i \in mixed' \/ Home(row.cognito_sub, row.email)
    PROVE  RowsInv' /\ users' \in [Ids -> User \cup {None}] /\ fresh' \subseteq Ids
<1>1. /\ users \in [Ids -> User \cup {None}] /\ fresh \subseteq Ids
      /\ pool' = pool /\ subs' = subs /\ moved' = moved
    BY DEF IInv, TypeOK, cognito
<1>2. /\ users' \in [Ids -> User \cup {None}] /\ users'[i] = row
      /\ \A j \in Ids \ {i} : users'[j] = users[j]
    BY <1>1
<1>3. \A j \in fresh' : users'[j] = None
    BY <1>1, <1>2 DEF IInv, RowsInv
<1>4. ASSUME NEW j \in Live'
      PROVE  /\ users'[j].cognito_sub \notin subs
             /\ j \in mixed' \/ Home(users'[j].cognito_sub, users'[j].email)
    <2>1. CASE j = i
        BY <1>2, <2>1
    <2>2. CASE j # i
        BY <1>2, <1>4, <2>2 DEF IInv, RowsInv, Live
    <2> QED BY <2>1, <2>2
<1> QED BY <1>1, <1>2, <1>3, <1>4 DEF RowsInv, Live, Home

\* A row is updated that keeps its identity and its address.
LEMMA RowKept ==
    ASSUME IInv, UNCHANGED cognito, NEW i \in Ids, users[i] # None, NEW row \in User,
           row.cognito_sub = users[i].cognito_sub, row.email = users[i].email,
           users' = [users EXCEPT ![i] = row], fresh' = fresh, mixed' = mixed
    PROVE  RowsInv' /\ users' \in [Ids -> User \cup {None}] /\ fresh' \subseteq Ids
<1>1. i \in Live /\ i \notin fresh
    BY DEF Live, IInv, RowsInv
<1>2. fresh' = fresh \ {i}
    BY <1>1
<1>3. row.cognito_sub \notin subs /\ (i \in mixed \/ Home(row.cognito_sub, row.email))
    BY <1>1 DEF IInv, RowsInv
<1> QED BY <1>2, <1>3, RowWritten

\* A row goes.
LEMMA RowDeleted ==
    ASSUME IInv, UNCHANGED cognito, NEW i \in Ids, users' = [users EXCEPT ![i] = None],
           fresh' = fresh, mixed' = mixed
    PROVE  RowsInv' /\ users' \in [Ids -> User \cup {None}] /\ fresh' \subseteq Ids
<1>1. /\ users \in [Ids -> User \cup {None}] /\ fresh \subseteq Ids
      /\ pool' = pool /\ subs' = subs /\ moved' = moved
    BY DEF IInv, TypeOK, cognito
<1>2. /\ users' \in [Ids -> User \cup {None}] /\ users'[i] = None
      /\ \A j \in Ids \ {i} : users'[j] = users[j]
    BY <1>1
<1>3. Live' = Live \ {i}
    BY <1>2 DEF Live
<1>4. \A j \in Live' : users'[j] = users[j]
    BY <1>2, <1>3 DEF Live
<1> QED BY <1>1, <1>2, <1>3, <1>4 DEF IInv, RowsInv, Home

-----------------------------------------------------------------------------
(* The invariant *)

\* A request that ends leaves everything as it is.
LEMMA EndStep ==
    ASSUME IInv, NEW r \in Requests, End(r)
    PROVE  IInv'
<1>1. Tame /\ users' = users /\ fresh' = fresh /\ mixed' = mixed /\ req' = [req EXCEPT ![r] = None]
    BY TameUnchanged DEF End, IInv, TypeOK
<1>2. RowsInv' /\ users' \in [Ids -> User \cup {None}] /\ fresh' \subseteq Ids
    BY <1>1, RowsSame
<1>3. /\ req' \in [Requests -> Request \cup {None}]
      /\ \A s \in Requests : req'[s] # None => RequestInv(req[s])'
    BY <1>1, OneRequest
<1> QED BY <1>1, <1>2, <1>3 DEF IInv, TypeOK, Tame

\* So does, but for the request, a step that only takes it further.
LEMMA RequestGoesOn ==
    ASSUME IInv, Tame, users' = users, fresh' = fresh, mixed' = mixed, NEW r \in Requests,
           NEW q \in Request \cup {None}, req' = [req EXCEPT ![r] = q],
           q # None => RequestInv(q)'
    PROVE  IInv'
<1>1. RowsInv' /\ users' \in [Ids -> User \cup {None}] /\ fresh' \subseteq Ids
    BY RowsSame
<1>2. /\ req' \in [Requests -> Request \cup {None}]
      /\ \A s \in Requests : req'[s] # None => RequestInv(req[s])'
    BY OneRequest
<1> QED BY <1>1, <1>2 DEF IInv, TypeOK, Tame

\* And a commit, if the rows stay in order.
LEMMA CommitStep ==
    ASSUME IInv, Tame, NEW r \in Requests, req' = [req EXCEPT ![r] = None],
           RowsInv', users' \in [Ids -> User \cup {None}], fresh' \subseteq Ids,
           mixed \subseteq mixed', mixed' \subseteq Ids
    PROVE  IInv'
<1>1. /\ req' \in [Requests -> Request \cup {None}]
      /\ \A s \in Requests : req'[s] # None => RequestInv(req[s])'
    BY OneRequest
<1> QED BY <1>1 DEF IInv, TypeOK, Tame

\* At the start there is no request, and the rows are those of the accounts.
LEMMA Initially == Init => IInv
<1> SUFFICES ASSUME Init PROVE IInv
    OBVIOUS
<1>1. pool \in [Emails -> {None} \cup Account] /\ deployment \in Deployments
    <2>1. [ sub : Subs, enabled : {TRUE}, known : {TRUE}, code : {FALSE},
            status : {"CONFIRMED", "FORCE_CHANGE_PASSWORD"} ] \subseteq Account
        BY DEF Account
    <2> QED BY <2>1 DEF Init, CognitoInit
<1>2. users \in [Ids -> User \cup {None}]
    <2>1. [ cognito_sub : Subs, email : Emails, is_platform_admin : BOOLEAN,
            is_active : {TRUE} ] \subseteq User
        BY DEF User
    <2> QED BY <2>1 DEF Init
<1>3. CognitoTypeOK
    BY <1>1 DEF Init, CognitoInit, CognitoTypeOK
<1>4. PoolInv
    BY DEF Init, CognitoInit, PoolInv, Home
<1>5. ASSUME NEW e \in Emails, pool[e] # None PROVE pool[e].sub \in Subs
    BY <1>1, <1>5 DEF Account
<1>6. ASSUME NEW i \in Live
      PROVE  /\ users[i] \in User
             /\ pool[users[i].email] # None
             /\ users[i].cognito_sub = pool[users[i].email].sub
    BY <1>2, <1>6 DEF Init, Live
<1>9. RowsInv
    <2>1. ASSUME NEW i \in Live
          PROVE  /\ users[i].cognito_sub \notin subs
                 /\ Home(users[i].cognito_sub, users[i].email)
        BY <1>4, <1>6 DEF Live, PoolInv, User
    <2> QED BY <2>1 DEF RowsInv, Init
<1> QED BY <1>2, <1>3, <1>4, <1>9 DEF Init, IInv, TypeOK

\* Signing in: the token names an identity that has been handed out.
LEMMA SignInStep ==
    ASSUME IInv, NEW r \in Requests, NEW e \in Emails, SignIn(r, e)
    PROVE  IInv'
<1>1. PICK stage \in {"token", "challenge"} :
         pool[e] # None /\ Begin(r, NewSync(pool[e].sub, e, stage))
    BY DEF SignIn, Authenticates, Challenges, In
<1>2. PICK s : s = pool[e].sub
    OBVIOUS
<1>3. s \in Subs \ subs /\ Home(s, e)
    BY <1>1, <1>2 DEF IInv, TypeOK, CognitoTypeOK, Account, PoolInv
<1> DEFINE q == NewSync(s, e, stage)
<1>4. /\ q \in Request /\ q.op = "sync" /\ q.sub = s /\ q.email = e /\ q.stage = stage
      /\ q.id = None
    BY <1>3 DEF NewSync, Request
<1> HIDE DEF q
<1>5. Tame /\ users' = users /\ fresh' = fresh /\ mixed' = mixed /\ req' = [req EXCEPT ![r] = q]
    BY <1>1, <1>2, TameUnchanged DEF Begin, IInv, TypeOK, q
<1>6. q.op \notin Ops /\ q.op \notin {"demote", "delete"}
    BY <1>4, OpsKnown
<1>7. RequestInv(q)
    BY <1>3, <1>4, <1>6 DEF RequestInv
<1>8. RequestInv(q)'
    BY <1>4, <1>5, <1>7, KnowsStill DEF IInv
<1> QED BY <1>4, <1>5, <1>8, RequestGoesOn

\* The new password: the request keeps its token.
LEMMA SetPasswordStep ==
    ASSUME IInv, NEW r \in Requests, SetPassword(r)
    PROVE  IInv'
<1>1. req[r] \in Request /\ req[r] # None /\ req[r].op = "sync" /\ RequestInv(req[r])
    BY DEF SetPassword, At, IInv, TypeOK
<1>2. PICK e \in Emails, s \in Subs \ subs :
         e = req[r].email /\ s = req[r].sub /\ Home(s, e)
    BY <1>1 DEF RequestInv
<1>3. Tame
    BY <1>2, TameCalls DEF SetPassword, IInv, TypeOK
<1>4. PICK q : q = [req[r] EXCEPT !.stage = "token"]
    OBVIOUS
<1>5. /\ q \in Request /\ q.op = "sync" /\ q.sub = s /\ q.email = e /\ q.stage = "token"
      /\ q.id = None
    BY <1>1, <1>2, <1>4 DEF Request, SetPassword, At, RequestInv
<1>6. q.op \notin Ops /\ q.op \notin {"demote", "delete"}
    BY <1>5, OpsKnown
<1>7. RequestInv(q)
    BY <1>2, <1>5, <1>6 DEF RequestInv
<1>8. RequestInv(q)'
    BY <1>3, <1>5, <1>7, KnowsStill DEF IInv, SetPassword
<1>9. users' = users /\ fresh' = fresh /\ mixed' = mixed /\ req' = [req EXCEPT ![r] = q]
    BY <1>4 DEF SetPassword
<1> QED BY <1>3, <1>5, <1>8, <1>9, RequestGoesOn

\* Looking for the row: by identity, then by address.
LEMMA SyncSelectStep ==
    ASSUME IInv, NEW r \in Requests, SyncBySub(r) \/ SyncByEmail(r)
    PROVE  IInv'
<1>1. req[r] \in Request /\ req[r] # None /\ req[r].op = "sync" /\ RequestInv(req[r])
    BY DEF SyncBySub, SyncByEmail, At, IInv, TypeOK
<1>2. PICK e \in Emails, s \in Subs \ subs :
         e = req[r].email /\ s = req[r].sub /\ Home(s, e)
    BY <1>1 DEF RequestInv
<1>3. "sync" \notin Ops
    BY OpsKnown
<1>4. ASSUME NEW q \in Request, q.op = "sync", q.sub = s, q.email = e,
             q.stage # "commit" => q.id = None,
             q.stage = "commit" /\ q.id # None =>
                q.was \in User /\ (q.was.cognito_sub = s \/ q.was.email = e),
             req' = [req EXCEPT ![r] = q], UNCHANGED <<cognito, users, fresh, mixed>>
      PROVE  IInv'
    <2>1. Tame /\ users' = users /\ fresh' = fresh /\ mixed' = mixed
        BY <1>4, TameUnchanged DEF IInv, TypeOK
    <2>2. RequestInv(q)
        BY <1>2, <1>3, <1>4 DEF RequestInv
    <2>3. RequestInv(q)'
        BY <2>1, <2>2, KnowsStill DEF IInv
    <2> QED BY <1>4, <2>1, <2>3, RequestGoesOn
<1>5. ASSUME NEW ids, NEW otherwise \in {"by_email", "commit"}, Found(r, ids, otherwise),
             ids \subseteq Live,
             \A i \in ids : users[i].cognito_sub = s \/ users[i].email = e,
             req[r].id = None
      PROVE  IInv'
    <2>1. UNCHANGED <<cognito, users, fresh, mixed>>
        BY <1>5 DEF Found
    <2>2. CASE ids = {}
        <3>1. PICK q : q = [req[r] EXCEPT !.stage = otherwise]
            OBVIOUS
        <3>2. req' = [req EXCEPT ![r] = q]
            BY <1>5, <2>2, <3>1 DEF Found
        <3>3. /\ q \in Request /\ q.op = "sync" /\ q.sub = s /\ q.email = e
              /\ q.stage = otherwise /\ q.id = req[r].id
            BY <1>1, <1>2, <3>1 DEF Request
        <3> QED BY <1>4, <1>5, <2>1, <3>2, <3>3
    <2>3. CASE ids # {}
        <3>1. PICK i \in ids : i = CHOOSE j \in ids : TRUE
            BY <2>3
        <3>2. i \in Ids /\ users[i] \in User
            BY <1>5, <3>1 DEF Live, IInv, TypeOK
        <3>3. PICK q : q = [req[r] EXCEPT !.stage = "commit", !.id = i, !.was = users[i]]
            OBVIOUS
        <3>4. req' = [req EXCEPT ![r] = q]
            BY <1>5, <2>3, <3>1, <3>3 DEF Found
        <3>5. /\ q \in Request /\ q.op = "sync" /\ q.sub = s /\ q.email = e
              /\ q.stage = "commit" /\ q.was = users[i]
            BY <1>1, <1>2, <3>2, <3>3 DEF Request
        <3> QED BY <1>4, <1>5, <2>1, <3>1, <3>2, <3>4, <3>5
    <2> QED BY <2>2, <2>3
<1>6. CASE SyncBySub(r)
    <2>1. PICK ids : ids = {i \in Live : users[i].cognito_sub = req[r].sub}
        OBVIOUS
    <2>2. Found(r, ids, "by_email")
        BY <1>6, <2>1 DEF SyncBySub
    <2>3. req[r].id = None
        BY <1>1, <1>6 DEF SyncBySub, At, RequestInv
    <2> QED BY <1>2, <1>5, <2>1, <2>2, <2>3
<1>7. CASE SyncByEmail(r)
    <2>1. PICK ids : ids = {i \in Live : users[i].email = req[r].email}
        OBVIOUS
    <2>2. Found(r, ids, "commit") /\ req[r].stage = "by_email"
        BY <1>7, <2>1 DEF SyncByEmail, At
    <2>3. req[r].id = None
        BY <1>1, <2>2 DEF RequestInv
    <2> QED BY <1>2, <1>5, <2>1, <2>2, <2>3
<1> QED BY <1>6, <1>7

\* The insertion: a row about the token's identity and address.
LEMMA SyncInsertStep ==
    ASSUME IInv, NEW r \in Requests, SyncInsert(r)
    PROVE  IInv'
<1>1. CASE End(r)
    BY <1>1, EndStep
<1>2. CASE ~ End(r)
    <2>1. req[r] \in Request /\ req[r].op = "sync" /\ RequestInv(req[r])
        BY DEF SyncInsert, At, IInv, TypeOK
    <2>2. PICK e \in Emails, s \in Subs \ subs :
             e = req[r].email /\ s = req[r].sub /\ Home(s, e)
        BY <2>1 DEF RequestInv
    <2>3. PICK row : row = NewUser(s, e)
        OBVIOUS
    <2>4. row \in User /\ row.cognito_sub = s /\ row.email = e
        BY <2>2, <2>3 DEF NewUser, User
    <2>5. PICK i \in fresh : Commit(r, i, row) /\ fresh' = fresh \ {i} /\ mixed' = mixed
        BY <1>2, <2>2, <2>3 DEF SyncInsert
    <2>6. i \in Ids /\ mixed \subseteq Ids /\ Tame
        BY <2>5, TameUnchanged DEF Commit, IInv, TypeOK
    <2>7. RowsInv' /\ users' \in [Ids -> User \cup {None}] /\ fresh' \subseteq Ids
        BY <2>2, <2>4, <2>5, <2>6, RowWritten DEF Commit
    <2> QED BY <2>5, <2>6, <2>7, CommitStep DEF Commit
<1> QED BY <1>1, <1>2

\* What a sync's update writes, in its parts.
LEMMA SyncUpdateParts ==
    ASSUME IInv, NEW r \in Requests, SyncUpdate(r), ~ End(r)
    PROVE  \E i \in Ids, row \in User :
              /\ req[r].op = "sync" /\ req[r].stage = "commit" /\ req[r].id = i
              /\ req[r].was \in User /\ RequestInv(req[r])
              /\ users[i] \in User /\ users[i] # None
              /\ row.cognito_sub \in {users[i].cognito_sub, req[r].sub}
              /\ row.is_active = users[i].is_active
              /\ row.is_platform_admin = users[i].is_platform_admin
              /\ mixed' = IF row.cognito_sub = req[r].sub /\ row.email = req[r].email
                          THEN mixed ELSE mixed \cup {i}
              /\ Commit(r, i, row) /\ fresh' = fresh
<1>1. /\ req[r] \in Request /\ req[r].op = "sync" /\ req[r].stage = "commit"
      /\ req[r].id # None /\ RequestInv(req[r])
    BY DEF SyncUpdate, At, IInv, TypeOK
<1>2. /\ req[r].was \in User /\ req[r].sub \in Subs /\ req[r].email \in Emails
      /\ req[r].id \in Ids
    BY <1>1 DEF RequestInv, Request
<1>3. PICK i \in Ids, was \in User, s \in Subs, e \in Emails :
         i = req[r].id /\ was = req[r].was /\ s = req[r].sub /\ e = req[r].email
    BY <1>2
<1>4. PICK new : new = [was EXCEPT !.cognito_sub = s, !.email = e]
    OBVIOUS
<1>5. /\ new \in User /\ new.cognito_sub = s /\ new.email = e
      /\ new.is_active = was.is_active /\ new.is_platform_admin = was.is_platform_admin
    BY <1>4 DEF User
<1>6. PICK row : row = Written(req[r], new)
    OBVIOUS
<1>7. /\ users[i] # None /\ Commit(r, i, row) /\ fresh' = fresh
      /\ mixed' = IF row.cognito_sub = s /\ row.email = e THEN mixed ELSE mixed \cup {i}
    BY <1>3, <1>4, <1>6 DEF SyncUpdate
<1>8. users[i] \in User
    BY <1>7 DEF IInv, TypeOK
<1>9. /\ row \in User /\ row.cognito_sub \in {users[i].cognito_sub, s}
      /\ row.is_active = users[i].is_active
      /\ row.is_platform_admin = users[i].is_platform_admin
    BY <1>3, <1>5, <1>6, <1>8, WrittenColumns
<1> QED BY <1>1, <1>2, <1>3, <1>7, <1>8, <1>9

\* It writes the token's identity and address, or the row is mixed.
LEMMA SyncUpdateStep ==
    ASSUME IInv, NEW r \in Requests, SyncUpdate(r)
    PROVE  IInv'
<1>1. CASE End(r)
    BY <1>1, EndStep
<1>2. CASE ~ End(r)
    <2>1. PICK i \in Ids, row \in User :
             /\ req[r].op = "sync" /\ RequestInv(req[r]) /\ users[i] # None
             /\ row.cognito_sub \in {users[i].cognito_sub, req[r].sub}
             /\ mixed' = IF row.cognito_sub = req[r].sub /\ row.email = req[r].email
                         THEN mixed ELSE mixed \cup {i}
             /\ Commit(r, i, row) /\ fresh' = fresh
        BY <1>2, SyncUpdateParts
    <2>2. /\ Tame /\ UNCHANGED cognito
          /\ users' = [users EXCEPT ![i] = row] /\ req' = [req EXCEPT ![r] = None]
        BY <2>1, TameUnchanged DEF Commit, IInv, TypeOK
    <2>3. i \in Live /\ i \notin fresh
        BY <2>1 DEF Live, IInv, RowsInv
    <2>4. fresh' = fresh \ {i}
        BY <2>1, <2>3
    <2>5. row.cognito_sub \notin subs
        BY <2>1, <2>3 DEF IInv, RowsInv, RequestInv
    <2>6. mixed \subseteq mixed' /\ mixed' \subseteq Ids
        BY <2>1 DEF IInv, TypeOK
    <2>7. i \in mixed' \/ Home(row.cognito_sub, row.email)
        <3>1. CASE row.cognito_sub = req[r].sub /\ row.email = req[r].email
            BY <2>1, <3>1 DEF RequestInv
        <3>2. CASE ~ (row.cognito_sub = req[r].sub /\ row.email = req[r].email)
            BY <2>1, <3>2
        <3> QED BY <3>1, <3>2
    <2>8. RowsInv' /\ users' \in [Ids -> User \cup {None}] /\ fresh' \subseteq Ids
        BY <2>2, <2>4, <2>5, <2>6, <2>7, RowWritten
    <2> QED BY <2>2, <2>6, <2>8, CommitStep
<1> QED BY <1>1, <1>2

\* An administrator's request begins.
LEMMA StartAdminStep ==
    ASSUME IInv, NEW r \in Requests, NEW op \in Ops, NEW actor \in Ids, NEW i \in Ids,
           StartAdmin(r, op, actor, i)
    PROVE  IInv'
<1>1. PICK q : q = [ op |-> op, stage |-> "load", sub |-> None, email |-> None, id |-> i,
                     was |-> None, seen |-> {} ]
    OBVIOUS
<1>2. q \in Request /\ q.op = op /\ q.stage = "load" /\ q.id = i /\ q.op # "sync"
    BY <1>1, OpsKnown DEF Request
<1>3. Tame /\ users' = users /\ fresh' = fresh /\ mixed' = mixed /\ req' = [req EXCEPT ![r] = q]
    BY <1>1, TameUnchanged DEF StartAdmin, Begin, IInv, TypeOK
<1>4. RequestInv(q)
    BY <1>2 DEF RequestInv
<1>5. RequestInv(q)'
    BY <1>2, <1>3, <1>4, KnowsStill DEF IInv
<1> QED BY <1>2, <1>3, <1>5, RequestGoesOn

\* The target is loaded.
LEMMA LoadStep ==
    ASSUME IInv, NEW r \in Requests, Load(r)
    PROVE  IInv'
<1>1. CASE End(r)
    BY <1>1, EndStep
<1>2. CASE ~ End(r)
    <2>1. req[r] \in Request /\ req[r].op \in Ops /\ RequestInv(req[r])
        BY DEF Load, At, IInv, TypeOK
    <2>2. PICK i \in Ids, row \in User \cup {None} : i = req[r].id /\ row = users[i]
        BY <2>1 DEF RequestInv, IInv, TypeOK
    <2>3. /\ row # None /\ (req[r].op = "delete" => ~ row.is_platform_admin)
          /\ UNCHANGED <<cognito, users, fresh, mixed>>
        BY <1>2, <2>2 DEF Load
    <2>4. /\ row \in User /\ row.cognito_sub \notin subs
          /\ i \in mixed \/ Home(row.cognito_sub, row.email)
        BY <2>2, <2>3 DEF IInv, TypeOK, RowsInv, Live
    <2>5. PICK stage : stage =
             IF req[r].op \in {"delete", "disable", "enable", "reset"} THEN "cognito"
             ELSE IF req[r].op = "demote" /\ row.is_platform_admin THEN "count"
             ELSE "commit"
        OBVIOUS
    <2>6. PICK q : q = [req[r] EXCEPT !.was = row, !.stage = stage]
        OBVIOUS
    <2>7. req' = [req EXCEPT ![r] = q]
        BY <1>2, <2>2, <2>5, <2>6 DEF Load
    <2>8. /\ q \in Request /\ q.op = req[r].op /\ q.id = i /\ q.was = row /\ q.stage = stage
        BY <2>1, <2>2, <2>4, <2>5, <2>6 DEF Request
    <2>9. Tame /\ users' = users /\ fresh' = fresh /\ mixed' = mixed
        BY <2>3, TameUnchanged DEF IInv, TypeOK
    <2>10. RequestInv(q)
        BY <2>1, <2>3, <2>4, <2>5, <2>8, OpsKnown DEF RequestInv
    <2>11. RequestInv(q)'
        BY <2>8, <2>9, <2>10, KnowsStill DEF IInv
    <2> QED BY <2>7, <2>8, <2>9, <2>11, RequestGoesOn
<1> QED BY <1>1, <1>2

\* The demotion's count: it goes on with more than one.
LEMMA CountStep ==
    ASSUME IInv, NEW r \in Requests, CountAdmins(r)
    PROVE  IInv'
<1>1. CASE End(r)
    BY <1>1, EndStep
<1>2. CASE ~ End(r)
    <2>1. /\ req[r] \in Request /\ req[r].op = "demote" /\ req[r].stage = "count"
          /\ RequestInv(req[r])
        BY DEF CountAdmins, At, IInv, TypeOK
    <2>2. PICK admins \in SUBSET Ids : admins = Admins
        BY DEF Admins, Live
    <2>3. ~ (Cardinality(admins) <= 1) /\ UNCHANGED <<cognito, users, fresh, mixed>>
        BY <1>2, <2>2 DEF CountAdmins
    <2>4. Cardinality(admins) > 1
        <3>1. Cardinality(admins) \in Nat
            BY FiniteIds, FS_Subset, FS_CardinalityType
        <3> QED BY <2>3, <3>1
    <2>5. PICK q : q = [req[r] EXCEPT !.stage = "commit", !.seen = admins]
        OBVIOUS
    <2>6. req' = [req EXCEPT ![r] = q]
        BY <1>2, <2>2, <2>5 DEF CountAdmins
    <2>7. /\ q \in Request /\ q.op = "demote" /\ q.id = req[r].id /\ q.was = req[r].was
          /\ q.stage = "commit" /\ q.seen = admins
        BY <2>1, <2>5 DEF Request
    <2>8. Tame /\ users' = users /\ fresh' = fresh /\ mixed' = mixed
        BY <2>3, TameUnchanged DEF IInv, TypeOK
    <2>9. RequestInv(q)
        BY <2>1, <2>4, <2>7 DEF RequestInv
    <2>10. RequestInv(q)'
        BY <2>7, <2>8, <2>9, KnowsStill DEF IInv
    <2> QED BY <2>6, <2>7, <2>8, <2>10, RequestGoesOn
<1> QED BY <1>1, <1>2

\* What an administrator's commit writes, in its parts.
LEMMA FlagsParts ==
    ASSUME IInv, NEW r \in Requests, CommitFlags(r), ~ End(r)
    PROVE  \E i \in Ids, row \in User :
              /\ req[r].op \in {"suspend", "unsuspend", "promote", "demote"}
              /\ req[r].stage = "commit" /\ req[r].id = i
              /\ req[r].was \in User /\ RequestInv(req[r])
              /\ users[i] \in User /\ users[i] # None
              /\ row.cognito_sub = users[i].cognito_sub /\ row.email = users[i].email
              /\ req[r].op # "unsuspend" => (row.is_active => users[i].is_active)
              /\ req[r].op # "promote" => (row.is_platform_admin => users[i].is_platform_admin)
              /\ req[r].op # "demote" \/ ~ req[r].was.is_platform_admin =>
                   (users[i].is_platform_admin => row.is_platform_admin)
              /\ Commit(r, i, row) /\ fresh' = fresh /\ mixed' = mixed
<1>1. /\ req[r] \in Request /\ req[r].op \in {"suspend", "unsuspend", "promote", "demote"}
      /\ req[r].stage = "commit" /\ RequestInv(req[r]) /\ req[r].op \in Ops
    BY OpsKnown DEF CommitFlags, At, IInv, TypeOK
<1>2. req[r].was \in User /\ req[r].id \in Ids
    BY <1>1 DEF RequestInv
<1>3. PICK i \in Ids, was \in User, new \in User :
             i = req[r].id /\ was = req[r].was /\ new = Flagged(req[r])
    BY <1>1, <1>2, FlaggedRow
<1>4. /\ new \in User
      /\ new.cognito_sub = was.cognito_sub /\ new.email = was.email
      /\ req[r].op # "unsuspend" => (new.is_active => was.is_active)
      /\ req[r].op # "promote" => (new.is_platform_admin => was.is_platform_admin)
      /\ req[r].op # "demote" => (was.is_platform_admin => new.is_platform_admin)
    BY <1>1, <1>2, <1>3, FlaggedRow
<1>5. PICK row : row = Written(req[r], new)
    OBVIOUS
<1>6. users[i] # None /\ Commit(r, i, row) /\ fresh' = fresh /\ mixed' = mixed
    BY <1>3, <1>5 DEF CommitFlags
<1>7. users[i] \in User
    BY <1>6 DEF IInv, TypeOK
<1>8. /\ row \in User
      /\ row.cognito_sub = IF new.cognito_sub # was.cognito_sub THEN new.cognito_sub
                           ELSE users[i].cognito_sub
      /\ row.email = IF new.email # was.email THEN new.email ELSE users[i].email
      /\ row.is_active = IF new.is_active # was.is_active THEN new.is_active
                         ELSE users[i].is_active
      /\ row.is_platform_admin =
            IF new.is_platform_admin # was.is_platform_admin THEN new.is_platform_admin
            ELSE users[i].is_platform_admin
    <2>1. PICK me : me = req[r] /\ me.id = i /\ me.was = was
        BY <1>3
    <2>2. row = Written(me, new)
        BY <1>5, <2>1
    <2> HIDE <1>3, <1>5
    <2> QED BY <1>4, <1>7, <2>1, <2>2, WrittenColumns
<1>9. /\ new.is_active \in BOOLEAN /\ new.is_platform_admin \in BOOLEAN
      /\ was.is_active \in BOOLEAN /\ was.is_platform_admin \in BOOLEAN
    BY <1>4 DEF User
<1>10. /\ row.cognito_sub = users[i].cognito_sub /\ row.email = users[i].email
    BY <1>4, <1>8
<1>11. req[r].op # "unsuspend" => (row.is_active => users[i].is_active)
    BY <1>4, <1>8, <1>9
<1>12. req[r].op # "promote" => (row.is_platform_admin => users[i].is_platform_admin)
    BY <1>4, <1>8, <1>9
<1>13. req[r].op # "demote" \/ ~ was.is_platform_admin =>
          (users[i].is_platform_admin => row.is_platform_admin)
    BY <1>1, <1>4, <1>8, <1>9
<1> QED BY <1>1, <1>2, <1>3, <1>6, <1>7, <1>8, <1>10, <1>11, <1>12, <1>13

\* It changes no identity and no address.
LEMMA FlagsStep ==
    ASSUME IInv, NEW r \in Requests, CommitFlags(r)
    PROVE  IInv'
<1>1. CASE End(r)
    BY <1>1, EndStep
<1>2. CASE ~ End(r)
    <2>1. PICK i \in Ids, row \in User :
             /\ users[i] # None
             /\ row.cognito_sub = users[i].cognito_sub /\ row.email = users[i].email
             /\ Commit(r, i, row) /\ fresh' = fresh /\ mixed' = mixed
        BY <1>2, FlagsParts
    <2>2. Tame /\ mixed' \subseteq Ids /\ users' = [users EXCEPT ![i] = row] /\ req' = [req EXCEPT ![r] = None]
        BY <2>1, TameUnchanged DEF Commit, IInv, TypeOK
    <2>3. RowsInv' /\ users' \in [Ids -> User \cup {None}] /\ fresh' \subseteq Ids
        BY <2>1, <2>2, RowKept DEF Commit
    <2> QED BY <2>1, <2>2, <2>3, CommitStep
<1> QED BY <1>1, <1>2

\* Cognito deletes the account: then it is gone.
LEMMA DeleteAccountStep ==
    ASSUME IInv, NEW r \in Requests, DeleteAccount(r)
    PROVE  IInv'
<1>1. /\ req[r] \in Request /\ req[r].op = "delete" /\ req[r].stage = "cognito"
      /\ RequestInv(req[r]) /\ req[r].op \in Ops
    BY OpsKnown DEF DeleteAccount, At, IInv, TypeOK
<1>2. req[r].was \in User
    BY <1>1 DEF RequestInv
<1>3. PICK row \in User, e \in Emails : row = req[r].was /\ e = req[r].was.email
    BY <1>2 DEF User
<1>4. admin_delete_user(e) /\ users' = users /\ fresh' = fresh /\ mixed' = mixed
    BY <1>3 DEF DeleteAccount
<1>5. Tame
    <2>1. PICK s : s = None
        OBVIOUS
    <2> QED BY <1>4, TameCalls DEF IInv, TypeOK
<1>6. CASE req' = [req EXCEPT ![r] = None]
    BY <1>4, <1>5, <1>6, RequestGoesOn
<1>7. CASE req' = [req EXCEPT ![r].stage = "commit"]
    <2>1. PICK q : q = [req[r] EXCEPT !.stage = "commit"]
        OBVIOUS
    <2>2. req' = [req EXCEPT ![r] = q]
        BY <1>7, <2>1
    <2>3. /\ q \in Request /\ q.op = "delete" /\ q.id = req[r].id /\ q.was = row
          /\ q.stage = "commit"
        BY <1>1, <1>3, <2>1 DEF Request
    <2>4. pool'[e] = None
        BY <1>4 DEF admin_delete_user, Put, IInv, TypeOK, CognitoTypeOK
    <2>5. AccountGone(row)'
        BY <1>3, <2>4 DEF AccountGone
    <2>6. q.id \in Ids /\ row.cognito_sub \notin subs' /\ ~ row.is_platform_admin
        BY <1>1, <1>3, <1>5, <2>3 DEF RequestInv, Tame
    <2>7. q.id \in mixed' \/ Home(row.cognito_sub, row.email)'
        <3>1. PICK s, f : s = row.cognito_sub /\ f = row.email
            OBVIOUS
        <3>2. s \notin subs /\ (q.id \in mixed \/ Home(s, f))
            BY <1>1, <1>3, <2>3, <3>1 DEF RequestInv
        <3>3. q.id \in mixed' \/ Home(s, f)'
            BY <1>4, <1>5, <3>2, HomeStays
        <3> QED BY <3>1, <3>3 DEF Home
    <2>8. q.op # "sync" /\ q.op # "demote"
        BY <2>3
    <2>9. RequestInv(q)'
        BY <2>3, <2>5, <2>6, <2>7, <2>8 DEF RequestInv, AccountGone, Home
    <2> QED BY <1>4, <1>5, <2>2, <2>3, <2>9, RequestGoesOn
<1> QED BY <1>6, <1>7 DEF DeleteAccount

\* The row is deleted.
LEMMA CommitDeleteStep ==
    ASSUME IInv, NEW r \in Requests, CommitDelete(r)
    PROVE  IInv'
<1>1. CASE End(r)
    BY <1>1, EndStep
<1>2. CASE ~ End(r)
    <2>1. req[r] # None /\ req[r].op = "delete" /\ RequestInv(req[r])
        BY DEF CommitDelete, At, IInv
    <2>2. PICK i \in Ids : i = req[r].id
        BY <2>1, OpsKnown DEF RequestInv
    <2>3. Commit(r, i, None) /\ fresh' = fresh /\ mixed' = mixed
        BY <1>2, <2>2 DEF CommitDelete
    <2>4. /\ Tame /\ mixed' \subseteq Ids /\ users' = [users EXCEPT ![i] = None]
          /\ req' = [req EXCEPT ![r] = None]
        BY <2>3, TameUnchanged DEF Commit, IInv, TypeOK
    <2>5. RowsInv' /\ users' \in [Ids -> User \cup {None}] /\ fresh' \subseteq Ids
        BY <2>3, <2>4, RowDeleted DEF Commit
    <2> QED BY <2>3, <2>4, <2>5, CommitStep
<1> QED BY <1>1, <1>2

\* An account is disabled, enabled or reset.
LEMMA ManageStep ==
    ASSUME IInv, NEW r \in Requests, ManageAccount(r)
    PROVE  IInv'
<1>1. /\ req[r] \in Request /\ req[r].op \in {"disable", "enable", "reset"}
      /\ req[r].stage = "cognito" /\ RequestInv(req[r]) /\ req[r].op \in Ops
    BY OpsKnown DEF ManageAccount, At, IInv, TypeOK
<1>2. PICK e \in Emails : e = req[r].was.email
    BY <1>1 DEF RequestInv, User
<1>3. /\ admin_disable_user(e) \/ admin_enable_user(e) \/ admin_reset_user_password(e)
      /\ users' = users /\ fresh' = fresh /\ mixed' = mixed /\ req' = [req EXCEPT ![r] = None]
    BY <1>2 DEF ManageAccount
<1>4. PICK s : s = None
    OBVIOUS
<1>5. Tame
    BY <1>3, TameCalls DEF IInv, TypeOK
<1> QED BY <1>3, <1>5, RequestGoesOn

\* Cognito's own pages, the sign-ups and the invitations touch no row.
LEMMA CognitoStep ==
    ASSUME IInv, CognitoNext, UNCHANGED <<users, fresh, mixed, req>>
    PROVE  IInv'
<1>1. Tame /\ users' = users /\ fresh' = fresh /\ mixed' = mixed /\ req' = req
    BY TameCognitoNext DEF IInv, TypeOK
<1>2. RowsInv' /\ users' \in [Ids -> User \cup {None}] /\ fresh' \subseteq Ids
    BY <1>1, RowsSame
<1>3. ASSUME NEW s \in Requests, req'[s] # None PROVE RequestInv(req[s])'
    <2>1. PICK q \in Request : q = req[s]
        BY <1>1, <1>3 DEF IInv, TypeOK
    <2>2. RequestInv(q)
        BY <1>1, <1>3, <2>1 DEF IInv
    <2>3. RequestInv(q)'
        BY <1>1, <2>2, KnowsStill DEF IInv
    <2> QED BY <1>1, <2>1, <2>3 DEF RequestInv, AccountGone, Home
<1> QED BY <1>1, <1>2, <1>3 DEF IInv, TypeOK, Tame

\* The invariant is one.
THEOREM Invariance == Spec => []IInv
<1>1. ASSUME IInv, [Next]_vars PROVE IInv'
    <2>1. CASE UNCHANGED vars
        BY <1>1, <2>1 DEF vars, cognito, IInv, TypeOK, CognitoTypeOK, PoolInv, RowsInv,
           Live, RequestInv, AccountGone, Home
    <2>2. CASE CognitoNext /\ UNCHANGED <<users, fresh, mixed, req>>
        BY <1>1, <2>2, CognitoStep
    <2>3. ASSUME NEW r \in Requests, NEW e \in deployment.emails, SignIn(r, e) PROVE IInv'
        <3>1. e \in Emails
            BY <1>1, DeploymentsKnown DEF IInv, TypeOK, CognitoTypeOK
        <3> QED BY <1>1, <2>3, <3>1, SignInStep
    <2>4. ASSUME NEW r \in Requests, NEW op \in deployment.ops, NEW actor \in Ids, NEW i \in Ids,
                 StartAdmin(r, op, actor, i)
          PROVE  IInv'
        <3>1. op \in Ops
            BY <1>1, DeploymentsKnown DEF IInv, TypeOK, CognitoTypeOK
        <3> QED BY <1>1, <2>4, <3>1, StartAdminStep
    <2>5. ASSUME NEW r \in Requests,
                 SetPassword(r) \/ SyncBySub(r) \/ SyncByEmail(r) \/ SyncInsert(r) \/ SyncUpdate(r)
          PROVE  IInv'
        BY <1>1, <2>5, SetPasswordStep, SyncSelectStep, SyncInsertStep, SyncUpdateStep
    <2>6. ASSUME NEW r \in Requests, Load(r) \/ CountAdmins(r) \/ CommitFlags(r)
          PROVE  IInv'
        BY <1>1, <2>6, LoadStep, CountStep, FlagsStep
    <2>7. ASSUME NEW r \in Requests,
                 DeleteAccount(r) \/ CommitDelete(r) \/ ManageAccount(r) \/ Abort(r)
          PROVE  IInv'
        BY <1>1, <2>7, DeleteAccountStep, CommitDeleteStep, ManageStep, EndStep DEF Abort
    <2> QED BY <1>1, <2>1, <2>2, <2>3, <2>4, <2>5, <2>6, <2>7 DEF Next
<1>2. IInv /\ [Next]_vars => IInv'
    BY <1>1
<1> QED BY <1>2, Initially, PTL DEF Spec

\* The variables keep their types.
THEOREM TypeCorrectness == Spec => []TypeOK
<1>1. IInv => TypeOK
    BY DEF IInv
<1> QED BY <1>1, Invariance, PTL

-----------------------------------------------------------------------------
(* What a step may never do *)

\* Rows change in four steps only.
LEMMA RowsChange ==
    ASSUME IInv, [Next]_vars, users' # users
    PROVE  \E r \in Requests :
              /\ SyncInsert(r) \/ SyncUpdate(r) \/ CommitFlags(r) \/ CommitDelete(r)
              /\ ~ End(r) /\ req[r] # None /\ req'[r] = None
<1>1. req \in [Requests -> Request \cup {None}]
    BY DEF IInv, TypeOK
<1>2. ASSUME NEW r \in Requests PROVE ~ End(r) /\ ~ Abort(r)
    BY DEF End, Abort
<1>3. ASSUME NEW r \in Requests, NEW request PROVE ~ Begin(r, request)
    BY DEF Begin
<1>4. ASSUME NEW r \in Requests
      PROVE  /\ \A e \in deployment.emails : ~ SignIn(r, e)
             /\ \A op \in deployment.ops, actor, i \in Ids : ~ StartAdmin(r, op, actor, i)
    BY <1>3 DEF SignIn, StartAdmin
<1>5. ASSUME NEW r \in Requests
      PROVE  /\ ~ SetPassword(r) /\ ~ SyncBySub(r) /\ ~ SyncByEmail(r) /\ ~ Load(r)
             /\ ~ CountAdmins(r) /\ ~ DeleteAccount(r) /\ ~ ManageAccount(r)
    BY <1>2 DEF SetPassword, SyncBySub, SyncByEmail, Found, Load, CountAdmins, DeleteAccount,
       ManageAccount
<1>6. PICK r \in Requests : SyncInsert(r) \/ SyncUpdate(r) \/ CommitFlags(r) \/ CommitDelete(r)
    BY <1>2, <1>4, <1>5 DEF Next, vars
<1>7. req[r] # None /\ req'[r] = None
    <2>1. CASE SyncInsert(r)
        BY <1>1, <1>2, <2>1 DEF SyncInsert, At, Commit
    <2>2. CASE SyncUpdate(r)
        BY <1>1, <1>2, <2>2 DEF SyncUpdate, At, Commit
    <2>3. CASE CommitFlags(r)
        BY <1>1, <1>2, <2>3 DEF CommitFlags, At, Commit
    <2>4. CASE CommitDelete(r)
        BY <1>1, <1>2, <2>4 DEF CommitDelete, At, Commit
    <2> QED BY <1>6, <2>1, <2>2, <2>3, <2>4
<1> QED BY <1>2, <1>6, <1>7

\* An insertion touches no row there is; a deletion none but its own.
LEMMA OtherRows ==
    ASSUME IInv, NEW r \in Requests, SyncInsert(r) \/ CommitDelete(r), ~ End(r),
           NEW i \in Live, users'[i] # None
    PROVE  users'[i] = users[i]
<1>1. users \in [Ids -> User \cup {None}] /\ i \in Ids /\ users[i] # None
    BY DEF IInv, TypeOK, Live
<1>2. CASE SyncInsert(r)
    <2>1. PICK j, row : j \in fresh /\ users' = [users EXCEPT ![j] = row]
        BY <1>2 DEF SyncInsert, Commit
    <2>2. j # i
        BY <1>1, <2>1 DEF IInv, RowsInv
    <2> QED BY <1>1, <2>1, <2>2
<1>3. CASE CommitDelete(r)
    BY <1>1, <1>3 DEF CommitDelete, Commit
<1> QED BY <1>2, <1>3

\* Flags change by the operation that is about them, never by a row that a
\* request had loaded before.
THEOREM FlagsNotWrittenBack == Spec => NoFlagWrittenBack
<1>1. ASSUME IInv, [Next]_vars, NEW i \in Live, users'[i] # None
      PROVE  /\ ~ users[i].is_active /\ users'[i].is_active =>
                   \E r \in Requests : At(r, {"unsuspend"}, "commit") /\ req[r].id = i
             /\ ~ users[i].is_platform_admin /\ users'[i].is_platform_admin =>
                   \E r \in Requests : At(r, {"promote"}, "commit") /\ req[r].id = i
    <2>1. users \in [Ids -> User \cup {None}]
        BY <1>1 DEF IInv, TypeOK
    <2>2. CASE users'[i] = users[i]
        BY <2>2
    <2>3. CASE users'[i] # users[i]
        <3>1. PICK r \in Requests :
                 (SyncUpdate(r) \/ CommitFlags(r)) /\ ~ End(r) /\ req[r] # None
            BY <1>1, <2>3, RowsChange, OtherRows
        <3>2. CASE SyncUpdate(r)
            <4>1. PICK j \in Ids, row \in User :
                     /\ row.is_active = users[j].is_active
                     /\ row.is_platform_admin = users[j].is_platform_admin
                     /\ users' = [users EXCEPT ![j] = row]
                BY <1>1, <3>1, <3>2, SyncUpdateParts DEF Commit
            <4>2. j = i /\ users'[i] = row
                BY <2>1, <2>3, <4>1
            <4> QED BY <4>1, <4>2
        <3>3. CASE CommitFlags(r)
            <4>1. PICK j \in Ids, row \in User :
                     /\ req[r].op \in {"suspend", "unsuspend", "promote", "demote"}
                     /\ req[r].stage = "commit" /\ req[r].id = j
                     /\ req[r].op # "unsuspend" => (row.is_active => users[j].is_active)
                     /\ req[r].op # "promote" =>
                           (row.is_platform_admin => users[j].is_platform_admin)
                     /\ users' = [users EXCEPT ![j] = row]
                BY <1>1, <3>1, <3>3, FlagsParts DEF Commit
            <4>2. j = i /\ users'[i] = row
                BY <2>1, <2>3, <4>1
            <4> QED BY <3>1, <4>1, <4>2 DEF At
        <3> QED BY <3>1, <3>2, <3>3
    <2> QED BY <2>2, <2>3
<1>2. IInv /\ [Next]_vars =>
        [\A i \in Live : users'[i] # None =>
          /\ ~users[i].is_active /\ users'[i].is_active =>
               \E r \in Requests : At(r, {"unsuspend"}, "commit") /\ req[r].id = i
          /\ ~users[i].is_platform_admin /\ users'[i].is_platform_admin =>
               \E r \in Requests : At(r, {"promote"}, "commit") /\ req[r].id = i]_vars
    BY <1>1
<1> QED BY <1>2, Invariance, PTL DEF Spec, NoFlagWrittenBack

\* Who takes the last admin: a demotion of one that had counted others, or a
\* deletion of a user who was none when it loaded the row.
LEMMA LastAdminGoes ==
    ASSUME IInv, [Next]_vars, Admins # {}, Admins' = {}
    PROVE  \E r \in Requests :
              /\ req[r] # None /\ req'[r] = None /\ ~ End(r)
              /\ \/ /\ req[r].op = "demote" /\ req[r].stage = "commit"
                    /\ req[r].was.is_platform_admin /\ req[r].seen # Admins
                 \/ CommitDelete(r) /\ req[r].op = "delete" /\ ~ req[r].was.is_platform_admin
<1>1. users \in [Ids -> User \cup {None}] /\ Admins \subseteq Ids
    BY DEF IInv, TypeOK, Admins, Live
<1>2. users' # users
    BY DEF Admins, Live
<1>3. PICK r \in Requests :
         /\ SyncInsert(r) \/ SyncUpdate(r) \/ CommitFlags(r) \/ CommitDelete(r)
         /\ ~ End(r) /\ req[r] # None /\ req'[r] = None
    BY <1>2, RowsChange
<1>4. CASE SyncInsert(r)
    <2>1. PICK i, row : i \in fresh /\ users' = [users EXCEPT ![i] = row]
        BY <1>3, <1>4 DEF SyncInsert, Commit
    <2>2. PICK k \in Admins : TRUE
        OBVIOUS
    <2>3. k # i
        BY <2>1 DEF Admins, Live, IInv, RowsInv
    <2>4. users'[k] = users[k]
        BY <1>1, <2>1, <2>3
    <2>5. k \in Admins'
        BY <2>4 DEF Admins, Live
    <2> QED BY <2>5
<1>5. CASE SyncUpdate(r)
    <2>1. PICK j \in Ids, row \in User :
             /\ users[j] # None /\ row.is_platform_admin = users[j].is_platform_admin
             /\ users' = [users EXCEPT ![j] = row]
        BY <1>3, <1>5, SyncUpdateParts DEF Commit
    <2>2. row # None
        BY NoneIsNothing
    <2>3. \A k \in Admins : k \in Admins'
        BY <1>1, <2>1, <2>2 DEF Admins, Live
    <2> QED BY <2>3
<1>6. CASE CommitFlags(r)
    <2>1. PICK j \in Ids, row \in User :
             /\ req[r].op \in {"suspend", "unsuspend", "promote", "demote"}
             /\ req[r].stage = "commit" /\ RequestInv(req[r])
             /\ req[r].op # "demote" \/ ~ req[r].was.is_platform_admin =>
                  (users[j].is_platform_admin => row.is_platform_admin)
             /\ users' = [users EXCEPT ![j] = row]
        BY <1>3, <1>6, FlagsParts DEF Commit
    <2>2. row # None
        BY NoneIsNothing
    <2>3. \A k \in Ids \ {j} : users'[k] = users[k]
        BY <1>1, <2>1
    <2>4. Admins \subseteq {j}
        BY <1>1, <2>3 DEF Admins, Live
    <2>5. CASE req[r].op # "demote" \/ ~ req[r].was.is_platform_admin
        <3>1. PICK k \in Admins : k = j /\ users[j].is_platform_admin
            BY <2>4 DEF Admins
        <3>2. users'[j] = row
            BY <1>1, <2>1
        <3>3. j \in Admins'
            BY <1>1, <2>1, <2>2, <2>5, <3>1, <3>2 DEF Admins, Live
        <3> QED BY <3>3
    <2>6. CASE req[r].op = "demote" /\ req[r].was.is_platform_admin
        <3>1. Cardinality(req[r].seen) > 1
            BY <2>1, <2>6 DEF RequestInv
        <3>2. Cardinality({j}) = 1 /\ IsFiniteSet({j})
            BY FS_Singleton
        <3>3. Cardinality(Admins) \in Nat /\ Cardinality(Admins) <= 1
            BY <2>4, <3>2, FS_Subset, FS_CardinalityType
        <3>4. req[r].seen # Admins
            BY <3>1, <3>3
        <3> QED BY <1>3, <2>1, <2>6, <3>4
    <2> QED BY <2>5, <2>6
<1>7. CASE CommitDelete(r)
    <2>1. req[r].op = "delete" /\ req[r].stage = "commit" /\ RequestInv(req[r])
        BY <1>7 DEF CommitDelete, At, IInv
    <2>2. ~ req[r].was.is_platform_admin
        BY <2>1 DEF RequestInv
    <2> QED BY <1>3, <1>7, <2>1, <2>2
<1> QED BY <1>3, <1>4, <1>5, <1>6, <1>7

\* The last admin is lost to a check that no longer holds, and to nothing else.
THEOREM LastAdminLostByStaleCheck == Spec => LastAdminLostOnlyByStaleCheck
<1>1. IInv /\ [Next]_vars =>
        [Admins # {} /\ Admins' = {} =>
          \E r \in Requests :
             /\ req[r] # None /\ req'[r] = None
             /\ \/ req[r].op = "demote" /\ req[r].seen # Admins
                \/ req[r].op = "delete" /\ ~req[r].was.is_platform_admin]_vars
    BY LastAdminGoes
<1> QED BY <1>1, Invariance, PTL DEF Spec, LastAdminLostOnlyByStaleCheck

\* Found by its own address, a row stays with the identity Cognito has there.
THEOREM RowsLostToOldTokens == Spec => RowLostOnlyToOldTokenOrOverlap
<1>1. ASSUME IInv, [Next]_vars, NEW i \in Live,
             users'[i] # None, users'[i].cognito_sub # users[i].cognito_sub,
             pool[users[i].email] # None, pool[users[i].email].sub = users[i].cognito_sub
      PROVE  \E r \in Requests :
                /\ At(r, {"sync"}, "commit") /\ req'[r] = None /\ req[r].id = i
                /\ \/ users[i] # req[r].was
                   \/ pool[req[r].email] = None
                   \/ pool[req[r].email].sub # req[r].sub
    <2>1. users \in [Ids -> User \cup {None}]
        BY <1>1 DEF IInv, TypeOK
    <2>2. PICK r \in Requests :
             /\ SyncUpdate(r) \/ CommitFlags(r)
             /\ ~ End(r) /\ req[r] # None /\ req'[r] = None
        BY <1>1, RowsChange, OtherRows
    <2>3. CASE CommitFlags(r)
        <3>1. PICK j \in Ids, row \in User :
                 /\ row.cognito_sub = users[j].cognito_sub
                 /\ users' = [users EXCEPT ![j] = row]
            BY <1>1, <2>2, <2>3, FlagsParts DEF Commit
        <3> QED BY <1>1, <2>1, <3>1 DEF Live
    <2>4. CASE SyncUpdate(r)
        <3>1. PICK j \in Ids, row \in User :
                 /\ req[r].op = "sync" /\ req[r].stage = "commit" /\ req[r].id = j
                 /\ RequestInv(req[r])
                 /\ row.cognito_sub \in {users[j].cognito_sub, req[r].sub}
                 /\ users' = [users EXCEPT ![j] = row]
            BY <1>1, <2>2, <2>4, SyncUpdateParts DEF Commit
        <3>2. j = i /\ users'[i] = row
            BY <1>1, <2>1, <3>1 DEF Live
        <3>3. req[r].sub # users[i].cognito_sub
            BY <1>1, <3>1, <3>2
        <3>4. req[r].id # None
            BY <3>1, NoneIsNothing
        <3>5. req[r].was.cognito_sub = req[r].sub \/ req[r].was.email = req[r].email
            BY <3>1, <3>4 DEF RequestInv
        <3>6. CASE users[i] = req[r].was
            <4>1. users[i].email = req[r].email
                BY <3>3, <3>5, <3>6
            <4>2. pool[req[r].email].sub # req[r].sub
                BY <1>1, <3>3, <4>1
            <4> QED BY <2>2, <3>1, <3>2, <4>2 DEF At
        <3>7. CASE users[i] # req[r].was
            BY <2>2, <3>1, <3>2, <3>7 DEF At
        <3> QED BY <3>6, <3>7
    <2> QED BY <2>2, <2>3, <2>4
<1>2. IInv /\ [Next]_vars =>
        [\A i \in Live :
          /\ users'[i] # None /\ users'[i].cognito_sub # users[i].cognito_sub
          /\ pool[users[i].email] # None
          /\ pool[users[i].email].sub = users[i].cognito_sub
          => \E r \in Requests :
               /\ At(r, {"sync"}, "commit") /\ req'[r] = None /\ req[r].id = i
               /\ \/ users[i] # req[r].was
                  \/ pool[req[r].email] = None
                  \/ pool[req[r].email].sub # req[r].sub]_vars
    BY <1>1
<1> QED BY <1>2, Invariance, PTL DEF Spec, RowLostOnlyToOldTokenOrOverlap

\* The row goes after the account of the identity it was loaded with; what
\* identity is left in Cognito has moved, or come with a row that is mixed or has
\* been written since.
THEOREM IdentitiesDeleted == Spec => DeletedIdentityIsGone
<1>1. ASSUME IInv, [Next]_vars, NEW r \in Requests, Deletes(r), NEW e \in Emails, pool[e] # None,
             pool[e].sub \in {req[r].was.cognito_sub, users[req[r].id].cognito_sub}
      PROVE  \/ pool[e].sub \in moved \/ req[r].id \in mixed
             \/ /\ users[req[r].id].cognito_sub # req[r].was.cognito_sub
                /\ pool[e].sub = users[req[r].id].cognito_sub /\ e = users[req[r].id].email
    <2>1. /\ req[r].op = "delete" /\ req[r].op \in Ops /\ req[r].stage = "commit"
          /\ RequestInv(req[r])
        BY <1>1, OpsKnown DEF Deletes, At, IInv
    <2>2. PICK was \in User, i \in Ids : was = req[r].was /\ i = req[r].id
        BY <2>1 DEF RequestInv
    <2>3. users[i] # None
        <3>1. PICK s \in Requests :
                 /\ SyncInsert(s) \/ SyncUpdate(s) \/ CommitFlags(s) \/ CommitDelete(s)
                 /\ ~ End(s) /\ req[s] # None /\ req'[s] = None
            BY <1>1, RowsChange DEF Deletes
        <3>2. req' = [req EXCEPT ![s] = None]
            BY <3>1 DEF SyncInsert, SyncUpdate, CommitFlags, CommitDelete, Commit
        <3>3. s = r
            BY <1>1, <3>2 DEF Deletes, At, IInv, TypeOK
        <3>4. CommitDelete(r)
            BY <2>1, <3>1, <3>3 DEF SyncInsert, SyncUpdate, CommitFlags, At
        <3>5. ~ End(r)
            BY <3>1, <3>3
        <3> QED BY <2>2, <3>4, <3>5 DEF CommitDelete
    <2>4. i \in mixed \/ Home(users[i].cognito_sub, users[i].email)
        BY <1>1, <2>3 DEF IInv, RowsInv, Live
    <2>5. (i \in mixed \/ Home(was.cognito_sub, was.email)) /\ AccountGone(was)
        BY <2>1, <2>2 DEF RequestInv
    <2>6. CASE pool[e].sub = was.cognito_sub
        BY <1>1, <2>2, <2>5, <2>6 DEF Home, AccountGone
    <2>7. CASE pool[e].sub = users[i].cognito_sub /\ pool[e].sub # was.cognito_sub
        BY <1>1, <2>2, <2>4, <2>7 DEF Home
    <2> QED BY <1>1, <2>2, <2>6, <2>7
<1>2. IInv /\ [Next]_vars =>
        [\A r \in Requests : Deletes(r) =>
          LET me  == req[r]
              row == users[me.id]
          IN  \A e \in Emails :
                pool[e] # None /\ pool[e].sub \in {me.was.cognito_sub, row.cognito_sub} =>
                   \/ pool[e].sub \in moved \/ me.id \in mixed
                   \/ /\ row.cognito_sub # me.was.cognito_sub
                      /\ pool[e].sub = row.cognito_sub /\ e = row.email]_vars
    BY <1>1
<1> QED BY <1>2, Invariance, PTL DEF Spec, DeletedIdentityIsGone

\* A stranded account, and what a call makes of it.
LEMMA PutStrands ==
    ASSUME CognitoTypeOK, NEW e \in Emails, Stranded(e), NEW f \in Emails, NEW account, Put(f, account),
           f = e => \/ account = None
                    \/ /\ account # None /\ account.status = "FORCE_CHANGE_PASSWORD"
                       /\ ~ account.known /\ ~ account.code
    PROVE  Stranded(e)' \/ pool'[e] = None
<1>1. pool' = [pool EXCEPT ![f] = account] /\ pool \in [Emails -> Account \cup {None}]
    BY DEF Put, CognitoTypeOK
<1>2. CASE f = e
    BY <1>1, <1>2 DEF Stranded
<1>3. CASE f # e
    BY <1>1, <1>3 DEF Stranded
<1> QED BY <1>2, <1>3

\* No call there is gives a stranded account a password that somebody knows,
\* but for the answer to a challenge.
THEOREM StrandedForGood == Spec => StrandedUntilDeleted
<1>1. ASSUME IInv, [Next]_vars, NEW e \in Emails, Stranded(e)
      PROVE  \/ Stranded(e)' \/ pool'[e] = None
             \/ \E r \in Requests : At(r, {"sync"}, "challenge") /\ req[r].email = e
    <2>1. /\ CognitoTypeOK /\ pool[e] # None /\ pool[e] \in Account
          /\ pool[e].status = "FORCE_CHANGE_PASSWORD" /\ ~ pool[e].known /\ ~ pool[e].code
        BY <1>1 DEF IInv, TypeOK, CognitoTypeOK, Stranded
    <2>2. CASE UNCHANGED cognito
        BY <1>1, <2>2 DEF cognito, Stranded
    <2>3. ASSUME NEW f \in Emails, NEW status, NEW known, Create(f, status, known)
          PROVE  Stranded(e)'
        <3>1. f # e
            BY <2>1, <2>3 DEF Create
        <3>2. pool'[e] = pool[e]
            BY <2>1, <2>3, <3>1 DEF Create, CognitoTypeOK
        <3> QED BY <1>1, <3>2 DEF Stranded
    <2>4. ASSUME CognitoNext PROVE Stranded(e)' \/ pool'[e] = None
        <3>1. PICK f \in Emails :
                 \/ HostedSignUp(f) \/ RemoveAccount(f)
                 \/ \E g \in Emails : ChangeAddress(f, g)
                 \/ sign_up_user(f) \/ confirm_sign_up(f)
                 \/ forgot_password(f) \/ confirm_forgot_password(f)
                 \/ create_invited_cognito_user(f)
            BY <2>1, <2>4, DeploymentsKnown DEF CognitoNext, CognitoTypeOK
        <3>2. CASE HostedSignUp(f) \/ sign_up_user(f)
            BY <2>3, <3>2 DEF HostedSignUp, sign_up_user
        <3>3. CASE RemoveAccount(f)
            BY <1>1, <2>1, <3>3, PutStrands DEF RemoveAccount
        <3>4. ASSUME NEW g \in Emails, ChangeAddress(f, g) PROVE Stranded(e)'
            <4>1. f # e /\ g # e
                BY <2>1, <3>4 DEF ChangeAddress, In
            <4>2. pool'[e] = pool[e]
                BY <2>1, <3>4, <4>1 DEF ChangeAddress, CognitoTypeOK
            <4> QED BY <1>1, <4>2 DEF Stranded
        <3>5. CASE confirm_sign_up(f) \/ forgot_password(f) \/ confirm_forgot_password(f)
            <4>1. f # e
                BY <2>1, <3>5 DEF confirm_sign_up, forgot_password, confirm_forgot_password, In
            <4> QED BY <1>1, <2>1, <3>5, <4>1, PutStrands
                    DEF confirm_sign_up, forgot_password, confirm_forgot_password
        <3>6. CASE create_invited_cognito_user(f)
            <4>1. CASE Create(f, "FORCE_CHANGE_PASSWORD", FALSE)
                BY <2>3, <4>1
            <4>2. CASE /\ pool[f] # None
                       /\ Put(f, [pool[f] EXCEPT !.status = "FORCE_CHANGE_PASSWORD", !.known = FALSE])
                <5>1. PICK new :
                         new = [pool[f] EXCEPT !.status = "FORCE_CHANGE_PASSWORD", !.known = FALSE]
                    OBVIOUS
                <5>2. Put(f, new)
                    BY <4>2, <5>1
                <5>3. f = e => /\ new \in Account /\ new.status = "FORCE_CHANGE_PASSWORD"
                               /\ ~ new.known /\ ~ new.code
                    BY <2>1, <5>1 DEF Account
                <5>4. f = e => new # None
                    BY <5>3, NoAccount
                <5> QED BY <1>1, <2>1, <5>2, <5>3, <5>4, PutStrands
            <4> QED BY <3>6, <4>1, <4>2 DEF create_invited_cognito_user
        <3> QED BY <3>1, <3>2, <3>3, <3>4, <3>5, <3>6
    <2>5. ASSUME NEW r \in Requests, SetPassword(r)
          PROVE  \/ Stranded(e)' \/ pool'[e] = None
                 \/ At(r, {"sync"}, "challenge") /\ req[r].email = e
        <3>1. At(r, {"sync"}, "challenge") /\ RequestInv(req[r])
            BY <1>1, <2>5 DEF SetPassword, At, IInv
        <3>2. PICK f \in Emails, s \in Subs : f = req[r].email /\ s = req[r].sub
            BY <3>1 DEF At, RequestInv
        <3>3. PICK account : Put(f, account)
            BY <2>5, <3>2 DEF SetPassword, respond_to_new_password_challenge
        <3>4. CASE f # e
            BY <1>1, <2>1, <3>3, <3>4, PutStrands
        <3>5. CASE f = e
            BY <3>1, <3>2, <3>5
        <3> QED BY <3>4, <3>5
    <2>6. ASSUME NEW r \in Requests, DeleteAccount(r) PROVE Stranded(e)' \/ pool'[e] = None
        <3>1. /\ req[r].op = "delete" /\ req[r].stage = "cognito" /\ RequestInv(req[r])
              /\ req[r].op \in Ops
            BY <1>1, <2>6, OpsKnown DEF DeleteAccount, At, IInv
        <3>2. PICK f \in Emails : f = req[r].was.email
            BY <3>1 DEF RequestInv, User
        <3>3. Put(f, None)
            BY <2>6, <3>2 DEF DeleteAccount, admin_delete_user
        <3> QED BY <1>1, <2>1, <3>3, PutStrands
    <2>7. ASSUME NEW r \in Requests, ManageAccount(r) PROVE Stranded(e)' \/ pool'[e] = None
        <3>1. /\ req[r].op \in {"disable", "enable", "reset"} /\ req[r].stage = "cognito"
              /\ RequestInv(req[r]) /\ req[r].op \in Ops
            BY <1>1, <2>7, OpsKnown DEF ManageAccount, At, IInv
        <3>2. PICK f \in Emails : f = req[r].was.email
            BY <3>1 DEF RequestInv, User
        <3>3. CASE admin_reset_user_password(f)
            <4>1. f # e
                BY <2>1, <3>3 DEF admin_reset_user_password, In
            <4> QED BY <1>1, <2>1, <3>3, <4>1, PutStrands DEF admin_reset_user_password
        <3>4. ASSUME NEW enabled \in BOOLEAN, pool[f] # None,
                     Put(f, [pool[f] EXCEPT !.enabled = enabled])
              PROVE  Stranded(e)' \/ pool'[e] = None
            <4>1. PICK new : new = [pool[f] EXCEPT !.enabled = enabled]
                OBVIOUS
            <4>2. Put(f, new)
                BY <3>4, <4>1
            <4>3. f = e => /\ new \in Account /\ new.status = "FORCE_CHANGE_PASSWORD"
                           /\ ~ new.known /\ ~ new.code
                BY <2>1, <4>1 DEF Account
            <4>4. f = e => new # None
                BY <4>3, NoAccount
            <4> QED BY <1>1, <2>1, <4>2, <4>3, <4>4, PutStrands
        <3>5. admin_disable_user(f) \/ admin_enable_user(f) \/ admin_reset_user_password(f)
            BY <2>7, <3>2 DEF ManageAccount
        <3> QED BY <3>3, <3>4, <3>5 DEF admin_disable_user, admin_enable_user
    <2>8. ASSUME NEW r \in Requests,
                 \/ \E f \in deployment.emails : SignIn(r, f)
                 \/ \E op \in deployment.ops, actor, i \in Ids : StartAdmin(r, op, actor, i)
                 \/ SyncBySub(r) \/ SyncByEmail(r) \/ SyncInsert(r) \/ SyncUpdate(r)
                 \/ Load(r) \/ CountAdmins(r) \/ CommitFlags(r) \/ CommitDelete(r) \/ Abort(r)
          PROVE  UNCHANGED cognito
        BY <2>8 DEF SignIn, StartAdmin, Begin, SyncBySub, SyncByEmail, Found, SyncInsert, SyncUpdate,
           Commit, End, Load, CountAdmins, CommitFlags, CommitDelete, Abort
    <2>9. CASE UNCHANGED vars
        BY <2>2, <2>9 DEF vars
    <2>10. CASE Next
        BY <2>2, <2>4, <2>5, <2>6, <2>7, <2>8, <2>10 DEF Next
    <2> QED BY <1>1, <2>9, <2>10
<1>2. IInv /\ [Next]_vars =>
        [\A e \in Emails : Stranded(e) =>
          \/ Stranded(e)' \/ pool'[e] = None
          \/ \E r \in Requests : At(r, {"sync"}, "challenge") /\ req[r].email = e]_vars
    BY <1>1
<1> QED BY <1>2, Invariance, PTL DEF Spec, StrandedUntilDeleted

-----------------------------------------------------------------------------
(* One request at a time *)

\* No two requests overlap.  What Cognito's own pages do still happens beside
\* them.
OneAtATime == \A r, s \in Requests : r = s

\* A request writes to the row as it loaded it, and a demotion has counted the
\* admins there are.
Current(q, tbl) ==
    /\ q.id # None /\ q.was # None => tbl[q.id] = q.was
    /\ q.op = "demote" /\ q.stage = "commit" /\ q.was.is_platform_admin =>
          q.seen = {i \in Ids : tbl[i] # None /\ tbl[i].is_platform_admin}

SerialInv == \A r \in Requests : req[r] # None => Current(req[r], users)

\* A request that reads, or is answered.
LEMMA SerialReadStep ==
    ASSUME IInv, SerialInv, NEW r \in Requests, NEW q,
           req' = [req EXCEPT ![r] = q], users' = users, q # None => Current(q, users)
    PROVE  SerialInv'
<1>1. \A s \in Requests : req'[s] = IF s = r THEN q ELSE req[s]
    BY DEF IInv, TypeOK
<1>2. ASSUME NEW s \in Requests, req'[s] # None PROVE Current(req[s], users)'
    <2>1. Current(req'[s], users')
        BY <1>1, <1>2 DEF SerialInv
    <2> QED BY <2>1 DEF Current
<1> QED BY <1>2 DEF SerialInv

\* A sync that has found no row yet.
LEMMA SerialSyncStep ==
    ASSUME IInv, SerialInv, NEW r \in Requests,
           \/ \E e \in deployment.emails : SignIn(r, e)
           \/ SetPassword(r) \/ SyncBySub(r) \/ SyncByEmail(r),
           users' = users
    PROVE  SerialInv'
<1>1. CASE \E e \in deployment.emails : SignIn(r, e)
    <2>1. PICK q : Begin(r, q) /\ q.op = "sync" /\ q.id = None
        BY <1>1 DEF SignIn, NewSync
    <2>2. Current(q, users)
        BY <2>1 DEF Current
    <2> QED BY <2>1, <2>2, SerialReadStep DEF Begin
<1>2. ASSUME At(r, {"sync"}, "challenge") \/ At(r, {"sync"}, "token") \/ At(r, {"sync"}, "by_email")
      PROVE  req[r] \in Request /\ req[r].op = "sync" /\ req[r].id = None
    BY <1>2 DEF At, IInv, TypeOK, RequestInv
<1>3. ASSUME NEW stage, req[r] \in Request, req[r].op = "sync", req[r].id = None
      PROVE  Current([req[r] EXCEPT !.stage = stage], users)
    BY <1>3 DEF Current, Request
<1>4. CASE SetPassword(r)
    <2>1. PICK q : q = [req[r] EXCEPT !.stage = "token"]
        OBVIOUS
    <2>2. req' = [req EXCEPT ![r] = q]
        BY <1>4, <2>1 DEF SetPassword
    <2>3. Current(q, users)
        BY <1>2, <1>3, <1>4, <2>1 DEF SetPassword
    <2> QED BY <2>2, <2>3, SerialReadStep
<1>5. ASSUME NEW ids \in SUBSET Ids, NEW otherwise, Found(r, ids, otherwise),
             req[r] \in Request, req[r].op = "sync", req[r].id = None
      PROVE  SerialInv'
    <2>1. CASE ids = {}
        <3>1. PICK q : q = [req[r] EXCEPT !.stage = otherwise]
            OBVIOUS
        <3>2. req' = [req EXCEPT ![r] = q]
            BY <1>5, <2>1, <3>1 DEF Found
        <3> QED BY <1>3, <1>5, <3>1, <3>2, SerialReadStep
    <2>2. CASE ids # {}
        <3>1. PICK i \in ids : i = CHOOSE j \in ids : TRUE
            BY <2>2
        <3>2. PICK q : q = [req[r] EXCEPT !.stage = "commit", !.id = i, !.was = users[i]]
            OBVIOUS
        <3>3. req' = [req EXCEPT ![r] = q]
            BY <1>5, <2>2, <3>1, <3>2 DEF Found
        <3>4. q.op = "sync" /\ q.id = i /\ q.was = users[i]
            BY <1>5, <3>2 DEF Request
        <3>5. Current(q, users)
            BY <3>4 DEF Current
        <3> QED BY <3>3, <3>5, SerialReadStep
    <2> QED BY <2>1, <2>2
<1>6. CASE SyncBySub(r) \/ SyncByEmail(r)
    BY <1>2, <1>5, <1>6 DEF SyncBySub, SyncByEmail, Live
<1> QED BY <1>1, <1>4, <1>6

\* An administrator's operation, up to its commit.
LEMMA SerialAdminStep ==
    ASSUME IInv, SerialInv, NEW r \in Requests,
           \/ \E op \in deployment.ops, actor, i \in Ids : StartAdmin(r, op, actor, i)
           \/ Load(r) \/ CountAdmins(r) \/ DeleteAccount(r),
           users' = users
    PROVE  SerialInv'
<1>1. CASE \E op \in deployment.ops, actor, i \in Ids : StartAdmin(r, op, actor, i)
    <2>1. PICK q : Begin(r, q) /\ q.stage = "load" /\ q.was = None
        BY <1>1 DEF StartAdmin
    <2>2. Current(q, users)
        BY <2>1 DEF Current
    <2> QED BY <2>1, <2>2, SerialReadStep DEF Begin
<1>2. CASE End(r)
    BY <1>2, SerialReadStep DEF End
<1>3. CASE Load(r) /\ ~ End(r)
    <2>1. req[r] \in Request
        BY <1>3 DEF Load, At, IInv, TypeOK
    <2> DEFINE row == users[req[r].id]
    <2>2. PICK stage :
             stage = IF req[r].op \in {"delete", "disable", "enable", "reset"} THEN "cognito"
                     ELSE IF req[r].op = "demote" /\ row.is_platform_admin THEN "count"
                     ELSE "commit"
        OBVIOUS
    <2>3. PICK q : q = [req[r] EXCEPT !.was = row, !.stage = stage]
        OBVIOUS
    <2>4. q.op = req[r].op /\ q.id = req[r].id /\ q.was = row /\ q.stage = stage
        BY <2>1, <2>3 DEF Request
    <2>5. Current(q, users)
        BY <2>2, <2>4 DEF Current
    <2>6. req' = [req EXCEPT ![r] = q]
        BY <1>3, <2>2, <2>3 DEF Load
    <2> QED BY <2>5, <2>6, SerialReadStep
<1>4. CASE CountAdmins(r) /\ ~ End(r)
    <2>1. req[r] \in Request /\ Current(req[r], users)
        BY <1>4 DEF CountAdmins, At, IInv, TypeOK, SerialInv
    <2>2. PICK q : q = [req[r] EXCEPT !.stage = "commit", !.seen = Admins]
        OBVIOUS
    <2>3. req' = [req EXCEPT ![r] = q]
        BY <1>4, <2>2 DEF CountAdmins
    <2>4. q.id = req[r].id /\ q.was = req[r].was /\ q.seen = Admins
        BY <2>1, <2>2 DEF Request
    <2>5. Current(q, users)
        BY <2>1, <2>4 DEF Current, Admins, Live
    <2> QED BY <2>3, <2>5, SerialReadStep
<1>5. CASE DeleteAccount(r)
    <2>1. req[r] \in Request /\ req[r].op = "delete" /\ Current(req[r], users)
        BY <1>5 DEF DeleteAccount, At, IInv, TypeOK, SerialInv
    <2>2. PICK q : q = [req[r] EXCEPT !.stage = "commit"]
        OBVIOUS
    <2>3. q.op = "delete" /\ q.id = req[r].id /\ q.was = req[r].was
        BY <2>1, <2>2 DEF Request
    <2>4. Current(q, users)
        BY <2>1, <2>3 DEF Current
    <2>5. req' = [req EXCEPT ![r] = q] \/ req' = [req EXCEPT ![r] = None]
        BY <1>5, <2>2 DEF DeleteAccount
    <2> QED BY <2>4, <2>5, SerialReadStep
<1> QED BY <1>1, <1>2, <1>3, <1>4, <1>5

\* One request at a time, what it loaded is so when it commits.
LEMMA SerialInvariance == ASSUME OneAtATime PROVE Spec => []SerialInv
<1>1. ASSUME Init PROVE SerialInv
    BY <1>1 DEF Init, SerialInv
<1>2. ASSUME IInv, SerialInv, [Next]_vars PROVE SerialInv'
    <2>1. CASE users' # users
        <3>1. PICK r \in Requests : req'[r] = None
            BY <1>2, <2>1, RowsChange
        <3> QED BY <3>1 DEF OneAtATime, SerialInv
    <2>2. CASE users' = users /\ req' = req
        BY <1>2, <2>2 DEF SerialInv, Current
    <2>3. ASSUME NEW r \in Requests, users' = users, req' = [req EXCEPT ![r] = None]
          PROVE  SerialInv'
        BY <1>2, <2>3, SerialReadStep
    <2>4. ASSUME NEW r \in Requests, users' = users,
                 \/ SyncInsert(r) \/ SyncUpdate(r) \/ CommitFlags(r) \/ CommitDelete(r)
                 \/ ManageAccount(r) \/ Abort(r)
          PROVE  SerialInv'
        BY <2>3, <2>4 DEF SyncInsert, SyncUpdate, CommitFlags, CommitDelete, ManageAccount, Abort,
           Commit, End
    <2>5. CASE users' = users /\ Next
        BY <1>2, <2>2, <2>4, <2>5, SerialSyncStep, SerialAdminStep DEF Next
    <2> QED BY <1>2, <2>1, <2>2, <2>5 DEF vars
<1> QED BY <1>1, <1>2, Invariance, PTL DEF Spec

\* "while preserving at least one admin": that is so when no two requests
\* overlap.
THEOREM SerialAdmins ==
    ASSUME OneAtATime PROVE Spec => [][Admins # {} => Admins' # {}]_vars
<1>1. ASSUME IInv, SerialInv, [Next]_vars, Admins # {}, Admins' = {} PROVE FALSE
    <2>1. PICK r \in Requests :
             /\ req[r] # None /\ req'[r] = None /\ ~ End(r)
             /\ \/ /\ req[r].op = "demote" /\ req[r].stage = "commit"
                   /\ req[r].was.is_platform_admin /\ req[r].seen # Admins
                \/ CommitDelete(r) /\ req[r].op = "delete" /\ ~ req[r].was.is_platform_admin
        BY <1>1, LastAdminGoes
    <2>2. Current(req[r], users) /\ RequestInv(req[r])
        BY <1>1, <2>1 DEF SerialInv, IInv
    <2>3. CASE req[r].op = "demote"
        BY <2>1, <2>2, <2>3 DEF Current, Admins, Live
    <2>4. CASE CommitDelete(r) /\ ~ req[r].was.is_platform_admin
        <3>1. PICK i \in Ids : i = req[r].id
            BY <2>2, <2>4, OpsKnown DEF CommitDelete, At, RequestInv
        <3>2. req[r].was \in User
            BY <2>2, <2>4, OpsKnown DEF CommitDelete, At, RequestInv
        <3>3. users[i] = req[r].was /\ users' = [users EXCEPT ![i] = None]
            BY <2>1, <2>2, <2>4, <3>1, <3>2, NoneIsNothing DEF Current, CommitDelete, Commit
        <3>4. \A k \in Admins : k # i /\ k \in Admins'
            BY <1>1, <2>4, <3>3 DEF Admins, Live, IInv, TypeOK
        <3> QED BY <1>1, <3>4
    <2> QED BY <2>1, <2>3, <2>4
<1>2. IInv /\ SerialInv /\ [Next]_vars => [Admins # {} => Admins' # {}]_vars
    BY <1>1
<1> QED BY <1>2, Invariance, SerialInvariance, PTL DEF Spec

\* Without overlaps an identity that holds its row's address in Cognito loses
\* the row only to a token that is out of date.
THEOREM SerialRowsLost ==
    ASSUME OneAtATime
    PROVE  Spec => [][\A i \in Live :
                        /\ users'[i] # None /\ users'[i].cognito_sub # users[i].cognito_sub
                        /\ pool[users[i].email] # None
                        /\ pool[users[i].email].sub = users[i].cognito_sub
                        => \E r \in Requests :
                             /\ At(r, {"sync"}, "commit") /\ req'[r] = None /\ req[r].id = i
                             /\ \/ pool[req[r].email] = None
                                \/ pool[req[r].email].sub # req[r].sub]_vars
<1>1. ASSUME IInv, SerialInv, NEW i \in Live, NEW r \in Requests,
             At(r, {"sync"}, "commit"), req[r].id = i
      PROVE  users[i] = req[r].was
    <2>1. i # None
        BY <1>1, NoneIsNothing DEF Live
    <2>2. req[r].was \in User
        BY <1>1, <2>1 DEF At, IInv, RequestInv
    <2> QED BY <1>1, <2>1, <2>2, NoneIsNothing DEF SerialInv, Current, At
<1>2. /\ IInv /\ SerialInv
      /\ [\A i \in Live :
          /\ users'[i] # None /\ users'[i].cognito_sub # users[i].cognito_sub
          /\ pool[users[i].email] # None
          /\ pool[users[i].email].sub = users[i].cognito_sub
          => \E r \in Requests :
               /\ At(r, {"sync"}, "commit") /\ req'[r] = None /\ req[r].id = i
               /\ \/ users[i] # req[r].was
                  \/ pool[req[r].email] = None
                  \/ pool[req[r].email].sub # req[r].sub]_vars
      => [\A i \in Live :
          /\ users'[i] # None /\ users'[i].cognito_sub # users[i].cognito_sub
          /\ pool[users[i].email] # None
          /\ pool[users[i].email].sub = users[i].cognito_sub
          => \E r \in Requests :
               /\ At(r, {"sync"}, "commit") /\ req'[r] = None /\ req[r].id = i
               /\ \/ pool[req[r].email] = None
                  \/ pool[req[r].email].sub # req[r].sub]_vars
    BY <1>1
<1> QED BY <1>2, Invariance, SerialInvariance, RowsLostToOldTokens, PTL
        DEF Spec, RowLostOnlyToOldTokenOrOverlap
=============================================================================
