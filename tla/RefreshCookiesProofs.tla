------------------------ MODULE RefreshCookiesProofs ------------------------
(***************************************************************************)
(* What holds of RefreshCookies for any number of browsers, keys and       *)
(* requests, and any MaxAge and MaxTime.                                   *)
(*                                                                         *)
(* The invariant says who knows a key: one that a request has stored and   *)
(* not yet delivered is known to that request alone, a delivered one to    *)
(* one browser and the requests it sent.  So a request deletes only a row  *)
(* its own browser knows of, and what it delivers is still in the store.   *)
(* A row is locked by one transaction at most, which is over before the    *)
(* row goes, and only rows whose time is over are ever locked.             *)
(* If no browser has two requests in flight and the cookie goes to all its *)
(* paths, a request carries the cookie that its reply replaces (Carries).  *)
(***************************************************************************)
EXTENDS RefreshCookies, TLAPS

Issued(k) == k = None \/ expires_at[k] # 0

Over(k) == expires_at[k] <= now

\* No key in use is one that can still be drawn.
AllIssued ==
    /\ \A k \in stored : Issued(k)
    /\ \A b \in Browsers : Issued(cookie[b])
    /\ \A r \in Requests : req[r] # None =>
          /\ Issued(req[r].key) /\ Issued(req[r].new)
          /\ \A k \in req[r].todo : Issued(k)

\* What a request in flight has, by its stage.
StageInv(q) ==
    /\ q.op \in {"store", "cleanup"} => q.key = None
    /\ q.op # "cleanup" => q.browser \in Browsers
    /\ q.op \in {"refresh", "clear"} /\ q.stage # "reply" => q.key # None
    /\ q.new # None => q.stage \in {"delete", "reply"}
    /\ q.new # None => q.new \in stored \/ Over(q.new)
    /\ q.stage = "insert" => q.due # 0
    /\ q.stage = "reply" /\ q.key # None => q.key \notin stored
    /\ q.locked # {} => q.stage \in {"select", "cognito", "store", "insert", "commit"}
    /\ q.todo # {} => q.stage \in {"select", "insert", "commit"}
    /\ \A k \in q.locked : k \in stored
    /\ \A k \in q.locked \cup q.todo : Over(k)

\* A key a request has stored and not delivered is known to it alone.
Private ==
    \A r \in Requests : req[r] # None /\ req[r].new # None =>
        /\ \A b \in Browsers : cookie[b] # req[r].new
        /\ \A s \in Requests : req[s] # None => req[s].key # req[r].new
        /\ \A s \in Requests \ {r} : req[s] # None => req[s].new # req[r].new

\* A delivered key is known to one browser and the requests it sent.
Owned ==
    /\ \A b, c \in Browsers : b # c /\ cookie[b] # None => cookie[b] # cookie[c]
    /\ \A r \in Requests, b \in Browsers :
          req[r] # None /\ req[r].key # None /\ cookie[b] = req[r].key => req[r].browser = b

\* A row has one holder.
OneHolder ==
    \A r, s \in Requests :
        r # s /\ req[r] # None /\ req[s] # None => req[r].locked \cap req[s].locked = {}

IInv ==
    /\ TypeOK
    /\ AllIssued
    /\ \A r \in Requests : req[r] # None => StageInv(req[r])
    /\ Private
    /\ Owned
    /\ OneHolder
    /\ LoginSurvivesRotation

\* The request q has taken effect and is the one that came with b's cookie.
Excuses(q, b) ==
    /\ q # None
    /\ q.browser = b /\ q.key = cookie[b]
    /\ PastCognito(q) \/ q.stage = "reply"

-----------------------------------------------------------------------------
(* Steps that change one request and the marks of browsers *)

\* The request in slot r becomes q, which has stored nothing yet.
LEMMA RequestStep ==
    ASSUME IInv, NEW r \in Requests, NEW q \in Request \cup {None},
           req' = [req EXCEPT ![r] = q],
           UNCHANGED <<stored, expires_at, now, cookie, csrf, wide>>,
           spent' \in [Browsers -> BOOLEAN], lost' \in [Browsers -> BOOLEAN],
           \A b \in Browsers : lost[b] => lost'[b],
           \A b \in Browsers : spent'[b] => spent[b] \/ lost'[b] \/ Excuses(q, b),
           \A b \in Browsers : cookie[b] # None /\ Excuses(req[r], b)
                                  => lost'[b] \/ Excuses(q, b),
           q # None => /\ q.stage \in StagesOf(q.op) /\ StageInv(q)
                       /\ q.new = None /\ Issued(q.key) /\ \A k \in q.todo : Issued(k),
           q # None /\ q.key # None =>
              /\ \A b \in Browsers : cookie[b] = q.key => q.browser = b
              /\ \A s \in Requests : req[s] # None => req[s].new # q.key,
           q # None =>
              \A s \in Requests \ {r} : req[s] # None => req[s].locked \cap q.locked = {}
    PROVE  IInv'
<1>1. /\ req \in [Requests -> Request \cup {None}]
      /\ \A s \in Requests : req'[s] = IF s = r THEN q ELSE req[s]
    BY DEF IInv, TypeOK
<1>2. TypeOK'
    BY <1>1 DEF IInv, TypeOK
<1>3. AllIssued'
    BY <1>1 DEF IInv, AllIssued, Issued
<1>4. \A s \in Requests : req'[s] # None => StageInv(req[s])'
    BY <1>1 DEF IInv, StageInv, Over
<1>5. Private'
    BY <1>1 DEF IInv, Private
<1>6. Owned'
    BY <1>1 DEF IInv, Owned
<1>7. OneHolder'
    BY <1>1 DEF IInv, OneHolder
<1>8. LoginSurvivesRotation'
    <2>1. SUFFICES ASSUME NEW b \in Browsers, cookie[b] # None, cookie[b] \notin stored \/ spent'[b]
                   PROVE  \/ expires_at[cookie[b]] <= now \/ lost'[b]
                          \/ \E s \in Requests : Excuses(req'[s], b)
        BY <1>1 DEF LoginSurvivesRotation, Excuses, Active
    <2>2. CASE lost'[b] \/ Excuses(q, b)
        BY <1>1, <2>2
    <2>3. CASE ~ lost'[b] /\ ~ Excuses(q, b)
        <3>1. cookie[b] \notin stored \/ spent[b]
            BY <2>1, <2>3
        <3>2. \/ expires_at[cookie[b]] <= now \/ lost[b]
              \/ \E s \in Requests : Excuses(req[s], b)
            BY <2>1, <3>1 DEF IInv, LoginSurvivesRotation, Excuses, Active
        <3>3. CASE \E s \in Requests : Excuses(req[s], b)
            BY <1>1, <2>1, <2>3, <3>3
        <3> QED BY <3>2, <3>3
    <2> QED BY <2>2, <2>3
<1> QED BY <1>2, <1>3, <1>4, <1>5, <1>6, <1>7, <1>8 DEF IInv

\* It does so without an effect that a browser could notice.
LEMMA QuietStep ==
    ASSUME IInv, NEW r \in Requests, NEW q \in Request \cup {None},
           req' = [req EXCEPT ![r] = q],
           UNCHANGED <<stored, expires_at, now, cookie, csrf, wide, spent, lost>>,
           \A b \in Browsers : Excuses(req[r], b) => Excuses(q, b),
           q # None => /\ q.stage \in StagesOf(q.op) /\ StageInv(q)
                       /\ q.new = None /\ Issued(q.key) /\ \A k \in q.todo : Issued(k),
           q # None /\ q.key # None =>
              /\ \A b \in Browsers : cookie[b] = q.key => q.browser = b
              /\ \A s \in Requests : req[s] # None => req[s].new # q.key,
           q # None =>
              \A s \in Requests \ {r} : req[s] # None => req[s].locked \cap q.locked = {}
    PROVE  IInv'
<1>1. spent' \in [Browsers -> BOOLEAN] /\ lost' \in [Browsers -> BOOLEAN]
    BY DEF IInv, TypeOK
<1> QED BY <1>1, RequestStep

\* A request ends before it has taken effect.
LEMMA EndStep ==
    ASSUME IInv, NEW r \in Requests, End(r), \A b \in Browsers : ~ Excuses(req[r], b)
    PROVE  IInv'
    BY QuietStep DEF End, db, jars

\* A request fails: if it has taken effect, that is noted.
LEMMA AbortStep == ASSUME IInv, NEW r \in Requests, Abort(r) PROVE IInv'
<1>1. /\ req[r] # None /\ req[r].stage # "reply" /\ req' = [req EXCEPT ![r] = None]
      /\ UNCHANGED <<stored, expires_at, now, cookie, csrf, wide, spent>>
      /\ spent' \in [Browsers -> BOOLEAN] /\ lost \in [Browsers -> BOOLEAN]
    BY DEF Abort, db, jars, IInv, TypeOK
<1>2. req[r] \in Request /\ StageInv(req[r])
    BY <1>1 DEF IInv, TypeOK
<1>3. /\ lost' \in [Browsers -> BOOLEAN]
      /\ \A b \in Browsers : lost[b] => lost'[b]
      /\ \A b \in Browsers : cookie[b] # None /\ Excuses(req[r], b) => lost'[b]
    <2>1. CASE PastCognito(req[r])
        BY <1>1, <2>1 DEF Abort, Mark, Excuses
    <2>2. CASE ~ PastCognito(req[r])
        BY <1>1, <2>2 DEF Abort, Excuses
    <2> QED BY <2>1, <2>2
<1> QED BY <1>1, <1>3, RequestStep

\* What Begin puts into a slot.
LEMMA BeginsOne ==
    ASSUME IInv, NEW r \in Requests, NEW op \in Ops, NEW stage \in StagesOf(op),
           NEW b \in Browsers \cup {None}, NEW key \in Keys \cup {None},
           NEW todo \in SUBSET Keys, Begin(r, op, stage, b, key, todo),
           op \in {"store", "cleanup"} => key = None,
           op # "cleanup" => b \in Browsers,
           op \in {"refresh", "clear"} /\ stage # "reply" => key # None,
           stage = "reply" => key = None, stage # "insert",
           key # None => b \in Browsers /\ key = cookie[b],
           todo # {} => stage = "commit",
           \A k \in todo : Over(k) /\ k \in stored
    PROVE  IInv'
<1>1. stage \in Stages
    BY DEF Ops, StagesOf, Stages
<1>2. 0 \in Deadlines
    BY Ages DEF Deadlines
<1>3. PICK q \in Request :
         q = [op |-> op, stage |-> stage, browser |-> b, key |-> key,
              new |-> None, due |-> 0, todo |-> todo, locked |-> {}]
    BY <1>1, <1>2 DEF Request
<1>4. /\ req' = [req EXCEPT ![r] = q] /\ req[r] = None
      /\ UNCHANGED <<stored, expires_at, now, cookie, csrf, wide, spent, lost>>
    BY <1>3 DEF Begin, db, jars
<1>5. /\ q.op = op /\ q.stage = stage /\ q.key = key /\ q.new = None /\ q.browser = b
      /\ q.locked = {} /\ q.todo = todo
    BY <1>3
<1>6. StageInv(q) /\ Issued(q.key) /\ \A k \in q.todo : Issued(k)
    BY <1>5 DEF StageInv, IInv, AllIssued, Issued
<1>7. key # None =>
         /\ \A c \in Browsers : cookie[c] = key => b = c
         /\ \A s \in Requests : req[s] # None => req[s].new # key
    BY DEF IInv, Owned, Private
<1>8. \A c \in Browsers : ~ Excuses(req[r], c)
    BY <1>4 DEF Excuses
<1> QED BY <1>4, <1>5, <1>6, <1>7, <1>8, QuietStep

\* The browser sends a request, its key is the one in the jar, or none; or the
\* cleanup begins.
LEMMA BeginStep == ASSUME IInv, NEW r \in Requests, Begins(r) PROVE IInv'
<1>1. ASSUME NEW b \in Browsers, StartStore(r, b) PROVE IInv'
    BY <1>1, BeginsOne DEF StartStore, Ops, StagesOf
<1>2. ASSUME NEW b \in Browsers, StartRefresh(r, b) PROVE IInv'
    <2>1. cookie[b] \in Keys
        BY <1>2 DEF StartRefresh, IInv, TypeOK
    <2>2. "refresh" \in Ops /\ "load" \in StagesOf("refresh")
        BY DEF Ops, StagesOf
    <2> QED BY <1>2, <2>1, <2>2, NoneIsNoKey, BeginsOne DEF StartRefresh
<1>3. ASSUME NEW b \in Browsers, StartClear(r, b) PROVE IInv'
    <2>1. cookie[b] \in Keys \cup {None}
        BY DEF IInv, TypeOK
    <2>2. PICK key \in {cookie[b], None} :
            Begin(r, "clear", IF key = None THEN "reply" ELSE "delete", b, key, {})
        BY <1>3 DEF StartClear
    <2>3. "clear" \in Ops /\ (IF key = None THEN "reply" ELSE "delete") \in StagesOf("clear")
        BY DEF Ops, StagesOf
    <2> QED BY <2>1, <2>2, <2>3, BeginsOne
<1>4. ASSUME purge_expired_refresh_tokens(r) PROVE IInv'
    <2>1. expires_at \in [Keys -> Nat] /\ now \in Nat /\ stored \subseteq Keys
        BY Ages DEF IInv, TypeOK, Time, Deadlines
    <2>2. {k \in stored : expires_at[k] < now} \in SUBSET Keys
          /\ \A k \in {j \in stored : expires_at[j] < now} : Over(k) /\ k \in stored
        BY <2>1 DEF Over
    <2>3. "cleanup" \in Ops /\ "commit" \in StagesOf("cleanup")
        BY DEF Ops, StagesOf
    <2> QED BY <1>4, <2>2, <2>3, BeginsOne DEF purge_expired_refresh_tokens
<1> QED BY <1>1, <1>2, <1>3, <1>4 DEF Begins

-----------------------------------------------------------------------------
(* Steps of the server *)

\* The request goes on with what it has, under locks that nobody else holds.
LEMMA GoOn ==
    ASSUME IInv, NEW r \in Requests, NEW q \in Request, req[r] # None,
           req' = [req EXCEPT ![r] = q],
           UNCHANGED <<stored, expires_at, now, cookie, csrf, wide, spent, lost>>,
           q.op = req[r].op, q.key = req[r].key, q.new = req[r].new,
           q.browser = req[r].browser, req[r].new = None,
           q.stage \in StagesOf(q.op), StageInv(q), \A k \in q.todo : Issued(k),
           PastCognito(req[r]) \/ req[r].stage = "reply"
              => PastCognito(q) \/ q.stage = "reply",
           \A s \in Requests \ {r} : req[s] # None => req[s].locked \cap q.locked = {}
    PROVE  IInv'
<1>1. /\ Issued(q.key) /\ q.new = None
      /\ \A b \in Browsers : Excuses(req[r], b) => Excuses(q, b)
    BY NoneIsNoRequest DEF IInv, AllIssued, Excuses
<1>2. q.key # None =>
         /\ \A b \in Browsers : cookie[b] = q.key => q.browser = b
         /\ \A s \in Requests : req[s] # None => req[s].new # q.key
    BY DEF IInv, Owned, Private
<1> QED BY <1>1, <1>2, QuietStep

\* A purge begins: it has yet to lock what has expired.
LEMMA PurgeExpiredStep == ASSUME IInv, NEW r \in Requests, PurgeExpired(r) PROVE IInv'
<1> DEFINE me == req[r]
           q == [me EXCEPT !.todo  = Expired \ me.locked,
                           !.due   = IF me.stage = "load" THEN 0 ELSE now + MaxAge,
                           !.stage = IF me.stage = "load" THEN "select" ELSE "insert"]
<1>1. /\ me \in Request /\ me # None /\ StageInv(me)
      /\ \/ me.op = "refresh" /\ me.stage = "load"
         \/ me.op \in {"store", "refresh"} /\ me.stage = "store"
    BY DEF PurgeExpired, At, IInv, TypeOK
<1>2. /\ now \in Nat /\ MaxAge \in Nat \ {0} /\ MaxTime \in Nat /\ now <= MaxTime
      /\ stored \subseteq Keys
    BY Ages DEF IInv, TypeOK, Time
<1>3. 0 \in Deadlines /\ now + MaxAge \in Deadlines /\ now + MaxAge # 0
    BY <1>2 DEF Deadlines
<1>4. q \in Request
    BY <1>1, <1>2, <1>3 DEF Request, Stages, Expired
<1>5. /\ q.op = me.op /\ q.key = me.key /\ q.new = me.new /\ q.browser = me.browser
      /\ q.locked = me.locked /\ q.todo = Expired \ me.locked
      /\ q.stage = IF me.stage = "load" THEN "select" ELSE "insert"
      /\ q.due = IF me.stage = "load" THEN 0 ELSE now + MaxAge
    BY <1>1 DEF Request
<1>6. /\ req' = [req EXCEPT ![r] = q]
      /\ UNCHANGED <<stored, expires_at, now, cookie, csrf, wide, spent, lost>>
    BY DEF PurgeExpired, db, jars
<1> HIDE DEF q
<1>7. me.new = None /\ q.stage \in StagesOf(q.op)
    BY <1>1, <1>5 DEF StageInv, StagesOf
<1>8. StageInv(q) /\ \A k \in q.todo : Issued(k)
    BY <1>1, <1>3, <1>5 DEF StageInv, Expired, Over, IInv, AllIssued
<1>9. PastCognito(me) \/ me.stage = "reply" => PastCognito(q) \/ q.stage = "reply"
    BY <1>1, <1>5 DEF PastCognito
<1>10. \A s \in Requests \ {r} : req[s] # None => req[s].locked \cap q.locked = {}
    BY <1>1, <1>5 DEF IInv, OneHolder
<1> QED BY <1>1, <1>4, <1>5, <1>6, <1>7, <1>8, <1>9, <1>10, GoOn

\* One more row is locked, which nobody else holds.
LEMMA LockRowStep == ASSUME IInv, NEW r \in Requests, LockRow(r) PROVE IInv'
<1> DEFINE me == req[r]
<1>1. PICK k \in me.todo \ LockedByOthers(r) :
         req' = [req EXCEPT ![r] = [me EXCEPT !.todo = me.todo \ {k},
                                              !.locked = me.locked \cup ({k} \cap stored)]]
    BY DEF LockRow
<1> DEFINE q == [me EXCEPT !.todo = me.todo \ {k}, !.locked = me.locked \cup ({k} \cap stored)]
<1>2. /\ me \in Request /\ me # None /\ StageInv(me) /\ me.stage \in StagesOf(me.op)
    BY DEF LockRow, IInv, TypeOK
<1>3. q \in Request
    BY <1>2, <1>1 DEF Request
<1>4. /\ q.op = me.op /\ q.key = me.key /\ q.new = me.new /\ q.browser = me.browser
      /\ q.stage = me.stage /\ q.due = me.due
      /\ q.todo = me.todo \ {k} /\ q.locked = me.locked \cup ({k} \cap stored)
    BY <1>2 DEF Request
<1>5. /\ req' = [req EXCEPT ![r] = q]
      /\ UNCHANGED <<stored, expires_at, now, cookie, csrf, wide, spent, lost>>
    <2>1. UNCHANGED <<stored, expires_at, now, cookie, csrf, wide, spent, lost>>
        BY DEF LockRow, db, jars
    <2>2. req' = [req EXCEPT ![r] = q]
        BY <1>1, Zenon
    <2> QED BY <2>1, <2>2
<1> HIDE DEF q
<1>6. me.stage \in {"select", "insert", "commit"}
    BY <1>1, <1>2 DEF StageInv
<1>7. me.new = None
    BY <1>2, <1>6 DEF StageInv
<1>8. StageInv(q) /\ \A j \in q.todo : Issued(j)
    BY <1>1, <1>2, <1>4, <1>6 DEF StageInv, Over, IInv, AllIssued
<1>9. PastCognito(me) \/ me.stage = "reply" => PastCognito(q) \/ q.stage = "reply"
    BY <1>4 DEF PastCognito
<1>10. ASSUME NEW s \in Requests \ {r}, req[s] # None PROVE req[s].locked \cap q.locked = {}
    <2>1. req[s].locked \subseteq LockedByOthers(r)
        BY <1>10 DEF LockedByOthers, Active
    <2> QED BY <1>1, <1>2, <1>4, <1>10, <2>1 DEF IInv, OneHolder
<1> QED BY <1>2, <1>3, <1>4, <1>5, <1>7, <1>8, <1>9, <1>10, GoOn

\* The token is loaded, or the request ends.
LEMMA LoadTokenStep == ASSUME IInv, NEW r \in Requests, LoadToken(r) PROVE IInv'
<1> DEFINE me == req[r]
           q == [me EXCEPT !.stage = "cognito"]
<1>1. /\ me \in Request /\ me # None /\ StageInv(me) /\ me.todo = {}
      /\ me.op = "refresh" /\ me.stage = "select"
    BY DEF LoadToken, At, IInv, TypeOK
<1>2. CASE End(r)
    BY <1>1, <1>2, EndStep DEF Excuses, PastCognito
<1>3. CASE /\ req' = [req EXCEPT ![r].stage = "cognito"]
           /\ UNCHANGED <<db, now, jars, spent, lost>>
    <2>1. q \in Request
        BY <1>1 DEF Request, Stages
    <2>2. /\ q.op = me.op /\ q.key = me.key /\ q.new = me.new /\ q.browser = me.browser
          /\ q.stage = "cognito" /\ q.todo = me.todo /\ q.locked = me.locked
        BY <1>1 DEF Request
    <2>3. /\ req' = [req EXCEPT ![r] = q]
          /\ UNCHANGED <<stored, expires_at, now, cookie, csrf, wide, spent, lost>>
        BY <1>3 DEF db, jars
    <2> HIDE DEF q
    <2>4. /\ me.new = None /\ q.stage \in StagesOf(q.op) /\ StageInv(q)
          /\ \A k \in q.todo : Issued(k)
        BY <1>1, <2>2 DEF StageInv, StagesOf, Over
    <2>5. ~ PastCognito(me) /\ me.stage # "reply"
        BY <1>1 DEF PastCognito
    <2>6. \A s \in Requests \ {r} : req[s] # None => req[s].locked \cap q.locked = {}
        BY <1>1, <2>2 DEF IInv, OneHolder
    <2> QED BY <1>1, <2>1, <2>2, <2>3, <2>4, <2>5, <2>6, GoOn
<1> QED BY <1>2, <1>3 DEF LoadToken

\* Cognito replaces the token of the browser's cookie, whether or not its answer
\* gets through; or the request ends with nothing changed.
LEMMA CallCognitoStep == ASSUME IInv, NEW r \in Requests, CallCognito(r) PROVE IInv'
<1> DEFINE me == req[r]
           q == [me EXCEPT !.stage = "store"]
<1>1. /\ me \in Request /\ me # None /\ StageInv(me)
      /\ me.op = "refresh" /\ me.stage = "cognito"
    BY DEF CallCognito, At, IInv, TypeOK
<1>2. CASE End(r)
    BY <1>1, <1>2, EndStep DEF Excuses, PastCognito
<1>3. ASSUME Exchanged(r)
      PROVE  /\ UNCHANGED <<stored, expires_at, now, cookie, csrf, wide>>
             /\ spent' = Mark(spent, me)
             /\ \/ req' = [req EXCEPT ![r] = q] /\ lost' = lost
                \/ req' = [req EXCEPT ![r] = None] /\ lost' = Mark(lost, me)
    BY <1>3 DEF Exchanged, db, jars
<1>4. ~ PastCognito(me) /\ me.stage # "reply" /\ \A b \in Browsers : ~ Excuses(me, b)
    BY <1>1 DEF PastCognito, Excuses
<1>5. CASE Exchanged(r) /\ req' = [req EXCEPT ![r] = None] /\ lost' = Mark(lost, me)
    <2>1. /\ spent' \in [Browsers -> BOOLEAN] /\ lost' \in [Browsers -> BOOLEAN]
          /\ \A b \in Browsers : /\ spent'[b] => spent[b] \/ lost'[b]
                                 /\ lost[b] => lost'[b]
        BY <1>3, <1>5 DEF IInv, TypeOK, Mark
    <2> QED BY <1>3, <1>4, <1>5, <2>1, RequestStep
<1>6. CASE Exchanged(r) /\ req' = [req EXCEPT ![r] = q] /\ lost' = lost
    <2>1. q \in Request
        BY <1>1 DEF Request, Stages
    <2>2. /\ q.op = me.op /\ q.key = me.key /\ q.new = me.new /\ q.browser = me.browser
          /\ q.stage = "store" /\ q.todo = me.todo /\ q.locked = me.locked
        BY <1>1 DEF Request
    <2> HIDE DEF q
    <2>3. /\ q.new = None /\ q.stage \in StagesOf(q.op) /\ StageInv(q) /\ Issued(q.key)
          /\ \A k \in q.todo : Issued(k)
        BY <1>1, <2>2 DEF StageInv, StagesOf, Over, IInv, AllIssued
    <2>4. PastCognito(q) /\ q # None
        BY <1>1, <2>1, <2>2, NoneIsNoRequest DEF PastCognito
    <2>5. /\ spent' \in [Browsers -> BOOLEAN] /\ lost' \in [Browsers -> BOOLEAN]
          /\ \A b \in Browsers : spent'[b] => spent[b] \/ Excuses(q, b)
        BY <1>3, <1>6, <2>2, <2>4 DEF IInv, TypeOK, Mark, Excuses
    <2>6. /\ \A b \in Browsers : cookie[b] = q.key => q.browser = b
          /\ \A s \in Requests : req[s] # None => req[s].new # q.key
          /\ \A s \in Requests \ {r} : req[s] # None => req[s].locked \cap q.locked = {}
        BY <1>1, <2>2 DEF IInv, OneHolder, Owned, Private, StageInv
    <2> QED BY <1>3, <1>4, <1>6, <2>1, <2>3, <2>5, <2>6, RequestStep
<1> QED BY <1>2, <1>3, <1>5, <1>6 DEF CallCognito

\* Storing a key nobody knows; what the purge has locked goes with the commit.
LEMMA StoreTokenStep == ASSUME IInv, NEW r \in Requests, StoreToken(r) PROVE IInv'
<1> DEFINE me == req[r]
<1>1. /\ me \in Request /\ me # None /\ me.stage = "insert" /\ StageInv(me)
      /\ me.op \in {"store", "refresh"} /\ me.todo = {}
    BY DEF StoreToken, At, IInv, TypeOK
<1>2. PICK k \in Fresh :
         /\ stored' = (stored \ me.locked) \cup {k}
         /\ expires_at' = [expires_at EXCEPT ![k] = me.due]
         /\ req' = [req EXCEPT ![r] =
               [me EXCEPT !.stage = IF me.op = "store" THEN "reply" ELSE "delete",
                          !.new = k, !.due = 0, !.locked = {}]]
    BY DEF StoreToken
<1> DEFINE q == [me EXCEPT !.stage = IF me.op = "store" THEN "reply" ELSE "delete",
                           !.new = k, !.due = 0, !.locked = {}]
<1>3. /\ k \in Keys /\ expires_at[k] = 0 /\ k # None /\ k \notin stored
      /\ \A b \in Browsers : cookie[b] # k
      /\ \A s \in Requests : req[s] # None => req[s].key # k /\ req[s].new # k
    BY <1>2, NoneIsNoKey DEF Fresh, IInv, AllIssued, Issued
<1>4. me.due \in Deadlines /\ me.due # 0 /\ 0 \in Deadlines /\ expires_at \in [Keys -> Deadlines]
    BY <1>1, Ages DEF Request, StageInv, Deadlines, IInv, TypeOK
<1>5. /\ expires_at'[k] = me.due
      /\ \A j \in Keys \ {k} : expires_at'[j] = expires_at[j]
    BY <1>2, <1>3, <1>4
<1>6. /\ q \in Request
      /\ q.op = me.op /\ q.key = me.key /\ q.new = k /\ q.locked = {} /\ q.todo = {}
      /\ q.browser = me.browser
      /\ q.stage = IF me.op = "store" THEN "reply" ELSE "delete"
    BY <1>1, <1>3, <1>4 DEF Request, Stages
<1>7. \A s \in Requests : req'[s] = IF s = r THEN q ELSE req[s]
    BY <1>2 DEF IInv, TypeOK
<1> HIDE DEF q
<1>8. UNCHANGED <<now, cookie, csrf, wide, spent, lost>>
    BY DEF StoreToken, jars
<1>9. \A j \in stored : j \notin stored' => Over(j)
    BY <1>1, <1>2 DEF StageInv
<1>10. \A j \in Keys \ {k} : (Over(j) <=> Over(j)') /\ (j \in stored' => j \in stored)
    BY <1>2, <1>5, <1>8 DEF Over
<1>11. TypeOK'
    <2>1. stored' \subseteq Keys /\ expires_at' \in [Keys -> Deadlines]
        BY <1>2, <1>3, <1>4 DEF IInv, TypeOK
    <2>2. req' \in [Requests -> Request \cup {None}]
        BY <1>2, <1>6 DEF IInv, TypeOK, q
    <2>3. \A s \in Requests : req'[s] # None => req'[s].stage \in StagesOf(req'[s].op)
        BY <1>1, <1>6, <1>7 DEF IInv, TypeOK, StagesOf
    <2> QED BY <1>8, <2>1, <2>2, <2>3 DEF IInv, TypeOK
<1>12. AllIssued'
    BY <1>1, <1>2, <1>3, <1>4, <1>5, <1>6, <1>7, <1>8, NoneIsNoKey
    DEF IInv, AllIssued, Issued, TypeOK, Request
<1>13. ASSUME NEW s \in Requests, req'[s] # None PROVE StageInv(req[s])'
    <2>1. CASE s = r
        BY <1>1, <1>2, <1>3, <1>6, <1>7, <2>1 DEF StageInv
    <2>2. CASE s # r
        <3>1. req'[s] = req[s] /\ req[s] \in Request /\ StageInv(req[s])
            BY <1>7, <1>13, <2>2 DEF IInv, TypeOK
        <3>2. req[s].locked \cap me.locked = {}
            BY <1>1, <1>13, <2>2, <3>1 DEF IInv, OneHolder
        <3>3. \A j \in req[s].locked : j \in stored'
            BY <1>2, <3>1, <3>2 DEF StageInv
        <3>4. \A j \in req[s].locked \cup req[s].todo : Over(j)'
            <4>1. ASSUME NEW j \in req[s].locked \cup req[s].todo, j = k PROVE FALSE
                <5>1. j \in req[s].todo
                    BY <1>3, <3>1, <4>1 DEF StageInv
                <5> QED BY <1>3, <1>13, <3>1, <4>1, <5>1 DEF IInv, AllIssued, Issued
            <4>2. \A j \in req[s].locked \cup req[s].todo : j \in Keys /\ Over(j)
                BY <3>1 DEF StageInv, Request
            <4> QED BY <1>10, <4>1, <4>2
        <3>5. req[s].new # None => req[s].new \in stored' \/ Over(req[s].new)'
            BY <1>3, <1>9, <1>10, <1>13, <3>1 DEF StageInv, Request
        <3>6. req[s].stage = "reply" /\ req[s].key # None => req[s].key \notin stored'
            BY <1>3, <1>10, <1>13, <3>1 DEF StageInv, Request
        <3> QED BY <3>1, <3>3, <3>4, <3>5, <3>6 DEF StageInv
    <2> QED BY <2>1, <2>2
<1>14. Private'
    BY <1>1, <1>3, <1>6, <1>7, <1>8 DEF IInv, Private
<1>15. Owned'
    BY <1>1, <1>6, <1>7, <1>8 DEF IInv, Owned
<1>16. OneHolder'
    BY <1>6, <1>7 DEF IInv, OneHolder
<1>17. LoginSurvivesRotation'
    <2>1. SUFFICES ASSUME NEW b \in Browsers, NEW j \in Keys, j = cookie[b],
                          j \notin stored' \/ spent[b]
                   PROVE  \/ Over(j)' \/ lost[b]
                          \/ \E s \in Requests : Excuses(req'[s], b)
        BY <1>8 DEF LoginSurvivesRotation, Over, IInv, TypeOK, Excuses, Active
    <2>2. j # k
        BY <1>3, <2>1
    <2>3. CASE j \in stored /\ ~ spent[b]
        BY <1>9, <1>10, <2>1, <2>2, <2>3
    <2>4. CASE j \notin stored \/ spent[b]
        <3>1. Over(j) \/ lost[b] \/ \E s \in Requests : Excuses(req[s], b)
            BY <2>1, <2>4, NoneIsNoKey DEF IInv, LoginSurvivesRotation, Over, Excuses, Active
        <3>2. Excuses(me, b) => Excuses(q, b)
            BY <1>1, <1>6, NoneIsNoRequest DEF Excuses, PastCognito
        <3> QED BY <1>7, <1>10, <2>1, <2>2, <3>1, <3>2
    <2> QED BY <2>3, <2>4
<1> QED BY <1>11, <1>12, <1>13, <1>14, <1>15, <1>16, <1>17 DEF IInv

\* Deleting the row of the key the request carried, which only its own browser
\* can still name.
LEMMA DeleteTokenStep == ASSUME IInv, NEW r \in Requests, DeleteToken(r) PROVE IInv'
<1>1. /\ req[r] \in Request /\ req[r] # None /\ req[r].stage = "delete"
      /\ req[r].op \in {"refresh", "clear"} /\ StageInv(req[r])
      /\ stored' = stored \ {req[r].key} /\ req' = [req EXCEPT ![r].stage = "reply"]
      /\ UNCHANGED <<expires_at, now, cookie, csrf, wide, spent, lost>>
    BY DEF DeleteToken, At, IInv, TypeOK, jars
<1>2. PICK q \in Request : q = [req[r] EXCEPT !.stage = "reply"]
    BY <1>1 DEF Request, Stages
<1>3. /\ q.op = req[r].op /\ q.stage = "reply" /\ q.locked = req[r].locked
      /\ q.todo = req[r].todo
      /\ q.key = req[r].key /\ q.new = req[r].new /\ q.browser = req[r].browser
    BY <1>1, <1>2 DEF Request
<1>4. \A s \in Requests : req'[s] = IF s = r THEN q ELSE req[s]
    BY <1>1, <1>2 DEF IInv, TypeOK
<1>5. /\ q.key \in Keys /\ q.key # None /\ q.locked = {} /\ q.todo = {} /\ q # None
      /\ \A s \in Requests : req[s] # None => q.key \notin req[s].locked /\ req[s].new # q.key
    <2>1. q.key # None /\ q.locked = {} /\ q.todo = {} /\ q.key \in Keys
        BY <1>1, <1>3 DEF StageInv, Request
    <2>2. ASSUME NEW s \in Requests, req[s] # None PROVE q.key \notin req[s].locked
        BY <1>1, <1>3, <2>1, <2>2 DEF DeleteToken, LockedByOthers, Active
    <2> QED BY <1>1, <1>3, <2>1, <2>2, NoneIsNoRequest DEF IInv, Private
<1>6. TypeOK'
    <2>1. req' \in [Requests -> Request \cup {None}] /\ stored' \subseteq Keys
        BY <1>1, <1>2 DEF IInv, TypeOK
    <2>2. "reply" \in StagesOf("refresh") /\ "reply" \in StagesOf("clear")
        BY DEF StagesOf
    <2>3. q.stage \in StagesOf(q.op)
        BY <1>1, <1>3, <2>2
    <2>4. \A s \in Requests : req'[s] # None => req'[s].stage \in StagesOf(req'[s].op)
        BY <1>4, <2>3 DEF IInv, TypeOK
    <2> QED BY <1>1, <2>1, <2>4 DEF IInv, TypeOK
<1>7. AllIssued'
    BY <1>1, <1>3, <1>4 DEF IInv, AllIssued, Issued
<1>8. \A s \in Requests : req'[s] # None => StageInv(req[s])'
    BY <1>1, <1>3, <1>4, <1>5 DEF IInv, StageInv, Over
<1>9. Private'
    BY <1>1, <1>3, <1>4 DEF IInv, Private
<1>10. Owned'
    BY <1>1, <1>3, <1>4 DEF IInv, Owned
<1>11. OneHolder'
    BY <1>4, <1>5 DEF IInv, OneHolder
<1>12. LoginSurvivesRotation'
    <2>1. SUFFICES ASSUME NEW b \in Browsers, cookie[b] # None,
                          cookie[b] \notin stored' \/ spent[b]
                   PROVE  \/ expires_at[cookie[b]] <= now \/ lost[b]
                          \/ \E s \in Requests : Excuses(req'[s], b)
        BY <1>1 DEF LoginSurvivesRotation, Excuses, Active
    <2>2. CASE cookie[b] = q.key
        BY <1>1, <1>3, <1>4, <1>5, <2>2 DEF IInv, Owned, Excuses
    <2>3. CASE cookie[b] # q.key
        <3>1. \/ expires_at[cookie[b]] <= now \/ lost[b]
              \/ \E s \in Requests : Excuses(req[s], b)
            BY <1>1, <1>3, <2>1, <2>3 DEF IInv, LoginSurvivesRotation, Excuses, Active
        <3>2. ~ Excuses(req[r], b)
            BY <1>3, <2>3 DEF Excuses
        <3> QED BY <1>4, <3>1, <3>2
    <2> QED BY <2>2, <2>3
<1> QED BY <1>6, <1>7, <1>8, <1>9, <1>10, <1>11, <1>12 DEF IInv

\* The rows the cleanup has locked go with its commit: their time is over.
LEMMA CommitCleanupStep == ASSUME IInv, NEW r \in Requests, CommitCleanup(r) PROVE IInv'
<1>1. /\ req[r] \in Request /\ req[r] # None /\ StageInv(req[r])
      /\ req[r].op = "cleanup" /\ req[r].stage = "commit"
      /\ stored' = stored \ req[r].locked /\ req' = [req EXCEPT ![r] = None]
      /\ UNCHANGED <<expires_at, now, cookie, csrf, wide, spent, lost>>
    BY DEF CommitCleanup, At, IInv, TypeOK, jars
<1>2. \A s \in Requests : req'[s] = IF s = r THEN None ELSE req[s]
    BY <1>1 DEF IInv, TypeOK
<1>3. stored' \subseteq stored /\ \A k \in stored : k \notin stored' => Over(k)
    BY <1>1 DEF StageInv
<1>4. TypeOK' /\ AllIssued' /\ Private' /\ Owned' /\ OneHolder'
    BY <1>1, <1>2, <1>3 DEF IInv, TypeOK, AllIssued, Issued, Private, Owned, OneHolder
<1>5. ASSUME NEW s \in Requests, req'[s] # None PROVE StageInv(req[s])'
    <2>1. s # r /\ req'[s] = req[s] /\ StageInv(req[s])
        BY <1>2, <1>5 DEF IInv
    <2>2. \A k \in req[s].locked : k \in stored'
        BY <1>1, <1>5, <2>1 DEF IInv, OneHolder, StageInv
    <2> QED BY <1>1, <1>3, <2>1, <2>2 DEF StageInv, Over
<1>6. LoginSurvivesRotation'
    <2>1. SUFFICES ASSUME NEW b \in Browsers, cookie[b] # None,
                          cookie[b] \notin stored' \/ spent[b]
                   PROVE  \/ expires_at[cookie[b]] <= now \/ lost[b]
                          \/ \E s \in Requests : Excuses(req'[s], b)
        BY <1>1 DEF LoginSurvivesRotation, Excuses, Active
    <2>2. CASE cookie[b] \in stored /\ ~ spent[b]
        BY <1>3, <2>1, <2>2 DEF Over
    <2>3. CASE cookie[b] \notin stored \/ spent[b]
        <3>1. \/ expires_at[cookie[b]] <= now \/ lost[b]
              \/ \E s \in Requests : Excuses(req[s], b)
            BY <2>1, <2>3 DEF IInv, LoginSurvivesRotation, Excuses, Active
        <3>2. ~ Excuses(req[r], b)
            BY <1>1 DEF Excuses, PastCognito
        <3> QED BY <1>2, <3>1, <3>2
    <2> QED BY <2>2, <2>3
<1> QED BY <1>4, <1>5, <1>6 DEF IInv

-----------------------------------------------------------------------------
(* Replies and the clock *)

\* What a reply delivers is in the store or over, and nobody else knows it.
LEMMA DeliverStep == ASSUME IInv, NEW r \in Requests, Deliver(r) PROVE IInv'
<1>1. /\ req[r] \in Request /\ req[r] # None /\ req[r].stage = "reply" /\ StageInv(req[r])
      /\ req[r].op \in {"store", "refresh", "clear"} /\ req[r].browser \in Browsers
      /\ cookie' = [cookie EXCEPT ![req[r].browser] = req[r].new]
      /\ spent' = [spent EXCEPT ![req[r].browser] = FALSE]
      /\ lost' = [lost EXCEPT ![req[r].browser] = FALSE]
      /\ req' = [req EXCEPT ![r] = None]
      /\ UNCHANGED <<stored, expires_at, now, wide>>
    BY DEF Deliver, At, IInv, TypeOK, StageInv, db
<1>2. PICK b \in Browsers, k \in Keys \cup {None} : b = req[r].browser /\ k = req[r].new
    BY <1>1 DEF Request
<1>3. /\ cookie \in [Browsers -> Keys \cup {None}]
      /\ \A c \in Browsers : cookie'[c] = IF c = b THEN k ELSE cookie[c]
    BY <1>1, <1>2 DEF IInv, TypeOK
<1>4. \A s \in Requests : req'[s] = IF s = r THEN None ELSE req[s]
    BY <1>1 DEF IInv, TypeOK
<1>5. /\ spent' \in [Browsers -> BOOLEAN] /\ lost' \in [Browsers -> BOOLEAN]
      /\ ~ spent'[b]
      /\ \A c \in Browsers \ {b} : spent'[c] = spent[c] /\ lost'[c] = lost[c]
    BY <1>1, <1>2 DEF IInv, TypeOK
<1>6. TypeOK'
    <2>1. csrf' \in [Browsers -> BOOLEAN]
        <3>1. PICK v \in BOOLEAN : csrf' = [csrf EXCEPT ![b] = v]
            <4>1. csrf[b] \in BOOLEAN
                BY DEF IInv, TypeOK
            <4> QED BY <1>1, <1>2, <4>1 DEF Deliver
        <3> QED BY <3>1 DEF IInv, TypeOK
    <2>2. cookie' \in [Browsers -> Keys \cup {None}]
        BY <1>1, <1>2, <1>3
    <2>3. req' \in [Requests -> Request \cup {None}]
        BY <1>1 DEF IInv, TypeOK
    <2> QED BY <1>1, <1>4, <1>5, <2>1, <2>2, <2>3 DEF IInv, TypeOK
<1>7. AllIssued'
    BY <1>1, <1>2, <1>3, <1>4 DEF IInv, AllIssued, Issued
<1>8. \A s \in Requests : req'[s] # None => StageInv(req[s])'
    BY <1>1, <1>4 DEF IInv, StageInv, Over
<1>9. Private'
    BY <1>1, <1>2, <1>3, <1>4 DEF IInv, Private
<1>10. Owned'
    BY <1>1, <1>2, <1>3, <1>4 DEF IInv, Owned, Private
<1>11. OneHolder'
    BY <1>4 DEF IInv, OneHolder
<1>12. LoginSurvivesRotation'
    <2>1. SUFFICES ASSUME NEW c \in Browsers, NEW j \in Keys, j = cookie'[c],
                          j \notin stored \/ spent'[c]
                   PROVE  \/ expires_at[j] <= now \/ lost'[c]
                          \/ \E s \in Requests : Excuses(req[s], c)'
        BY <1>1, <1>6 DEF LoginSurvivesRotation, TypeOK, Excuses, Active
    <2>2. CASE c = b
        BY <1>1, <1>2, <1>3, <1>5, <2>1, <2>2, NoneIsNoKey DEF StageInv, Over
    <2>3. CASE c # b
        <3>1. cookie[c] = j /\ cookie'[c] = cookie[c]
            BY <1>3, <2>1, <2>3
        <3>2. \/ expires_at[j] <= now \/ lost[c]
              \/ \E s \in Requests : Excuses(req[s], c)
            BY <1>5, <2>1, <2>3, <3>1, NoneIsNoKey
            DEF IInv, LoginSurvivesRotation, Excuses, Active
        <3>3. ~ Excuses(req[r], c)
            BY <1>2, <2>3 DEF Excuses
        <3>4. \A s \in Requests : Excuses(req[s], c) => Excuses(req[s], c)'
            BY <1>4, <3>1, <3>3 DEF Excuses, PastCognito
        <3> QED BY <1>5, <2>3, <3>2, <3>4
    <2> QED BY <2>2, <2>3
<1> QED BY <1>6, <1>7, <1>8, <1>9, <1>10, <1>11, <1>12 DEF IInv

\* That a reply is lost is noted.
LEMMA LoseReplyStep == ASSUME IInv, NEW r \in Requests, LoseReply(r) PROVE IInv'
<1>1. /\ req[r] # None /\ req' = [req EXCEPT ![r] = None] /\ lost' = Mark(lost, req[r])
      /\ UNCHANGED <<stored, expires_at, now, cookie, csrf, wide, spent>>
    BY DEF LoseReply, At, db, jars
<1>2. /\ spent' \in [Browsers -> BOOLEAN] /\ lost' \in [Browsers -> BOOLEAN]
      /\ \A b \in Browsers : lost[b] => lost'[b]
      /\ \A b \in Browsers : cookie[b] # None /\ Excuses(req[r], b) => lost'[b]
    BY <1>1 DEF IInv, TypeOK, Mark, Excuses
<1> QED BY <1>1, <1>2, RequestStep

\* What is over stays over.
LEMMA TickStep == ASSUME IInv, Tick PROVE IInv'
<1>1. /\ now' = now + 1 /\ now < MaxTime
      /\ UNCHANGED <<stored, expires_at, cookie, csrf, wide, req, spent, lost>>
    BY DEF Tick, db, jars
<1>2. /\ expires_at \in [Keys -> 0 .. MaxTime + MaxAge] /\ now \in 0 .. MaxTime
      /\ MaxTime \in Nat /\ MaxAge \in Nat
    BY Ages DEF IInv, TypeOK, Time, Deadlines
<1>3. \A k \in Keys : expires_at[k] <= now => expires_at[k] <= now'
    BY <1>1, <1>2
<1>4. TypeOK'
    <2>1. now' \in Time
        BY <1>1, <1>2 DEF Time
    <2> QED BY <1>1, <2>1 DEF IInv, TypeOK
<1>5. AllIssued' /\ Private' /\ Owned' /\ OneHolder'
    BY <1>1 DEF IInv, AllIssued, Issued, Private, Owned, OneHolder
<1>6. \A r \in Requests : req'[r] # None => StageInv(req[r])'
    <2>1. SUFFICES ASSUME NEW r \in Requests, req[r] # None PROVE StageInv(req[r])'
        BY <1>1
    <2>2. StageInv(req[r]) /\ req[r] \in Request
        BY <2>1 DEF IInv, TypeOK
    <2>3. \A k \in req[r].locked \cup req[r].todo : Over(k)'
        BY <1>1, <1>3, <2>2 DEF StageInv, Over, Request
    <2>4. req[r].new # None => req[r].new \in stored' \/ Over(req[r].new)'
        BY <1>1, <1>3, <2>2 DEF StageInv, Over, Request
    <2> QED BY <1>1, <2>2, <2>3, <2>4 DEF StageInv
<1>7. LoginSurvivesRotation'
    BY <1>1, <1>3 DEF IInv, LoginSurvivesRotation, Active, PastCognito, TypeOK
<1> QED BY <1>4, <1>5, <1>6, <1>7 DEF IInv

-----------------------------------------------------------------------------
(* Theorems *)

\* Nothing is stored, sent or known at the start.
LEMMA InitIInv == Init => IInv
<1> SUFFICES ASSUME Init PROVE IInv
    OBVIOUS
<1>1. TypeOK
    BY Ages DEF Init, TypeOK, Time, Deadlines
<1> QED BY <1>1 DEF Init, IInv, AllIssued, Issued, StageInv, Private, Owned, OneHolder,
                    LoginSurvivesRotation

\* IInv holds in every reachable state.
LEMMA Invariance == Spec => []IInv
<1>1. ASSUME IInv, [Next]_vars PROVE IInv'
    <2>1. CASE UNCHANGED vars
        BY <1>1, <2>1 DEF vars, db, jars, IInv, TypeOK, AllIssued, Issued, StageInv, Over,
                          Private, Owned, OneHolder, LoginSurvivesRotation, Active, PastCognito
    <2>2. ASSUME NEW r \in Requests, Serve(r) PROVE IInv'
        BY <1>1, <2>2, PurgeExpiredStep, LockRowStep, LoadTokenStep, CallCognitoStep,
           StoreTokenStep, DeleteTokenStep, CommitCleanupStep DEF Serve
    <2>3. ASSUME NEW r \in Requests, Answer(r) PROVE IInv'
        BY <1>1, <2>3, DeliverStep, LoseReplyStep DEF Answer
    <2>4. ASSUME NEW r \in Requests, Abort(r) PROVE IInv'
        BY <1>1, <2>4, AbortStep
    <2> QED BY <1>1, <2>1, <2>2, <2>3, <2>4, BeginStep, TickStep DEF Next
<1> QED BY <1>1, InitIInv, PTL DEF Spec

\* Every reachable state has the types of TypeOK.
THEOREM TypeCorrect == Spec => []TypeOK
<1>1. IInv => TypeOK
    BY DEF IInv
<1> QED BY <1>1, Invariance, PTL

\* Only a refresh whose token Cognito has replaced costs, failing, a login.
THEOREM LoginSurvives == Spec => []LoginSurvivesRotation
<1>1. IInv => LoginSurvivesRotation
    BY DEF IInv
<1> QED BY <1>1, Invariance, PTL

\* What a step of the server leaves of its request: where it came from, and the
\* key it has stored.
Kept(r, q) ==
    /\ req' = [req EXCEPT ![r] = q]
    /\ q # None => /\ q.op = req[r].op /\ q.key = req[r].key
                   /\ q.browser = req[r].browser
                   /\ req[r].new # None => q.new = req[r].new
    /\ q = None => req[r].new = None

LEMMA Served ==
    ASSUME IInv, NEW r \in Requests, Serve(r)
    PROVE  UNCHANGED <<cookie, wide>> /\ req[r] # None /\ \E q : Kept(r, q)
<1> DEFINE me == req[r]
<1>1. me \in Request /\ me # None /\ StageInv(me)
    BY DEF Serve, PurgeExpired, LockRow, LoadToken, CallCognito, StoreToken, DeleteToken,
           CommitCleanup, At, IInv, TypeOK
<1>2. UNCHANGED <<cookie, wide>>
    BY DEF Serve, PurgeExpired, LockRow, LoadToken, CallCognito, StoreToken, DeleteToken,
           CommitCleanup, Exchanged, End, jars
<1>3. CASE PurgeExpired(r)
    <2> DEFINE q == [me EXCEPT !.todo  = Expired \ me.locked,
                               !.due   = IF me.stage = "load" THEN 0 ELSE now + MaxAge,
                               !.stage = IF me.stage = "load" THEN "select" ELSE "insert"]
    <2>1. q.op = me.op /\ q.key = me.key /\ q.browser = me.browser /\ q.new = me.new
        BY <1>1 DEF Request
    <2>2. req' = [req EXCEPT ![r] = q] /\ me.new = None
        BY <1>1, <1>3 DEF PurgeExpired, At, StageInv
    <2> HIDE DEF q
    <2> QED BY <1>1, <1>2, <2>1, <2>2 DEF Kept
<1>4. CASE LockRow(r)
    <2>1. PICK k \in me.todo :
             req' = [req EXCEPT ![r] = [me EXCEPT !.todo = me.todo \ {k},
                                                  !.locked = me.locked \cup ({k} \cap stored)]]
        BY <1>4 DEF LockRow
    <2> DEFINE q == [me EXCEPT !.todo = me.todo \ {k}, !.locked = me.locked \cup ({k} \cap stored)]
    <2>2. q.op = me.op /\ q.key = me.key /\ q.browser = me.browser /\ q.new = me.new
        BY <1>1 DEF Request
    <2>3. req' = [req EXCEPT ![r] = q]
        BY <2>1, Zenon
    <2>4. me.new = None
        BY <1>1, <2>1 DEF StageInv
    <2> HIDE DEF q
    <2> QED BY <1>1, <1>2, <2>2, <2>3, <2>4 DEF Kept
<1>5. CASE ((LoadToken(r) \/ CallCognito(r)) /\ req' = [req EXCEPT ![r] = None]) \/ CommitCleanup(r)
    <2>1. req' = [req EXCEPT ![r] = None] /\ me.new = None
        BY <1>1, <1>5 DEF LoadToken, CallCognito, CommitCleanup, At, StageInv
    <2> QED BY <1>1, <1>2, <2>1 DEF Kept
<1>6. ASSUME NEW stage \in Stages, req' = [req EXCEPT ![r].stage = stage]
      PROVE  \E q : Kept(r, q)
    <2> DEFINE q == [me EXCEPT !.stage = stage]
    <2>1. q.op = me.op /\ q.key = me.key /\ q.browser = me.browser /\ q.new = me.new
        BY <1>1 DEF Request
    <2>2. q \in Request
        BY <1>1 DEF Request
    <2>3. req' = [req EXCEPT ![r] = q] /\ q # None
        BY <1>6, <2>2, NoneIsNoRequest
    <2> HIDE DEF q
    <2> QED BY <2>1, <2>3 DEF Kept
<1>7. CASE (LoadToken(r) \/ CallCognito(r)) /\ req' # [req EXCEPT ![r] = None]
    <2>1. PICK stage \in Stages : req' = [req EXCEPT ![r].stage = stage]
        BY <1>7 DEF LoadToken, CallCognito, Exchanged, End, Stages
    <2> QED BY <1>1, <1>2, <1>6, <2>1
<1>8. CASE DeleteToken(r)
    <2>1. "reply" \in Stages
        BY DEF Stages
    <2> QED BY <1>1, <1>2, <1>6, <1>8, <2>1 DEF DeleteToken
<1>9. CASE StoreToken(r)
    <2>1. PICK k : req' = [req EXCEPT ![r] =
             [@ EXCEPT !.stage = IF req[r].op = "store" THEN "reply" ELSE "delete",
                       !.new = k, !.due = 0, !.locked = {}]]
        BY <1>9 DEF StoreToken
    <2> DEFINE q == [me EXCEPT !.stage = IF req[r].op = "store" THEN "reply" ELSE "delete",
                               !.new = k, !.due = 0, !.locked = {}]
    <2>2. q.op = me.op /\ q.key = me.key /\ q.browser = me.browser
        BY <1>1 DEF Request
    <2>3. req' = [req EXCEPT ![r] = q] /\ me.new = None
        BY <1>1, <1>9, <2>1 DEF StoreToken, At, StageInv
    <2> HIDE DEF q
    <2> QED BY <1>1, <1>2, <2>2, <2>3 DEF Kept
<1> QED BY <1>1, <1>2, <1>3, <1>4, <1>5, <1>7, <1>8, <1>9 DEF Serve

\* A live row is lost sight of only by an overlap, a new login or a failure.
THEOREM Orphans == Spec => OrphanedOnlyByOverlapOrLoss
<1> DEFINE Excused(k) ==
       \E r \in Requests :
          /\ req[r] # None /\ req'[r] = None
          /\ \/ req[r].new = k
             \/ req[r].op = "store"
             \/ /\ At(r, {"refresh", "clear"}, "reply")
                /\ cookie[req[r].browser] = k /\ req[r].key # k
<1>1. ASSUME IInv, [Next]_vars, NEW k \in stored \cap stored', Reachable(k), ~ Reachable(k)'
      PROVE  Excused(k)
    <2>1. k \in Keys /\ k # None
        BY <1>1, NoneIsNoKey DEF IInv, TypeOK
    <2>2. CASE \E b \in Browsers : cookie[b] = k
        <3>1. PICK b \in Browsers : cookie[b] = k /\ cookie'[b] # k
            BY <1>1, <2>2 DEF Reachable
        <3>2. PICK r \in Requests : Deliver(r)
            <4>1. cookie' # cookie
                BY <3>1
            <4>2. ASSUME NEW s \in Requests, Begins(s) \/ LoseReply(s) \/ Abort(s) PROVE FALSE
                BY <4>1, <4>2 DEF Begins, StartStore, StartRefresh, StartClear,
                      purge_expired_refresh_tokens, Begin, LoseReply, Abort, jars
            <4>3. ASSUME NEW s \in Requests, Serve(s) PROVE FALSE
                BY <1>1, <4>1, <4>3, Served
            <4> QED BY <1>1, <4>1, <4>2, <4>3 DEF Next, vars, jars, Answer, Tick
        <3>3. /\ req[r] # None /\ req[r].stage = "reply" /\ req'[r] = None
              /\ req[r].browser = b /\ req[r].op \in {"store", "refresh", "clear"}
            BY <1>1, <3>1, <3>2 DEF Deliver, At, IInv, TypeOK
        <3>4. req[r].key # k
            BY <1>1, <2>1, <3>3 DEF IInv, StageInv
        <3> QED BY <3>1, <3>3, <3>4 DEF At
    <2>3. CASE \E r \in Requests : req[r] # None /\ req[r].new = k
        <3>1. PICK r \in Requests : req[r] # None /\ req[r].new = k
            BY <2>3
        <3>2. CASE req'[r] = None
            BY <3>1, <3>2
        <3>3. CASE req'[r] # None
            <4>1. req[r] \in Request /\ req[r].stage \in {"delete", "reply"}
                BY <1>1, <2>1, <3>1 DEF IInv, TypeOK, StageInv
            <4>2. req'[r].new = k
                <5>1. ASSUME NEW s \in Requests, NEW q, Kept(s, q) PROVE req'[r].new = k
                    <6>1. req'[r] = IF s = r THEN q ELSE req[r]
                        BY <1>1, <5>1 DEF Kept, IInv, TypeOK
                    <6> QED BY <2>1, <3>1, <3>3, <5>1, <6>1 DEF Kept
                <5>2. ASSUME NEW s \in Requests, Serve(s) PROVE req'[r].new = k
                    <6>1. PICK q : Kept(s, q)
                        BY <1>1, <5>2, Served
                    <6> QED BY <5>1, <6>1
                <5>3. ASSUME NEW s \in Requests, Begins(s) \/ Answer(s) \/ Abort(s)
                      PROVE  req'[r].new = k
                    <6>1. req[s] = None \/ req'[s] = None
                        BY <1>1, <5>3 DEF Begins, StartStore, StartRefresh, StartClear,
                              purge_expired_refresh_tokens, Begin, Answer, Deliver, LoseReply,
                              Abort, IInv, TypeOK
                    <6>2. s # r /\ \E v : req' = [req EXCEPT ![s] = v]
                        BY <3>1, <3>3, <5>3, <6>1 DEF Begins, StartStore, StartRefresh,
                              StartClear, purge_expired_refresh_tokens, Begin, Answer, Deliver,
                              LoseReply, Abort
                    <6>3. req'[r] = req[r]
                        BY <1>1, <6>2 DEF IInv, TypeOK
                    <6> QED BY <3>1, <6>3
                <5>4. CASE req' = req
                    BY <3>1, <5>4
                <5> QED BY <1>1, <5>2, <5>3, <5>4 DEF Next, vars, Tick
            <4> QED BY <1>1, <3>1, <3>3, <4>2 DEF Reachable
        <3> QED BY <3>2, <3>3
    <2> QED BY <1>1, <2>2, <2>3 DEF Reachable
<1>2. IInv /\ [Next]_vars =>
         [\A k \in stored \cap stored' : Reachable(k) /\ ~ Reachable(k)' => Excused(k)]_vars
    BY <1>1
<1> QED BY <1>2, Invariance, PTL DEF Spec, OrphanedOnlyByOverlapOrLoss

-----------------------------------------------------------------------------
(* One request per browser at a time *)

\* No browser has two requests in flight.
OneTab ==
    \A r, s \in Requests :
        /\ req[r] # None /\ req[r].op # "cleanup"
        /\ req[s] # None /\ req[s].op # "cleanup"
        /\ req[r].browser = req[s].browser
        => r = s

\* Then, if the cookie's path covers /cookie too, a request carries the cookie
\* its browser still has when the reply comes.
Carries ==
    /\ wide
    /\ \A r \in Requests :
          req[r] # None /\ req[r].op \in {"refresh", "clear"} =>
             req[r].key = cookie[req[r].browser]

\* A request goes on with the cookie it came with.
LEMMA CarriesOn ==
    ASSUME IInv, Carries, NEW r \in Requests, NEW q, req' = [req EXCEPT ![r] = q],
           UNCHANGED <<cookie, wide>>,
           q # None /\ q.op \in {"refresh", "clear"} => q.key = cookie[q.browser]
    PROVE  Carries'
<1>1. \A s \in Requests : req'[s] = IF s = r THEN q ELSE req[s]
    BY DEF IInv, TypeOK
<1> QED BY <1>1 DEF Carries

\* What the server does changes nothing of that.
LEMMA CarriesServed == ASSUME IInv, Carries, NEW r \in Requests, Serve(r) PROVE Carries'
<1>1. UNCHANGED <<cookie, wide>> /\ req[r] # None
    BY Served
<1>2. PICK q : Kept(r, q)
    BY Served
<1>3. q # None /\ q.op \in {"refresh", "clear"} => q.key = cookie[q.browser]
    BY <1>1, <1>2 DEF Carries, Kept
<1> QED BY <1>1, <1>2, <1>3, CarriesOn DEF Kept

\* A reply changes the cookie of its browser, which has no other request in
\* flight.
LEMMA CarriesAnswered ==
    ASSUME IInv, Carries, OneTab, NEW r \in Requests, Answer(r)
    PROVE  Carries'
<1>1. CASE LoseReply(r)
    BY <1>1, CarriesOn DEF LoseReply, jars
<1>2. CASE Deliver(r)
    <2>1. /\ req[r] # None /\ req' = [req EXCEPT ![r] = None] /\ wide' = wide
          /\ cookie' = [cookie EXCEPT ![req[r].browser] = req[r].new]
          /\ req[r].op # "cleanup"
        BY <1>2 DEF Deliver, At
    <2>2. ASSUME NEW s \in Requests, req'[s] # None, req'[s].op \in {"refresh", "clear"}
          PROVE  req'[s].key = cookie'[req'[s].browser]
        <3>1. s # r /\ req'[s] = req[s] /\ req[s] \in Request
            BY <2>1, <2>2 DEF IInv, TypeOK
        <3>2. req[s].browser # req[r].browser
            BY <2>1, <2>2, <3>1 DEF OneTab
        <3>3. req[s].browser \in Browsers
            BY <2>2, <3>1 DEF IInv, StageInv
        <3>4. cookie'[req[s].browser] = cookie[req[s].browser]
            BY <2>1, <3>2, <3>3 DEF IInv, TypeOK
        <3> QED BY <2>2, <3>1, <3>4 DEF Carries
    <2> QED BY <2>1, <2>2 DEF Carries
<1> QED BY <1>1, <1>2 DEF Answer

\* It is so for as long as no browser has two requests in flight.
LEMMA CarriesInvariance == Spec /\ wide /\ []OneTab => []Carries
<1>1. Init /\ wide => Carries
    BY DEF Init, Carries
<1>2. ASSUME IInv, Carries, OneTab, [Next]_vars PROVE Carries'
    <2>1. CASE UNCHANGED <<cookie, wide, req>>
        BY <1>2, <2>1 DEF Carries
    <2>2. ASSUME NEW r \in Requests, Begins(r) PROVE Carries'
        <3>1. ASSUME NEW op, NEW stage, NEW b, NEW key, NEW todo,
                     Begin(r, op, stage, b, key, todo),
                     op \in {"refresh", "clear"} => key = cookie[b]
              PROVE  Carries'
            <4>1. PICK q : q = [op |-> op, stage |-> stage, browser |-> b, key |-> key,
                                new |-> None, due |-> 0, todo |-> todo, locked |-> {}]
                OBVIOUS
            <4>2. req' = [req EXCEPT ![r] = q] /\ UNCHANGED <<cookie, wide>>
                BY <3>1, <4>1 DEF Begin, jars
            <4>3. q.op \in {"refresh", "clear"} => q.key = cookie[q.browser]
                BY <3>1, <4>1
            <4> QED BY <1>2, <4>2, <4>3, CarriesOn
        <3>2. CASE purge_expired_refresh_tokens(r)
            BY <3>1, <3>2 DEF purge_expired_refresh_tokens
        <3>3. ASSUME NEW b \in Browsers, StartStore(r, b) \/ StartRefresh(r, b) \/ StartClear(r, b)
              PROVE  Carries'
            BY <1>2, <3>1, <3>3 DEF StartStore, StartRefresh, StartClear, Carries
        <3> QED BY <2>2, <3>2, <3>3 DEF Begins
    <2>3. ASSUME NEW r \in Requests, Abort(r) PROVE Carries'
        BY <1>2, <2>3, CarriesOn DEF Abort, jars
    <2> QED BY <1>2, <2>1, <2>2, <2>3, CarriesServed, CarriesAnswered
            DEF Next, vars, jars, Tick
<1>3. IInv /\ Carries /\ OneTab /\ [Next]_vars => Carries'
    BY <1>2
<1> QED BY <1>1, <1>3, Invariance, PTL DEF Spec

\* "Clear HttpOnly refresh cookie server-side": a logout leaves no row behind,
\* if the cookie goes to /cookie and no browser has two requests in flight.
THEOREM SerialLogout == Spec /\ wide /\ []OneTab => ClearedIsRevoked
<1>1. ASSUME IInv, Carries, NEW r \in Requests, At(r, {"clear"}, "reply")
      PROVE  cookie[req[r].browser] \notin stored
    <2>1. /\ req[r] # None /\ req[r].op = "clear" /\ req[r].stage = "reply" /\ StageInv(req[r])
        BY <1>1 DEF At, IInv
    <2>2. req[r].key = cookie[req[r].browser]
        BY <1>1, <2>1 DEF Carries
    <2> QED BY <1>1, <2>1, <2>2, NoneIsNoKey DEF StageInv, IInv, TypeOK
<1>2. IInv /\ Carries =>
        [\A r \in Requests :
          At(r, {"clear"}, "reply") /\ req'[r] = None /\ cookie' # cookie
             => cookie[req[r].browser] \notin stored]_vars
    BY <1>1
<1> QED BY <1>2, Invariance, CarriesInvariance, PTL DEF ClearedIsRevoked

\* And then the only rows that no browser can name are those of a login that
\* another login replaces and those of a reply that failed or was lost.
THEOREM SerialOrphans ==
    Spec /\ wide /\ []OneTab =>
        [][\A k \in stored \cap stored' : Reachable(k) /\ ~ Reachable(k)' =>
              \E r \in Requests :
                 /\ req[r] # None /\ req'[r] = None
                 /\ req[r].new = k \/ req[r].op = "store"]_vars
<1>1. /\ Carries
      /\ [\A k \in stored \cap stored' : Reachable(k) /\ ~ Reachable(k)' =>
          \E r \in Requests :
             /\ req[r] # None /\ req'[r] = None
             /\ \/ req[r].new = k
                \/ req[r].op = "store"
                \/ /\ At(r, {"refresh", "clear"}, "reply")
                   /\ cookie[req[r].browser] = k /\ req[r].key # k]_vars
      => [\A k \in stored \cap stored' : Reachable(k) /\ ~ Reachable(k)' =>
              \E r \in Requests :
                 /\ req[r] # None /\ req'[r] = None
                 /\ req[r].new = k \/ req[r].op = "store"]_vars
    BY DEF Carries, At
<1> QED BY <1>1, CarriesInvariance, Orphans, PTL DEF OrphanedOnlyByOverlapOrLoss
=============================================================================
