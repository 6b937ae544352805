-------------------------- MODULE JwksCacheProofs --------------------------
(***************************************************************************)
(* What holds of JwksCache for any keys, any number of verifications, any  *)
(* TTL and any MaxTime.                                                    *)
(*                                                                         *)
(* That every verification is answered rests on fairness and is left to    *)
(* TLC; that one of them can always go on does not, and is proved from     *)
(* what holds of the locks, their queue and the event loop.  What is said  *)
(* of keys rests on what the snapshot and the replies under way can be     *)
(* relied on to list: nothing withdrawn before Cognito gave them, which a  *)
(* snapshot's delay puts before its fetched_at, and every key a            *)
(* verification is sure of.                                                *)
(***************************************************************************)
EXTENDS JwksCache, TLAPS

\* Withdrawn no earlier than the delay before that time, if at all.
GoodBy(k, time, delay) ==
    k \in published \/ (withdrawn[k] # None /\ withdrawn[k] + delay >= time)

\* The verification's kid has been listed all along, and its invalidation took.
Sure(r) == req[r].retried /\ ~ req[r].late /\ req[r].listed

SnapshotInv ==
    /\ snapshot.fetched_at <= now
    /\ snapshot.jwks # None => \A k \in snapshot.jwks :
          GoodBy(k, snapshot.fetched_at, snapshot.delay)

RepliesInv ==
    \A s \in Requests : req[s].stage = "store" =>
        /\ req[s].at <= now
        /\ \A k \in req[s].got : GoodBy(k, req[s].at, 0)
        /\ \A r \in Requests : Sure(r) => req[r].kid \in req[s].got
        /\ req[s].listed => req[s].kid \in req[s].got

ListedInv == \A r \in Requests : req[r].listed => req[r].kid \in published

\* A verification that is sure finds its kid or fetches.
SureInv ==
    \A r \in Requests : Sure(r) =>
        \/ snapshot.jwks # None /\ req[r].kid \in snapshot.jwks
        \/ snapshot.fetched_at = 0 /\ now >= TTL

IInv == TypeOK /\ SnapshotInv /\ RepliesInv /\ ListedInv /\ SureInv

-----------------------------------------------------------------------------
\* At the start there is no snapshot and no verification.
LEMMA Initially == Init => IInv
<1> SUFFICES ASSUME Init PROVE IInv
    OBVIOUS
<1>1. Blank("idle") \in Verification /\ Blank("idle").stage = "idle"
      /\ Blank("idle").retried = FALSE /\ Blank("idle").listed = FALSE
    BY Times DEF Blank, Verification, Stages
<1>2. TypeOK
    BY <1>1, Times DEF Init, TypeOK
<1>3. SnapshotInv
    BY Times DEF Init, SnapshotInv
<1>4. RepliesInv /\ ListedInv /\ SureInv
    BY <1>1 DEF Init, RepliesInv, ListedInv, SureInv, Sure
<1> QED BY <1>2, <1>3, <1>4 DEF IInv

\* What becomes of a verification that decodes its token.
LEMMA Decoded ==
    ASSUME TypeOK, NEW r \in Requests, NEW keys \in SUBSET Kids, Decode(r, req[r], keys)
    PROVE  /\ req' \in [Requests -> Verification]
           /\ \A q \in Requests \ {r} : req'[q] = req[q]
           /\ req'[r].stage # "store"
           /\ req'[r].stage = "accepted" => req[r].kid \in keys
           /\ req'[r].stage = "no_key" => req[r].kid \notin keys /\ req[r].retried
           /\ req'[r].listed => req[r].listed /\ req'[r].kid = req[r].kid
           /\ Sure(r)' => Sure(r)
<1>1. req \in [Requests -> Verification] /\ req[r] \in Verification
    BY DEF TypeOK
<1>2. PICK stage \in NextStage(req[r], keys) :
         req' = [req EXCEPT ![r] = IF stage \in Answers THEN Blank(stage)
                                   ELSE [req[r] EXCEPT !.stage = stage, !.got = {}, !.at = 0]]
    BY DEF Decode
<1>3. /\ stage \in {"accepted", "rejected"} => req[r].kid \in keys
      /\ stage = "no_key" => req[r].kid \notin keys /\ req[r].retried
      /\ stage \in {"accepted", "rejected", "no_key", "invalidate"}
    BY DEF NextStage
<1>4. \A q \in Requests \ {r} : req'[q] = req[q]
    BY <1>1, <1>2
<1>5. CASE stage \in Answers
    <2>1. req'[r] = Blank(stage)
        BY <1>1, <1>2, <1>5
    <2>2. /\ Blank(stage) \in Verification /\ Blank(stage).stage = stage
          /\ Blank(stage).retried = FALSE /\ Blank(stage).listed = FALSE
        BY <1>5, Times DEF Blank, Verification
    <2>3. req' \in [Requests -> Verification]
        BY <1>1, <1>2, <1>5, <2>2
    <2> QED BY <1>3, <1>4, <2>1, <2>2, <2>3 DEF Sure
<1>6. CASE stage \notin Answers
    <2>1. stage = "invalidate"
        BY <1>3, <1>6 DEF Answers
    <2>2. req'[r] = [req[r] EXCEPT !.stage = stage, !.got = {}, !.at = 0]
        BY <1>1, <1>2, <1>6
    <2>3. /\ req'[r] \in Verification /\ req'[r].stage = "invalidate"
          /\ req'[r].listed = req[r].listed /\ req'[r].kid = req[r].kid
          /\ req'[r].retried = req[r].retried /\ req'[r].late = req[r].late
        <3>1. 0 \in 0 .. MaxTime
            BY Times
        <3>2. {} \in SUBSET Kids /\ stage \in Stages \cup Answers
            BY <2>1 DEF Stages
        <3> QED BY <1>1, <2>1, <2>2, <3>1, <3>2 DEF Verification
    <2>4. req' \in [Requests -> Verification]
        BY <1>1, <1>2, <1>6, <2>2, <2>3
    <2> QED BY <1>3, <1>4, <2>1, <2>3, <2>4 DEF Sure
<1> QED BY <1>5, <1>6

\* A snapshot that is not stale has keys.
LEMMA NotStale ==
    ASSUME TypeOK, ~ IsStale
    PROVE  /\ snapshot.jwks # None /\ snapshot.jwks \in SUBSET Kids
           /\ now - snapshot.fetched_at < TTL
<1>1. /\ snapshot.jwks \in {None} \cup SUBSET Kids
      /\ now \in Nat /\ snapshot.fetched_at \in Nat /\ TTL \in Nat
    BY Times DEF TypeOK
<1> QED BY <1>1 DEF IsStale

\* Types.
LEMMA TypeStep == IInv /\ [Next]_vars => TypeOK'
<1> SUFFICES ASSUME IInv, TypeOK, [Next]_vars PROVE TypeOK'
    BY DEF IInv
<1>1. CASE UNCHANGED vars
    BY <1>1 DEF vars, TypeOK
<1>2. CASE Tick
    BY <1>2, Times DEF Tick, TypeOK
<1>3. CASE Rotate
    <2>1. PICK keys \in SUBSET Kids :
             /\ published' = keys
             /\ withdrawn' = [k \in Kids |-> IF k \in published \ keys THEN now ELSE withdrawn[k]]
             /\ req' = [r \in Requests |-> [req[r] EXCEPT !.listed = @ /\ req[r].kid \in keys]]
        BY <1>3 DEF Rotate
    <2>2. \A r \in Requests :
             [req[r] EXCEPT !.listed = @ /\ req[r].kid \in keys] \in Verification
        BY DEF TypeOK, Verification
    <2>3. req' \in [Requests -> Verification]
        BY <2>1, <2>2
    <2>4. withdrawn' \in [Kids -> {None} \cup 0 .. MaxTime]
        BY <2>1 DEF TypeOK
    <2> QED BY <1>3, <2>1, <2>3, <2>4 DEF Rotate, TypeOK
<1>4. ASSUME NEW r \in Requests, NEW kid \in Kids, Start(r, kid) PROVE TypeOK'
    <2>1. [Blank("get") EXCEPT !.kid = kid, !.listed = kid \in published] \in Verification
        <3>1. Blank("get") \in Verification /\ (kid \in published) \in BOOLEAN
            BY Times DEF Blank, Verification, Stages
        <3> QED BY <3>1 DEF Verification
    <2> QED BY <1>4, <2>1 DEF Start, TypeOK
<1>5. ASSUME NEW r \in Requests, NEW stage \in Stages
      PROVE  [req EXCEPT ![r].stage = stage] \in [Requests -> Verification]
    <2>1. [req[r] EXCEPT !.stage = stage] \in Verification
        BY DEF TypeOK, Verification
    <2> QED BY <2>1 DEF TypeOK
<1>6. ASSUME NEW r \in Requests, Look(r) PROVE TypeOK'
    <2>1. CASE IsStale
        <3>1. req' \in [Requests -> Verification]
            BY <1>5, <1>6, <2>1 DEF Look, Stages
        <3>2. queue' \in Seq(Tasks)
            <4>1. queue \in Seq(Tasks) /\ queue' = IF r \in Tasks THEN Append(queue, r) ELSE queue
                BY <1>6, <2>1 DEF Look, TypeOK
            <4> QED BY <4>1
        <3> QED BY <1>6, <3>1, <3>2 DEF Look, TypeOK
    <2>2. CASE ~ IsStale
        BY <1>6, <2>2, NotStale, Decoded DEF Look, TypeOK
    <2> QED BY <2>1, <2>2
<1>7. ASSUME NEW r \in Requests, LookAgain(r) PROVE TypeOK'
    <2>1. queue' \in Seq(Tasks)
        <3>1. queue \in Seq(Tasks)
            BY DEF TypeOK
        <3>2. CASE r \in Tasks
            <4>1. queue # <<>> /\ queue' = Tail(queue)
                BY <1>7, <3>2 DEF LookAgain
            <4> QED BY <3>1, <4>1
        <3>3. CASE r \notin Tasks
            BY <1>7, <3>1, <3>3 DEF LookAgain
        <3> QED BY <3>2, <3>3
    <2>2. CASE IsStale
        <3>1. req' \in [Requests -> Verification]
            BY <1>5, <1>7, <2>2 DEF LookAgain, Stages
        <3>2. lock' \in [Locks -> Requests \cup {None}]
            BY <1>7, <2>2 DEF LookAgain, TypeOK
        <3> QED BY <1>7, <2>1, <3>1, <3>2 DEF LookAgain, TypeOK
    <2>3. CASE ~ IsStale
        BY <1>7, <2>1, <2>3, NotStale, Decoded DEF LookAgain, TypeOK
    <2> QED BY <2>2, <2>3
<1>8. ASSUME NEW r \in Requests, Release(r) PROVE lock' \in [Locks -> Requests \cup {None}]
    BY <1>8 DEF Release, TypeOK
<1>9. ASSUME NEW r \in Requests, Store(r) PROVE TypeOK'
    <2>1. /\ req[r].got \in SUBSET Kids /\ req[r].at \in 0 .. MaxTime
          /\ req[r].stage = "store" /\ now \in 0 .. MaxTime
        BY <1>9 DEF Store, TypeOK, Verification
    <2>2. now - req[r].at \in 0 .. MaxTime
        BY <2>1, Times DEF IInv, RepliesInv
    <2>3. snapshot' \in [ jwks : {None} \cup SUBSET Kids, fetched_at : 0 .. MaxTime,
                          delay : 0 .. MaxTime ]
        BY <1>9, <2>1, <2>2 DEF Store
    <2> QED BY <1>8, <1>9, <2>1, <2>3, Decoded DEF Store, TypeOK
<1>10. ASSUME NEW r \in Requests, FetchFailed(r) PROVE TypeOK'
    <2>1. CASE snapshot.jwks # None /\ Decode(r, req[r], snapshot.jwks)
        <3>1. snapshot.jwks \in SUBSET Kids
            BY <2>1 DEF TypeOK
        <3> QED BY <1>8, <1>10, <2>1, <3>1, Decoded DEF FetchFailed, TypeOK
    <2>2. CASE req' = [req EXCEPT ![r] = Blank("rejected")]
        <3>1. Blank("rejected") \in Verification
            BY Times DEF Blank, Verification, Answers
        <3> QED BY <1>8, <1>10, <2>2, <3>1 DEF FetchFailed, TypeOK
    <2> QED BY <1>10, <2>1, <2>2 DEF FetchFailed
<1>11. ASSUME NEW r \in Requests, FetchAnswered(r) PROVE TypeOK'
    <2>1. [req[r] EXCEPT !.stage = "store", !.got = published, !.at = now] \in Verification
        BY DEF TypeOK, Verification, Stages
    <2> QED BY <1>11, <2>1 DEF FetchAnswered, TypeOK
<1>12. ASSUME NEW r \in Requests, Invalidate(r) PROVE TypeOK'
    <2>1. [req[r] EXCEPT !.stage = "get", !.retried = TRUE,
                         !.late = Fetching # {} \/ now < TTL] \in Verification
        BY DEF TypeOK, Verification, Stages
    <2>2. [snapshot EXCEPT !.fetched_at = 0]
             \in [ jwks : {None} \cup SUBSET Kids, fetched_at : 0 .. MaxTime,
                   delay : 0 .. MaxTime ]
        <3>1. snapshot \in [ jwks : {None} \cup SUBSET Kids, fetched_at : 0 .. MaxTime,
                             delay : 0 .. MaxTime ]
            BY DEF TypeOK
        <3>2. 0 \in 0 .. MaxTime
            BY Times
        <3> QED BY <3>1, <3>2
    <2> QED BY <1>12, <2>1, <2>2 DEF Invalidate, TypeOK
<1> QED BY <1>1, <1>2, <1>3, <1>4, <1>6, <1>7, <1>9, <1>10, <1>11, <1>12 DEF Next, Continue

\* What of the invariant a step keeps that stores and rotates nothing: no reply
\* is new and no verification is surer, though time may pass.
LEMMA Quiet ==
    ASSUME IInv, UNCHANGED <<published, withdrawn, snapshot>>, now' \in Nat, now <= now',
           \A q \in Requests : req'[q].stage = "store" => req'[q] = req[q],
           \A q \in Requests : req'[q].listed => req'[q].kid \in published,
           \A q \in Requests : Sure(q)' => Sure(q) /\ req'[q].kid = req[q].kid
    PROVE  SnapshotInv' /\ RepliesInv' /\ ListedInv' /\ SureInv'
<1>1. /\ now \in Nat /\ TTL \in Nat /\ snapshot.fetched_at \in Nat
      /\ \A q \in Requests : req[q].at \in Nat
    BY Times DEF IInv, TypeOK, Verification
<1>2. SnapshotInv' /\ ListedInv' /\ SureInv'
    <2>1. SnapshotInv'
        BY <1>1 DEF IInv, SnapshotInv, GoodBy
    <2> QED BY <1>1, <2>1 DEF IInv, ListedInv, SureInv
<1>3. RepliesInv'
    <2> SUFFICES ASSUME NEW s \in Requests, req'[s].stage = "store"
                 PROVE  /\ req'[s].at <= now'
                        /\ \A k \in req'[s].got : GoodBy(k, req[s].at, 0)'
                        /\ \A r \in Requests : Sure(r)' => req'[r].kid \in req'[s].got
                        /\ req'[s].listed => req'[s].kid \in req'[s].got
        BY DEF RepliesInv
    <2>1. req'[s] = req[s]
        OBVIOUS
    <2>2. req'[s].at <= now'
        BY <1>1, <2>1 DEF IInv, RepliesInv
    <2> QED BY <2>1, <2>2 DEF IInv, RepliesInv, GoodBy
<1> QED BY <1>2, <1>3

\* A reply under way makes no key older: what it is sure to list, it lists.
LEMMA AnswerStep ==
    ASSUME IInv, TypeOK', NEW r \in Requests, FetchAnswered(r)
    PROVE  SnapshotInv' /\ RepliesInv' /\ ListedInv' /\ SureInv'
<1>1. /\ UNCHANGED <<published, withdrawn, now, snapshot>>
      /\ req \in [Requests -> Verification] /\ now \in Nat /\ TTL \in Nat
    BY Times DEF FetchAnswered, IInv, TypeOK
<1>2. req'[r] = [req[r] EXCEPT !.stage = "store", !.got = published, !.at = now]
    BY <1>1 DEF FetchAnswered
<1>3. /\ req'[r].stage = "store" /\ req'[r].got = published /\ req'[r].kid = req[r].kid
      /\ req'[r].at = now /\ req'[r].listed = req[r].listed /\ req'[r].retried = req[r].retried
      /\ req'[r].late = req[r].late
    BY <1>1, <1>2 DEF Verification
<1>4. \A q \in Requests \ {r} : req'[q] = req[q]
    BY <1>1 DEF FetchAnswered
<1>5. \A q \in Requests :
         /\ req'[q].kid = req[q].kid
         /\ req'[q].listed => req[q].listed
         /\ Sure(q)' => Sure(q)
    BY <1>3, <1>4 DEF Sure
<1>6. SnapshotInv' /\ ListedInv' /\ SureInv'
    <2>1. SnapshotInv'
        BY <1>1 DEF IInv, SnapshotInv, GoodBy
    <2>2. ListedInv'
        BY <1>1, <1>5 DEF IInv, ListedInv
    <2>3. SureInv'
        BY <1>1, <1>5 DEF IInv, SureInv
    <2> QED BY <2>1, <2>2, <2>3
<1>7. RepliesInv'
    <2> SUFFICES ASSUME NEW s \in Requests, req'[s].stage = "store"
                 PROVE  /\ req'[s].at <= now'
                        /\ \A k \in req'[s].got : GoodBy(k, req[s].at, 0)'
                        /\ \A q \in Requests : Sure(q)' => req'[q].kid \in req'[s].got
                        /\ req'[s].listed => req'[s].kid \in req'[s].got
        BY DEF RepliesInv
    <2>1. CASE s = r
        BY <1>1, <1>3, <1>5, <2>1 DEF IInv, ListedInv, Sure, GoodBy
    <2>2. CASE s # r
        BY <1>1, <1>4, <1>5, <2>2 DEF IInv, RepliesInv, GoodBy
    <2> QED BY <2>1, <2>2
<1> QED BY <1>6, <1>7

\* What is stored is as new as it says, but for its delay, and lists every kid
\* that is sure.
LEMMA StoreStep ==
    ASSUME IInv, NEW r \in Requests, Store(r)
    PROVE  SnapshotInv' /\ RepliesInv' /\ ListedInv' /\ SureInv'
<1>1. /\ UNCHANGED <<published, withdrawn, now>> /\ now \in Nat /\ TypeOK
      /\ req[r].stage = "store" /\ req[r].got \in SUBSET Kids /\ req[r].at \in Nat
      /\ \A k \in Kids : withdrawn[k] = None \/ withdrawn[k] \in Nat
    BY Times DEF Store, IInv, TypeOK, Verification
<1>2. /\ \A q \in Requests \ {r} : req'[q] = req[q]
      /\ req'[r].stage # "store"
      /\ req'[r].listed => req[r].listed /\ req'[r].kid = req[r].kid
      /\ Sure(r)' => Sure(r)
    BY <1>1, Decoded DEF Store
<1>3. \A q \in Requests : Sure(q)' => Sure(q) /\ req'[q].kid = req[q].kid
    BY <1>2 DEF Sure
<1>4. /\ snapshot'.jwks = req[r].got /\ snapshot'.fetched_at = now
      /\ snapshot'.delay = now - req[r].at
    BY DEF Store
<1>5. SnapshotInv'
    <2>1. ASSUME NEW k \in req[r].got
          PROVE  GoodBy(k, snapshot.fetched_at, snapshot.delay)'
        <3>1. GoodBy(k, req[r].at, 0) /\ k \in Kids
            BY <1>1, <2>1 DEF IInv, RepliesInv
        <3> QED BY <1>1, <1>4, <3>1 DEF GoodBy
    <2> QED BY <1>1, <1>4, <2>1 DEF SnapshotInv
<1>6. ListedInv'
    BY <1>1, <1>2 DEF IInv, ListedInv
<1>7. SureInv'
    <2>1. req[r].got # None
        BY <1>1, NoneIsNothing
    <2> QED BY <1>1, <1>3, <1>4, <2>1 DEF IInv, RepliesInv, SureInv
<1>8. RepliesInv'
    BY <1>1, <1>2, <1>3 DEF IInv, RepliesInv, GoodBy
<1> QED BY <1>5, <1>6, <1>7, <1>8

\* An invalidation that is not late: no reply is under way, the clock past the TTL.
LEMMA InvalidateStep ==
    ASSUME IInv, NEW r \in Requests, Invalidate(r)
    PROVE  SnapshotInv' /\ RepliesInv' /\ ListedInv' /\ SureInv'
<1>1. /\ UNCHANGED <<published, withdrawn, now>> /\ now \in Nat /\ TTL \in Nat
      /\ req \in [Requests -> Verification]
      /\ snapshot \in [ jwks : {None} \cup SUBSET Kids, fetched_at : 0 .. MaxTime,
                        delay : 0 .. MaxTime ]
      /\ withdrawn \in [Kids -> {None} \cup 0 .. MaxTime]
    BY Times DEF Invalidate, IInv, TypeOK
<1>2. /\ snapshot'.jwks = snapshot.jwks /\ snapshot'.fetched_at = 0
      /\ snapshot'.delay = snapshot.delay /\ snapshot.delay \in Nat
    BY <1>1 DEF Invalidate
<1>3. req'[r] = [req[r] EXCEPT !.stage = "get", !.retried = TRUE,
                               !.late = Fetching # {} \/ now < TTL]
    BY <1>1 DEF Invalidate
<1>4. /\ req'[r].stage = "get" /\ req'[r].kid = req[r].kid /\ req'[r].listed = req[r].listed
      /\ ~ req'[r].late => Fetching = {} /\ ~ (now < TTL)
    <2> DEFINE late == Fetching # {} \/ now < TTL
    <2>1. late \in BOOLEAN
        OBVIOUS
    <2> HIDE DEF late
    <2>2. req'[r] = [req[r] EXCEPT !.stage = "get", !.retried = TRUE, !.late = late]
        BY <1>3 DEF late
    <2>3. /\ req'[r].stage = "get" /\ req'[r].kid = req[r].kid
          /\ req'[r].listed = req[r].listed /\ req'[r].late = late
        BY <1>1, <2>1, <2>2 DEF Verification
    <2> QED BY <2>3 DEF late
<1>5. \A q \in Requests \ {r} : req'[q] = req[q]
    BY <1>1 DEF Invalidate
<1>6. SnapshotInv'
    <2>1. ASSUME NEW k \in Kids, withdrawn[k] # None PROVE withdrawn[k] + snapshot.delay >= 0
        BY <1>1, <1>2, <2>1, Times
    <2>2. snapshot'.jwks # None => snapshot'.jwks \subseteq Kids
        BY <1>1, <1>2
    <2> QED BY <1>1, <1>2, <2>1, <2>2 DEF IInv, SnapshotInv, GoodBy
<1>7. ListedInv'
    BY <1>1, <1>4, <1>5 DEF IInv, ListedInv
<1>8. Sure(r)' => Fetching = {} /\ now >= TTL
    BY <1>1, <1>4 DEF Sure
<1>9. \A q \in Requests \ {r} : Sure(q)' => Sure(q)
    BY <1>5 DEF Sure
<1>10. SureInv'
    BY <1>1, <1>2, <1>5, <1>8, <1>9 DEF IInv, SureInv
<1>11. RepliesInv'
    <2> SUFFICES ASSUME NEW s \in Requests, req'[s].stage = "store"
                 PROVE  /\ req'[s].at <= now'
                        /\ \A k \in req'[s].got : GoodBy(k, req[s].at, 0)'
                        /\ \A q \in Requests : Sure(q)' => req'[q].kid \in req'[s].got
                        /\ req'[s].listed => req'[s].kid \in req'[s].got
        BY DEF RepliesInv
    <2>1. s # r /\ req'[s] = req[s]
        BY <1>4, <1>5
    <2>2. s \in Fetching
        BY <2>1 DEF Fetching
    <2> QED BY <1>1, <1>5, <1>8, <1>9, <2>1, <2>2 DEF IInv, RepliesInv, GoodBy
<1> QED BY <1>6, <1>7, <1>10, <1>11

\* Cognito's rotation withdraws at the time it is, and makes nobody surer.
LEMMA RotateStep ==
    ASSUME IInv, Rotate
    PROVE  SnapshotInv' /\ RepliesInv' /\ ListedInv' /\ SureInv'
<1>1. /\ UNCHANGED <<now, snapshot>> /\ now \in Nat /\ snapshot.fetched_at \in Nat
      /\ snapshot.delay \in Nat /\ req \in [Requests -> Verification]
      /\ snapshot.jwks \in {None} \cup SUBSET Kids
    BY Times DEF Rotate, IInv, TypeOK
<1>2. PICK keys \in SUBSET Kids :
         /\ published' = keys
         /\ withdrawn' = [k \in Kids |-> IF k \in published \ keys THEN now ELSE withdrawn[k]]
         /\ req' = [r \in Requests |-> [req[r] EXCEPT !.listed = @ /\ req[r].kid \in keys]]
    BY DEF Rotate
<1>3. ASSUME NEW r \in Requests
      PROVE  /\ req'[r].stage = req[r].stage /\ req'[r].kid = req[r].kid
             /\ req'[r].got = req[r].got /\ req'[r].at = req[r].at
             /\ req'[r].retried = req[r].retried /\ req'[r].late = req[r].late
             /\ req'[r].listed => req[r].listed /\ req[r].kid \in keys
    BY <1>1, <1>2 DEF Verification
<1>4. \A r \in Requests : Sure(r)' => Sure(r)
    BY <1>3 DEF Sure
<1>5. ASSUME NEW k \in Kids, NEW time \in Nat, NEW delay \in Nat, time <= now,
             GoodBy(k, time, delay)
      PROVE  GoodBy(k, time, delay)'
    <2>1. now # None
        BY <1>1, NoneIsNothing
    <2> QED BY <1>1, <1>2, <1>5, <2>1 DEF GoodBy
<1>6. SnapshotInv'
    <2>1. snapshot'.fetched_at = snapshot.fetched_at /\ snapshot'.jwks = snapshot.jwks
          /\ snapshot'.delay = snapshot.delay
        BY <1>1
    <2>2. PICK time \in Nat, delay \in Nat :
             time = snapshot.fetched_at /\ delay = snapshot.delay
        BY <1>1
    <2>3. ASSUME snapshot.jwks # None, NEW k \in snapshot.jwks PROVE GoodBy(k, time, delay)'
        BY <1>1, <1>5, <2>2, <2>3 DEF IInv, SnapshotInv
    <2> QED BY <1>1, <2>1, <2>2, <2>3 DEF IInv, SnapshotInv, GoodBy
<1>7. ListedInv'
    BY <1>2, <1>3 DEF ListedInv
<1>8. SureInv'
    BY <1>1, <1>3, <1>4 DEF IInv, SureInv
<1>9. RepliesInv'
    <2> SUFFICES ASSUME NEW s \in Requests, req'[s].stage = "store"
                 PROVE  /\ req'[s].at <= now'
                        /\ \A k \in req'[s].got : GoodBy(k, req[s].at, 0)'
                        /\ \A q \in Requests : Sure(q)' => req'[q].kid \in req'[s].got
                        /\ req'[s].listed => req'[s].kid \in req'[s].got
        BY DEF RepliesInv
    <2>1. /\ req[s].stage = "store" /\ req[s].got \in SUBSET Kids
          /\ req[s].at \in 0 .. MaxTime
        BY <1>1, <1>3 DEF Verification
    <2>2. PICK time \in Nat : time = req[s].at /\ time <= now
        BY <2>1, Times DEF IInv, RepliesInv
    <2>3. ASSUME NEW k \in req[s].got PROVE GoodBy(k, time, 0)'
        <3>1. GoodBy(k, time, 0) /\ k \in Kids
            BY <2>1, <2>2, <2>3 DEF IInv, RepliesInv
        <3> QED BY <1>5, <2>2, <3>1
    <2>4. \A k \in req'[s].got : GoodBy(k, req[s].at, 0)'
        BY <1>3, <2>2, <2>3 DEF GoodBy
    <2> QED BY <1>1, <1>3, <1>4, <2>1, <2>2, <2>4 DEF IInv, RepliesInv
<1> QED BY <1>6, <1>7, <1>8, <1>9

\* Looking, and a fetch that fails, change what the verification itself knows.
LEMMA OwnStep ==
    ASSUME IInv, NEW r \in Requests, Look(r) \/ LookAgain(r) \/ FetchFailed(r)
    PROVE  SnapshotInv' /\ RepliesInv' /\ ListedInv' /\ SureInv'
<1>1. /\ UNCHANGED <<published, withdrawn, now, snapshot>>
      /\ req \in [Requests -> Verification] /\ now \in Nat /\ TypeOK
    BY Times DEF Look, LookAgain, FetchFailed, IInv, TypeOK
<1>2. ASSUME /\ \A q \in Requests \ {r} : req'[q] = req[q]
             /\ req'[r].stage # "store"
             /\ req'[r].listed => req[r].listed /\ req'[r].kid = req[r].kid
             /\ Sure(r)' => Sure(r)
      PROVE  SnapshotInv' /\ RepliesInv' /\ ListedInv' /\ SureInv'
    <2>1. \A q \in Requests : req'[q].stage = "store" => req'[q] = req[q]
        BY <1>1, <1>2
    <2>2. \A q \in Requests : req'[q].listed => req'[q].kid \in published
        BY <1>2 DEF IInv, ListedInv
    <2>3. \A q \in Requests : Sure(q)' => Sure(q) /\ req'[q].kid = req[q].kid
        BY <1>2 DEF Sure
    <2>4. now' \in Nat /\ now <= now'
        BY <1>1
    <2> QED BY <1>1, <2>1, <2>2, <2>3, <2>4, Quiet
<1>3. ASSUME NEW keys \in SUBSET Kids, Decode(r, req[r], keys)
      PROVE  SnapshotInv' /\ RepliesInv' /\ ListedInv' /\ SureInv'
    BY <1>1, <1>2, <1>3, Decoded
<1>4. ASSUME NEW stage \in {"wait", "fetch"}, req' = [req EXCEPT ![r].stage = stage]
      PROVE  SnapshotInv' /\ RepliesInv' /\ ListedInv' /\ SureInv'
    <2>1. /\ \A q \in Requests \ {r} : req'[q] = req[q]
          /\ req'[r] = [req[r] EXCEPT !.stage = stage]
        BY <1>1, <1>4
    <2>2. /\ req'[r].stage = stage /\ req'[r].listed = req[r].listed
          /\ req'[r].kid = req[r].kid /\ req'[r].retried = req[r].retried
          /\ req'[r].late = req[r].late
        BY <1>1, <2>1 DEF Verification
    <2> QED BY <1>2, <2>1, <2>2 DEF Sure
<1>5. CASE IsStale /\ (Look(r) \/ LookAgain(r))
    BY <1>4, <1>5 DEF Look, LookAgain
<1>6. CASE ~ IsStale /\ (Look(r) \/ LookAgain(r))
    BY <1>1, <1>3, <1>6, NotStale DEF Look, LookAgain
<1>7. CASE FetchFailed(r)
    <2>1. CASE snapshot.jwks # None /\ Decode(r, req[r], snapshot.jwks)
        BY <1>1, <1>3, <2>1 DEF TypeOK
    <2>2. CASE req' = [req EXCEPT ![r] = Blank("rejected")]
        <3>1. /\ req'[r].stage # "store" /\ ~ req'[r].listed /\ ~ req'[r].retried
              /\ \A q \in Requests \ {r} : req'[q] = req[q]
            BY <1>1, <2>2 DEF Blank
        <3> QED BY <1>2, <3>1 DEF Sure
    <2> QED BY <1>7, <2>1, <2>2 DEF FetchFailed
<1> QED BY <1>5, <1>6, <1>7

\* A verification begins sure of nothing; the clock makes no reply newer.
LEMMA StartOrTick ==
    ASSUME IInv, Tick \/ (\E r \in Requests, kid \in Kids : Start(r, kid))
    PROVE  SnapshotInv' /\ RepliesInv' /\ ListedInv' /\ SureInv'
<1>1. req \in [Requests -> Verification] /\ now \in Nat
    BY Times DEF IInv, TypeOK
<1>2. CASE Tick
    <2>1. /\ UNCHANGED <<published, withdrawn, snapshot, req>>
          /\ now' = now + 1
        BY <1>2 DEF Tick
    <2>2. \A q \in Requests : req'[q].stage = "store" => req'[q] = req[q]
        BY <2>1
    <2>3. \A q \in Requests : req'[q].listed => req'[q].kid \in published
        BY <2>1 DEF IInv, ListedInv
    <2>4. \A q \in Requests : Sure(q)' => Sure(q) /\ req'[q].kid = req[q].kid
        BY <2>1 DEF Sure
    <2>5. now' \in Nat /\ now <= now'
        BY <1>1, <2>1
    <2> QED BY <2>1, <2>2, <2>3, <2>4, <2>5, Quiet
<1>3. ASSUME NEW r \in Requests, NEW kid \in Kids, Start(r, kid)
      PROVE  SnapshotInv' /\ RepliesInv' /\ ListedInv' /\ SureInv'
    <2>1. /\ UNCHANGED <<published, withdrawn, snapshot, now>>
          /\ \A q \in Requests \ {r} : req'[q] = req[q]
          /\ req'[r] = [Blank("get") EXCEPT !.kid = kid, !.listed = kid \in published]
        BY <1>1, <1>3 DEF Start
    <2>2. /\ req'[r].stage = "get" /\ req'[r].kid = kid /\ ~ req'[r].retried
          /\ req'[r].listed => kid \in published
        BY <2>1 DEF Blank
    <2>3. \A q \in Requests : req'[q].stage = "store" => req'[q] = req[q]
        BY <2>1, <2>2
    <2>4. \A q \in Requests : req'[q].listed => req'[q].kid \in published
        BY <2>1, <2>2 DEF IInv, ListedInv
    <2>5. \A q \in Requests : Sure(q)' => Sure(q) /\ req'[q].kid = req[q].kid
        BY <2>1, <2>2 DEF Sure
    <2>6. now' \in Nat /\ now <= now'
        BY <1>1, <2>1
    <2> QED BY <2>1, <2>3, <2>4, <2>5, <2>6, Quiet
<1> QED BY <1>2, <1>3

\* The invariant is one.
THEOREM Invariance == Spec => []IInv
<1>1. ASSUME IInv, [Next]_vars PROVE IInv'
    <2>1. TypeOK /\ TypeOK'
        BY <1>1, TypeStep DEF IInv
    <2>2. CASE UNCHANGED vars
        BY <1>1, <2>1, <2>2 DEF vars, IInv, SnapshotInv, RepliesInv, ListedInv, SureInv, Sure, GoodBy
    <2>3. CASE Next
        <3>1. SnapshotInv' /\ RepliesInv' /\ ListedInv' /\ SureInv'
            BY <1>1, <2>1, <2>3, AnswerStep, StoreStep, InvalidateStep, RotateStep, OwnStep,
               StartOrTick DEF Next, Continue
        <3> QED BY <2>1, <3>1 DEF IInv
    <2> QED BY <1>1, <2>2, <2>3
<1>2. IInv /\ [Next]_vars => IInv'
    BY <1>1
<1> QED BY <1>2, Initially, PTL DEF Spec

\* The variables keep their types.
THEOREM TypeCorrectness == Spec => []TypeOK
<1>1. IInv => TypeOK
    BY DEF IInv
<1> QED BY <1>1, Invariance, PTL

\* A verification is accepted, or finds no key, only in these steps.
LEMMA Answered ==
    ASSUME IInv, [Next]_vars, NEW r \in Requests,
           req'[r].stage \in {"accepted", "no_key"},
           req[r].stage \notin {"fetch", req'[r].stage}
    PROVE  \/ (Look(r) \/ LookAgain(r)) /\ ~ IsStale /\ Decode(r, req[r], snapshot.jwks)
           \/ Store(r)
<1>1. req \in [Requests -> Verification]
    BY DEF IInv, TypeOK
<1>2. req'[r] # req[r]
    OBVIOUS
<1>3. ~ Rotate
    BY <1>1 DEF Rotate, Verification
<1>4. ASSUME NEW q \in Requests, NEW kid \in Kids PROVE ~ Start(q, kid)
    BY <1>1, <1>2 DEF Start, Blank
<1>5. ASSUME NEW q \in Requests, Continue(q) PROVE q = r
    <2>1. CASE Look(q) \/ LookAgain(q)
        BY <1>1, <1>2, <2>1 DEF Look, LookAgain, Decode
    <2>2. CASE Store(q) \/ Invalidate(q) \/ FetchAnswered(q) \/ FetchFailed(q)
        BY <1>1, <1>2, <2>2 DEF Store, Invalidate, FetchAnswered, FetchFailed, Decode
    <2> QED BY <1>5, <2>1, <2>2 DEF Continue
<1>6. ~ Invalidate(r) /\ ~ FetchAnswered(r) /\ ~ FetchFailed(r)
    <2>1. ASSUME Invalidate(r) PROVE req'[r].stage = "get"
        <3>1. req'[r] = [req[r] EXCEPT !.stage = "get", !.retried = TRUE,
                                       !.late = Fetching # {} \/ now < TTL]
            BY <1>1, <2>1 DEF Invalidate
        <3> QED BY <1>1, <3>1 DEF Verification
    <2>2. ASSUME FetchAnswered(r) \/ FetchFailed(r) PROVE req[r].stage = "fetch"
        BY <2>2 DEF FetchAnswered, FetchFailed
    <2> QED BY <2>1, <2>2
<1>7. Look(r) \/ LookAgain(r) \/ Store(r)
    BY <1>2, <1>3, <1>4, <1>5, <1>6 DEF Next, Continue, vars, Tick
<1>8. CASE (Look(r) \/ LookAgain(r)) /\ IsStale
    BY <1>1, <1>8 DEF Look, LookAgain, Verification
<1>9. CASE (Look(r) \/ LookAgain(r)) /\ ~ IsStale
    BY <1>9 DEF Look, LookAgain
<1> QED BY <1>7, <1>8, <1>9

\* A key is accepted for less than a TTL, and the time the reply was on its way,
\* after Cognito has withdrawn it, unless the verification's own fetch fails.
THEOREM WithdrawnKeysExpire == Spec => WithdrawnKeyExpires
<1>1. ASSUME IInv, [Next]_vars, NEW r \in Requests,
             req[r].stage \notin {"fetch", "accepted"}, req'[r].stage = "accepted"
      PROVE  \/ req[r].kid \in published
             \/ now - withdrawn[req[r].kid] < TTL + snapshot'.delay
    <2>1. /\ TypeOK /\ now \in Nat /\ TTL \in Nat \ {0} /\ snapshot.fetched_at \in Nat
          /\ snapshot.delay \in Nat
          /\ withdrawn \in [Kids -> {None} \cup 0 .. MaxTime]
        BY <1>1, Times DEF IInv, TypeOK
    <2>2. ASSUME NEW k \in Kids, withdrawn[k] # None PROVE withdrawn[k] \in Nat
        BY <2>1, <2>2, Times
    <2>3. CASE (Look(r) \/ LookAgain(r)) /\ ~ IsStale /\ Decode(r, req[r], snapshot.jwks)
        <3>1. snapshot.jwks # None /\ now - snapshot.fetched_at < TTL
              /\ snapshot.jwks \in SUBSET Kids
            BY <2>1, <2>3, NotStale
        <3>2. req[r].kid \in snapshot.jwks
            BY <1>1, <2>1, <2>3, <3>1, Decoded
        <3>3. GoodBy(req[r].kid, snapshot.fetched_at, snapshot.delay) /\ req[r].kid \in Kids
            BY <1>1, <3>1, <3>2 DEF IInv, SnapshotInv
        <3>4. snapshot' = snapshot
            BY <2>3 DEF Look, LookAgain
        <3> QED BY <2>1, <2>2, <3>1, <3>3, <3>4 DEF GoodBy
    <2>4. CASE Store(r)
        <3>1. /\ req[r].got \in SUBSET Kids /\ req[r].stage = "store"
              /\ req[r].at \in Nat /\ snapshot'.delay = now - req[r].at
            BY <2>1, <2>4, Times DEF TypeOK, Verification, Store
        <3>2. req[r].kid \in req[r].got
            BY <1>1, <2>1, <2>4, <3>1, Decoded DEF Store
        <3>3. GoodBy(req[r].kid, req[r].at, 0) /\ req[r].kid \in Kids /\ req[r].at <= now
            BY <1>1, <3>1, <3>2 DEF IInv, RepliesInv
        <3> QED BY <2>1, <2>2, <3>1, <3>3 DEF GoodBy
    <2> QED BY <1>1, <2>3, <2>4, Answered
<1>2. IInv /\ [Next]_vars =>
        [\A r \in Requests :
            req[r].stage \notin {"fetch", "accepted"} /\ req'[r].stage = "accepted"
               => \/ req[r].kid \in published
                  \/ now - withdrawn[req[r].kid] < TTL + snapshot'.delay]_vars
    BY <1>1
<1> QED BY <1>2, Invariance, PTL DEF Spec, WithdrawnKeyExpires

\* A kid that has been listed since the verification began is found, unless its
\* own fetch fails or the invalidation was late.
THEOREM ListedKeysAreFound == Spec => ListedKeyIsFound
<1>1. ASSUME IInv, [Next]_vars, NEW r \in Requests,
             req[r].stage \notin {"fetch", "no_key"}, req'[r].stage = "no_key"
      PROVE  ~ req[r].listed \/ req[r].late
    <2>1. TypeOK /\ now \in Nat /\ TTL \in Nat
        BY <1>1, Times DEF IInv, TypeOK
    <2>2. CASE ~ IsStale /\ Decode(r, req[r], snapshot.jwks)
        <3>1. snapshot.jwks # None /\ now - snapshot.fetched_at < TTL
              /\ snapshot.jwks \in SUBSET Kids
            BY <2>1, <2>2, NotStale
        <3>2. req[r].kid \notin snapshot.jwks /\ req[r].retried
            BY <1>1, <2>1, <2>2, <3>1, Decoded
        <3>3. ~ (snapshot.fetched_at = 0 /\ now >= TTL)
            BY <2>1, <3>1
        <3>4. ~ Sure(r)
            BY <1>1, <3>2, <3>3 DEF IInv, SureInv
        <3> QED BY <3>2, <3>4 DEF Sure
    <2>3. CASE Store(r)
        <3>1. req[r].got \in SUBSET Kids /\ req[r].stage = "store"
            BY <2>1, <2>3 DEF TypeOK, Verification, Store
        <3>2. req[r].kid \notin req[r].got
            BY <1>1, <2>1, <2>3, <3>1, Decoded DEF Store
        <3> QED BY <1>1, <3>1, <3>2 DEF IInv, RepliesInv
    <2> QED BY <1>1, <2>2, <2>3, Answered
<1>2. IInv /\ [Next]_vars =>
        [\A r \in Requests :
            req[r].stage \notin {"fetch", "no_key"} /\ req'[r].stage = "no_key"
               => ~ req[r].listed \/ req[r].late]_vars
    BY <1>1
<1> QED BY <1>2, Invariance, PTL DEF Spec, ListedKeyIsFound

-----------------------------------------------------------------------------
(* Locks, queue and event loop *)

\* A lock is held by a verification of its path that fetches, and each fetch
\* holds its lock: at most one at a time on each path.
HeldInv ==
    /\ \A l \in Locks : lock[l] # None =>
          LockOf(lock[l]) = l /\ req[lock[l]].stage \in {"fetch", "store"}
    /\ \A r \in Requests : req[r].stage \in {"fetch", "store"} => lock[LockOf(r)] = r

\* The queue holds the waiting tasks, each once.
QueueInv ==
    /\ \A r \in Tasks : req[r].stage = "wait" => \E i \in 1 .. Len(queue) : queue[i] = r
    /\ \A i \in 1 .. Len(queue) : req[queue[i]].stage = "wait"
    /\ \A i, j \in 1 .. Len(queue) : queue[i] = queue[j] => i = j

\* At most one verification keeps the event loop.
LoopInv == \A r, s \in Tasks : HoldsLoop(r) /\ HoldsLoop(s) => r = s

WaitInv == HeldInv /\ QueueInv /\ LoopInv

\* A verification that has decoded its token has its answer or invalidates.
LEMMA DecodedStage ==
    ASSUME TypeOK, NEW r \in Requests, NEW keys, Decode(r, req[r], keys)
    PROVE  /\ \A q \in Requests \ {r} : req'[q] = req[q]
           /\ req'[r].stage \in Answers \cup {"invalidate"}
<1>1. req \in [Requests -> Verification] /\ req[r] \in Verification
    BY DEF TypeOK
<1>2. PICK stage \in NextStage(req[r], keys) :
         req' = [req EXCEPT ![r] = IF stage \in Answers THEN Blank(stage)
                                   ELSE [req[r] EXCEPT !.stage = stage, !.got = {}, !.at = 0]]
    BY DEF Decode
<1>3. stage \in Answers \cup {"invalidate"}
    BY DEF NextStage, Answers
<1>4. req'[r] = IF stage \in Answers THEN Blank(stage)
                ELSE [req[r] EXCEPT !.stage = stage, !.got = {}, !.at = 0]
    BY <1>1, <1>2
<1>5. req'[r].stage = stage
    BY <1>1, <1>4 DEF Blank, Verification
<1> QED BY <1>1, <1>2, <1>3, <1>5

\* Where a step of a verification leads, and what it does to locks and queue.
LEMMA Moves ==
    ASSUME TypeOK, NEW r \in Requests,
           \/ Look(r) \/ LookAgain(r) \/ Store(r) \/ Invalidate(r)
           \/ FetchAnswered(r) \/ FetchFailed(r)
    PROVE  /\ \A q \in Requests \ {r} : req'[q] = req[q]
           /\ \/ /\ req[r].stage = "get" /\ req'[r].stage = "wait"
                 /\ queue' = IF r \in Tasks THEN Append(queue, r) ELSE queue
                 /\ lock' = lock
              \/ /\ req[r].stage \in {"get", "invalidate"}
                 /\ req'[r].stage \in Answers \cup {"invalidate", "get"}
                 /\ UNCHANGED <<lock, queue>>
              \/ /\ req[r].stage = "fetch" /\ req'[r].stage = "store"
                 /\ UNCHANGED <<lock, queue>>
              \/ /\ req[r].stage = "wait" /\ lock[LockOf(r)] = None
                 /\ r \in Tasks => queue # <<>> /\ Head(queue) = r
                 /\ queue' = IF r \in Tasks THEN Tail(queue) ELSE queue
                 /\ \/ /\ req'[r].stage = "fetch"
                       /\ lock' = [lock EXCEPT ![LockOf(r)] = r]
                    \/ /\ req'[r].stage \in Answers \cup {"invalidate"}
                       /\ lock' = lock
              \/ /\ req[r].stage \in {"fetch", "store"}
                 /\ req'[r].stage \in Answers \cup {"invalidate"}
                 /\ lock' = [lock EXCEPT ![LockOf(r)] = None]
                 /\ queue' = queue
<1>1. req \in [Requests -> Verification] /\ req[r] \in Verification
    BY DEF TypeOK
<1>2. ASSUME NEW stage, req' = [req EXCEPT ![r].stage = stage]
      PROVE  req'[r].stage = stage /\ \A q \in Requests \ {r} : req'[q] = req[q]
    BY <1>1, <1>2 DEF Verification
<1>3. CASE Look(r)
    <2>1. CASE IsStale
        BY <1>2, <1>3, <2>1 DEF Look
    <2>2. CASE ~ IsStale
        BY <1>3, <2>2, DecodedStage DEF Look
    <2> QED BY <2>1, <2>2
<1>4. CASE LookAgain(r)
    <2>1. CASE IsStale
        BY <1>2, <1>4, <2>1 DEF LookAgain
    <2>2. CASE ~ IsStale
        BY <1>4, <2>2, DecodedStage DEF LookAgain
    <2> QED BY <2>1, <2>2
<1>5. CASE Store(r)
    BY <1>5, DecodedStage DEF Store, Release
<1>6. CASE FetchFailed(r)
    <2>1. CASE req' = [req EXCEPT ![r] = Blank("rejected")]
        <3>1. req'[r].stage = "rejected" /\ \A q \in Requests \ {r} : req'[q] = req[q]
            BY <1>1, <2>1 DEF Blank
        <3> QED BY <1>6, <3>1 DEF FetchFailed, Release, Answers
    <2>2. CASE Decode(r, req[r], snapshot.jwks)
        BY <1>6, <2>2, DecodedStage DEF FetchFailed, Release
    <2> QED BY <1>6, <2>1, <2>2 DEF FetchFailed
<1>7. CASE FetchAnswered(r)
    <2>1. req'[r].stage = "store" /\ \A q \in Requests \ {r} : req'[q] = req[q]
        BY <1>1, <1>7 DEF FetchAnswered, Verification
    <2> QED BY <1>7, <2>1 DEF FetchAnswered
<1>8. CASE Invalidate(r)
    <2>1. req'[r].stage = "get" /\ \A q \in Requests \ {r} : req'[q] = req[q]
        BY <1>1, <1>8 DEF Invalidate, Verification
    <2> QED BY <1>8, <2>1 DEF Invalidate
<1> QED BY <1>3, <1>4, <1>5, <1>6, <1>7, <1>8

\* The next fetch of a path takes its lock from no one.
LEMMA HeldStep ==
    ASSUME TypeOK, TypeOK', HeldInv, NEW r \in Requests,
           \/ Look(r) \/ LookAgain(r) \/ Store(r) \/ Invalidate(r)
           \/ FetchAnswered(r) \/ FetchFailed(r)
    PROVE  HeldInv'
<1>1. lock \in [Locks -> Requests \cup {None}] /\ LockOf(r) \in Locks /\ r # None
    BY NoneIsNothing DEF TypeOK, LockOf, Locks
<1>2. \A q \in Requests \ {r} : req'[q] = req[q]
    BY Moves
<1>3. CASE UNCHANGED lock /\ (req[r].stage \in {"fetch", "store"} <=> req'[r].stage \in {"fetch", "store"})
    <2>1. \A q \in Requests : req[q].stage \in {"fetch", "store"} <=> req'[q].stage \in {"fetch", "store"}
        BY <1>2, <1>3
    <2> QED BY <1>1, <1>3, <2>1 DEF HeldInv
<1>4. CASE /\ lock[LockOf(r)] = None /\ req'[r].stage = "fetch"
           /\ lock' = [lock EXCEPT ![LockOf(r)] = r]
    <2>1. \A q \in Requests : LockOf(q) \in Locks /\ q # None
        BY NoneIsNothing DEF LockOf, Locks
    <2>3. \A q \in Requests : req[q].stage \in {"fetch", "store"} => LockOf(q) # LockOf(r)
        BY <1>4, <2>1 DEF HeldInv
    <2>2. \A l \in Locks : lock'[l] = IF l = LockOf(r) THEN r ELSE lock[l]
        BY <1>1, <1>4
    <2>4. ASSUME NEW l \in Locks, lock'[l] # None
          PROVE  LockOf(lock'[l]) = l /\ req'[lock'[l]].stage \in {"fetch", "store"}
        BY <1>1, <1>2, <1>4, <2>2, <2>4 DEF HeldInv
    <2>5. ASSUME NEW q \in Requests, req'[q].stage \in {"fetch", "store"}
          PROVE  lock'[LockOf(q)] = q
        BY <1>2, <2>1, <2>2, <2>3, <2>5 DEF HeldInv
    <2> QED BY <2>4, <2>5 DEF HeldInv
<1>5. CASE /\ req[r].stage \in {"fetch", "store"}
           /\ req'[r].stage \notin {"fetch", "store"}
           /\ lock' = [lock EXCEPT ![LockOf(r)] = None]
    BY <1>1, <1>2, <1>5 DEF HeldInv
<1>6. \A stage \in Answers \cup {"invalidate", "get"} : stage \notin {"fetch", "store", "wait"}
    BY DEF Answers
<1> QED BY <1>3, <1>4, <1>5, <1>6, Moves

\* A task that looks again was first in the queue and leaves it.
LEMMA QueueStep ==
    ASSUME TypeOK, QueueInv, NEW r \in Requests,
           \/ Look(r) \/ LookAgain(r) \/ Store(r) \/ Invalidate(r)
           \/ FetchAnswered(r) \/ FetchFailed(r)
    PROVE  QueueInv'
<1>1. queue \in Seq(Tasks) /\ Tasks \subseteq Requests
    BY DEF TypeOK, Requests
<1>2. \A q \in Requests \ {r} : req'[q] = req[q]
    BY Moves
<1>3. \A stage \in Answers \cup {"invalidate", "get"} : stage # "wait"
    BY DEF Answers
<1>4. CASE queue' = queue /\ (r \in Tasks => req[r].stage # "wait" /\ req'[r].stage # "wait")
    <2>1. \A q \in Tasks : req'[q].stage = "wait" <=> req[q].stage = "wait"
        BY <1>1, <1>2, <1>4
    <2>2. \A i \in 1 .. Len(queue) : queue[i] \in Tasks
        BY <1>1
    <2> QED BY <1>4, <2>1, <2>2 DEF QueueInv
<1>5. CASE /\ r \in Tasks /\ req[r].stage # "wait" /\ req'[r].stage = "wait"
           /\ queue' = Append(queue, r)
    <2>1. /\ Len(queue') = Len(queue) + 1 /\ Len(queue) \in Nat
          /\ queue'[Len(queue) + 1] = r
          /\ \A i \in 1 .. Len(queue) : queue'[i] = queue[i] /\ queue[i] \in Tasks
        BY <1>1, <1>5
    <2>2. \A i \in 1 .. Len(queue) : queue[i] # r
        BY <1>5 DEF QueueInv
    <2>3. \A i \in 1 .. Len(queue') : i = Len(queue) + 1 \/ i \in 1 .. Len(queue)
        BY <2>1
    <2>4. ASSUME NEW q \in Tasks, req'[q].stage = "wait"
          PROVE  \E i \in 1 .. Len(queue') : queue'[i] = q
        <3>1. CASE q = r
            BY <2>1, <3>1
        <3>2. CASE q # r
            <4>1. PICK i \in 1 .. Len(queue) : queue[i] = q
                BY <1>1, <1>2, <2>4, <3>2 DEF QueueInv
            <4> QED BY <2>1, <4>1
        <3> QED BY <3>1, <3>2
    <2>5. \A i \in 1 .. Len(queue') : req'[queue'[i]].stage = "wait"
        BY <1>1, <1>2, <1>5, <2>1, <2>2, <2>3 DEF QueueInv
    <2>6. \A i, j \in 1 .. Len(queue') : queue'[i] = queue'[j] => i = j
        BY <2>1, <2>2, <2>3 DEF QueueInv
    <2> QED BY <2>4, <2>5, <2>6 DEF QueueInv
<1>6. CASE /\ r \in Tasks /\ req'[r].stage # "wait"
           /\ queue # <<>> /\ Head(queue) = r /\ queue' = Tail(queue)
    <2>1. /\ Len(queue) \in Nat /\ Len(queue) >= 1 /\ queue[1] = r
          /\ Len(queue') = Len(queue) - 1
          /\ \A i \in 1 .. Len(queue) - 1 : queue'[i] = queue[i + 1] /\ queue[i + 1] \in Tasks
        BY <1>1, <1>6
    <2>2. \A i \in 1 .. Len(queue) : queue[i] = r => i = 1
        BY <2>1 DEF QueueInv
    <2>3. ASSUME NEW q \in Tasks, req'[q].stage = "wait"
          PROVE  \E i \in 1 .. Len(queue') : queue'[i] = q
        <3>1. q # r /\ req[q].stage = "wait"
            BY <1>1, <1>2, <1>6, <2>3
        <3>2. PICK i \in 1 .. Len(queue) : queue[i] = q
            BY <3>1 DEF QueueInv
        <3>3. i # 1 /\ i - 1 \in 1 .. Len(queue) - 1 /\ (i - 1) + 1 = i
            BY <2>1, <3>1, <3>2
        <3>4. queue'[i - 1] = q
            BY <2>1, <3>2, <3>3
        <3> QED BY <2>1, <3>3, <3>4
    <2>4. ASSUME NEW i \in 1 .. Len(queue')
          PROVE  req'[queue'[i]].stage = "wait"
        <3>1. i + 1 \in 1 .. Len(queue) /\ queue'[i] = queue[i + 1] /\ queue[i + 1] \in Tasks
            BY <2>1
        <3>2. queue[i + 1] # r
            BY <2>1, <2>2, <3>1
        <3> QED BY <1>1, <1>2, <3>1, <3>2 DEF QueueInv
    <2>5. ASSUME NEW i \in 1 .. Len(queue'), NEW j \in 1 .. Len(queue'), queue'[i] = queue'[j]
          PROVE  i = j
        <3>1. /\ i + 1 \in 1 .. Len(queue) /\ j + 1 \in 1 .. Len(queue)
              /\ queue[i + 1] = queue[j + 1]
            BY <2>1, <2>5
        <3>2. i + 1 = j + 1
            BY <3>1 DEF QueueInv
        <3> QED BY <2>1, <3>2
    <2> QED BY <2>3, <2>4, <2>5 DEF QueueInv
<1> QED BY <1>3, <1>4, <1>5, <1>6, Moves

\* A step on the event loop is taken when no other task keeps it.
LEMMA LoopStep ==
    ASSUME TypeOK, LoopInv, NEW r \in Requests, Continue(r)
    PROVE  LoopInv'
<1>1. \A q \in Requests \ {r} : req'[q] = req[q]
    BY Moves DEF Continue
<1>2. \A q \in Tasks \ {r} : HoldsLoop(q)' <=> HoldsLoop(q)
    BY <1>1 DEF HoldsLoop, Requests
<1>3. CASE r \in Tasks
    BY <1>2, <1>3 DEF LoopInv, Continue, MayRun
<1>4. CASE r \notin Tasks
    BY <1>2, <1>4 DEF LoopInv
<1> QED BY <1>3, <1>4

\* They stand in every reachable state.
LEMMA WaitInvariance == Spec => []WaitInv
<1>1. ASSUME Init PROVE WaitInv
    <2>1. \A r \in Requests : req[r].stage = "idle" /\ ~ req[r].retried
        BY <1>1 DEF Init, Blank
    <2>2. HeldInv
        BY <1>1, <2>1 DEF Init, HeldInv
    <2>3. QueueInv
        BY <1>1, <2>1 DEF Init, QueueInv, Requests
    <2>4. LoopInv
        BY <2>1 DEF LoopInv, HoldsLoop, Requests
    <2> QED BY <2>2, <2>3, <2>4 DEF WaitInv
<1>2. ASSUME IInv, IInv', WaitInv, [Next]_vars PROVE WaitInv'
    <2>1. TypeOK /\ TypeOK' /\ HeldInv /\ QueueInv /\ LoopInv
        BY <1>2 DEF IInv, WaitInv
    <2>2. ASSUME UNCHANGED <<lock, queue>>,
                 \A q \in Requests : /\ req'[q].retried => req[q].retried
                                     /\ \/ req'[q].stage = req[q].stage
                                        \/ /\ req[q].stage = "idle" /\ req'[q].stage = "get"
                                           /\ ~ req'[q].retried
          PROVE  WaitInv'
        <3>1. \A q \in Requests :
                /\ req'[q].stage \in {"fetch", "store"} <=> req[q].stage \in {"fetch", "store"}
                /\ req'[q].stage = "wait" <=> req[q].stage = "wait"
            BY <2>2
        <3>2. \A q \in Tasks : HoldsLoop(q)' => HoldsLoop(q)
            BY <2>2 DEF HoldsLoop, Requests
        <3>3. HeldInv'
            <4>1. \A l \in Locks : lock[l] \in Requests \cup {None}
                BY <2>1 DEF TypeOK
            <4> QED BY <2>1, <2>2, <3>1, <4>1 DEF HeldInv
        <3>4. QueueInv'
            <4>1. \A i \in 1 .. Len(queue) : queue[i] \in Tasks
                BY <2>1 DEF TypeOK
            <4> QED BY <2>1, <2>2, <3>1, <4>1 DEF QueueInv, Requests
        <3>5. LoopInv'
            BY <2>1, <3>2 DEF LoopInv
        <3> QED BY <3>3, <3>4, <3>5 DEF WaitInv
    <2>3. CASE UNCHANGED vars \/ Tick
        BY <2>2, <2>3 DEF vars, Tick
    <2>4. CASE Rotate
        <3>1. PICK keys : req' = [r \in Requests |->
                                    [req[r] EXCEPT !.listed = @ /\ req[r].kid \in keys]]
            BY <2>4 DEF Rotate
        <3>2. \A q \in Requests : req'[q].stage = req[q].stage /\ req'[q].retried = req[q].retried
            BY <2>1, <3>1 DEF TypeOK, Verification
        <3> QED BY <2>2, <2>4, <3>2 DEF Rotate
    <2>5. ASSUME NEW r \in Requests, NEW kid \in Kids, Start(r, kid) PROVE WaitInv'
        <3>1. /\ req[r].stage = "idle"
              /\ req' = [req EXCEPT ![r] = [Blank("get") EXCEPT !.kid = kid,
                                                               !.listed = kid \in published]]
            BY <2>5 DEF Start
        <3>2. req'[r].stage = "get" /\ req'[r].retried = FALSE
            BY <2>1, <3>1 DEF TypeOK, Blank
        <3>3. \A q \in Requests \ {r} : req'[q] = req[q]
            BY <2>1, <3>1 DEF TypeOK
        <3> QED BY <2>2, <2>5, <3>1, <3>2, <3>3 DEF Start
    <2>6. ASSUME NEW r \in Requests, Continue(r) PROVE WaitInv'
        BY <2>1, <2>6, HeldStep, QueueStep, LoopStep DEF Continue, WaitInv
    <2> QED BY <1>2, <2>3, <2>4, <2>5, <2>6 DEF Next
<1> QED BY <1>1, <1>2, Invariance, PTL DEF Spec

\* No two verifications of one path fetch at the same time: the lock of the
\* path, which every way out of a fetch releases, is with the one that does.
THEOREM OneFetchPerPath ==
    Spec => [](\A r, s \in Fetching : LockOf(r) = LockOf(s) => r = s)
<1>1. WaitInv => \A r, s \in Fetching : LockOf(r) = LockOf(s) => r = s
    BY DEF WaitInv, HeldInv, Fetching
<1> QED BY <1>1, WaitInvariance, PTL

\* Two kinds of locks, a queue and an event loop that a verification stops while
\* it waits for a thread never leave everyone waiting.
THEOREM NobodyIsStuck == Spec => []NobodyStuck
<1>1. ASSUME TypeOK, WaitInv, NEW r \in Requests, req[r].stage \notin {"idle"} \cup Answers
      PROVE  \E s \in Requests : CanContinue(s)
    <2>1. SUFFICES ASSUME \A s \in Requests : ~ CanContinue(s) PROVE FALSE
        OBVIOUS
    <2>2. \A s \in Requests :
             req[s].stage \in {"idle", "get", "wait", "fetch", "store", "invalidate"} \cup Answers
        BY <1>1 DEF TypeOK, Verification, Stages
    <2>3. \A s \in Threads : MayRun(s) /\ LockOf(s) = "threading" /\ s \in Requests
        BY Paths DEF MayRun, LockOf, Requests
    <2>4. lock["threading"] = None
        <3>1. SUFFICES ASSUME lock["threading"] # None PROVE FALSE
            OBVIOUS
        <3> DEFINE h == lock["threading"]
        <3>2. h \in Requests /\ LockOf(h) = "threading" /\ req[h].stage \in {"fetch", "store"}
            BY <1>1, <3>1 DEF WaitInv, HeldInv, Locks, TypeOK
        <3>3. h \in Threads
            BY <3>2 DEF LockOf, Requests
        <3> QED BY <2>1, <2>3, <3>2, <3>3 DEF CanContinue
    <2>5. r \in Tasks
        <3>1. SUFFICES ASSUME r \in Threads PROVE FALSE
            BY DEF Requests
        <3>2. r \notin Tasks /\ req[r].stage \in {"get", "wait", "fetch", "store", "invalidate"}
            BY <1>1, <2>2, <3>1, Paths
        <3> QED BY <2>1, <2>3, <2>4, <3>1, <3>2 DEF CanContinue
    <2>6. \A s \in Tasks : ~ HoldsLoop(s)
        <3>1. SUFFICES ASSUME NEW s \in Tasks, HoldsLoop(s) PROVE FALSE
            OBVIOUS
        <3>2. MayRun(s) /\ s \in Requests
            BY <1>1, <3>1 DEF MayRun, WaitInv, LoopInv, Requests
        <3> QED BY <2>1, <2>4, <3>1, <3>2 DEF HoldsLoop, CanContinue
    <2>7. \A s \in Tasks : MayRun(s) /\ LockOf(s) = "asyncio" /\ s \in Requests
        BY <2>6 DEF MayRun, LockOf, Requests
    <2>8. req[r].stage = "wait"
        BY <1>1, <2>1, <2>2, <2>4, <2>5, <2>7 DEF CanContinue
    <2>9. lock["asyncio"] = None
        <3>1. SUFFICES ASSUME lock["asyncio"] # None PROVE FALSE
            OBVIOUS
        <3> DEFINE h == lock["asyncio"]
        <3>2. h \in Requests /\ LockOf(h) = "asyncio" /\ req[h].stage \in {"fetch", "store"}
            BY <1>1, <3>1 DEF WaitInv, HeldInv, Locks, TypeOK
        <3>3. h \in Tasks
            BY <3>2 DEF LockOf
        <3> QED BY <2>1, <2>7, <3>2, <3>3 DEF CanContinue
    <2>10. queue # <<>> /\ Head(queue) \in Tasks /\ req[Head(queue)].stage = "wait"
        <3>1. queue \in Seq(Tasks)
            BY <1>1 DEF TypeOK
        <3>2. PICK i \in 1 .. Len(queue) : queue[i] = r
            BY <1>1, <2>5, <2>8 DEF WaitInv, QueueInv
        <3>3. Len(queue) \in Nat /\ 1 \in 1 .. Len(queue) /\ queue # <<>>
            BY <3>1, <3>2
        <3>4. Head(queue) = queue[1] /\ queue[1] \in Tasks
            BY <3>1, <3>3
        <3> QED BY <1>1, <3>3, <3>4 DEF WaitInv, QueueInv
    <2> QED BY <2>1, <2>7, <2>9, <2>10 DEF CanContinue
<1>2. IInv /\ WaitInv => NobodyStuck
    BY <1>1 DEF IInv, NobodyStuck
<1> QED BY <1>2, Invariance, WaitInvariance, PTL
=============================================================================
