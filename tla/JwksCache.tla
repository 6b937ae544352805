----------------------------- MODULE JwksCache -----------------------------
(***************************************************************************)
(* The cache of Cognito's signing keys (_JWKSCache) and the verifications  *)
(* that read it.  A verification looks at the snapshot; when that is stale *)
(* it queues for its path's lock, looks again and fetches; when the token's *)
(* kid is missing it invalidates the snapshot and looks once more.         *)
(*                                                                         *)
(* Tasks of the event loop and worker threads have a lock each, so that a  *)
(* fetch of one path can run during one of the other; invalidate() always  *)
(* takes the threading lock.  The loop changes tasks at an await only:     *)
(* while one waits for the asyncio lock or for Cognito.  A token is its    *)
(* kid; whether the rest of it holds (signature, expiry, issuer, token_use,*)
(* audience) is left open, and a token without a kid fares like one whose  *)
(* signature fails.  Time is in ticks of the monotonic clock and passes    *)
(* between any two steps; how long a fetch may take is left open.          *)
(***************************************************************************)
EXTENDS Naturals, Sequences

CONSTANTS
    Kids,     \* the kids tokens can name
    Tasks,    \* verify_token_async on the event loop, each running once
    Threads,  \* verify_token in worker threads, each running once
    TTL,      \* JWKS_TTL_SECONDS, in ticks
    MaxTime,  \* bound on the clock
    None      \* no key set, no kid, no time, no holder

Requests == Tasks \cup Threads

ASSUME Paths == Tasks \cap Threads = {}
ASSUME Times == TTL \in Nat \ {0} /\ MaxTime \in Nat
ASSUME NoneIsNothing ==
    /\ None \notin Kids \cup Requests \cup Nat
    /\ \A keys \in SUBSET Kids : keys # None

VARIABLES
    published,  \* the kids Cognito's endpoint lists
    withdrawn,  \* when it stopped listing a kid, None if it has not
    now,        \* time.monotonic(), 0 when the host booted
    snapshot,   \* the pair (jwks, fetched_at), and a ghost: delay, how long
                \* before fetched_at Cognito had answered
    lock,       \* who holds the threading and the asyncio lock
    queue,      \* the tasks that wait for the asyncio lock: it serves in order
    req         \* the verifications

vars == <<published, withdrawn, now, snapshot, lock, queue, req>>

Locks   == {"threading", "asyncio"}
Stages  == {"idle", "get", "wait", "fetch", "store", "invalidate"}
Answers == {"accepted", "rejected", "no_key"}

LockOf(r) == IF r \in Tasks THEN "asyncio" ELSE "threading"

(***************************************************************************)
(* got: the reply on its way.  retried: the snapshot was invalidated for   *)
(* this token.  Ghost fields: at, when Cognito gave the reply; listed,     *)
(* Cognito has listed the kid since the verification began; late, the      *)
(* invalidation could have no effect, for a fetch was under way or the     *)
(* clock below the TTL.                                                    *)
(***************************************************************************)
Verification ==
    [ stage : Stages \cup Answers, kid : Kids \cup {None}, got : SUBSET Kids, at : 0 .. MaxTime,
      retried : BOOLEAN, listed : BOOLEAN, late : BOOLEAN ]

Blank(stage) == [ stage |-> stage, kid |-> None, got |-> {}, at |-> 0,
                  retried |-> FALSE, listed |-> FALSE, late |-> FALSE ]

TypeOK ==
    /\ published \subseteq Kids
    /\ withdrawn \in [Kids -> {None} \cup 0 .. MaxTime]
    /\ now \in 0 .. MaxTime
    /\ snapshot \in [ jwks : {None} \cup SUBSET Kids, fetched_at : 0 .. MaxTime,
                      delay : 0 .. MaxTime ]
    /\ lock \in [Locks -> Requests \cup {None}]
    /\ queue \in Seq(Tasks)
    /\ req \in [Requests -> Verification]

-----------------------------------------------------------------------------
\* Mutant: a snapshot is good for one tick more.
IsStaleAfter == snapshot.jwks = None \/ now - snapshot.fetched_at > TTL

IsStale == snapshot.jwks = None \/ now - snapshot.fetched_at >= TTL

Fetching == {r \in Requests : req[r].stage \in {"fetch", "store"}}

\* Between its failed decode and its next await an async verification keeps
\* the event loop, even while invalidate() waits for the threading lock.
HoldsLoop(r) ==
    /\ r \in Tasks
    /\ \/ req[r].stage = "invalidate"
       \/ req[r].stage = "get" /\ req[r].retried

MayRun(r) == r \in Tasks => \A s \in Tasks \ {r} : ~HoldsLoop(s)

Init ==
    /\ published \in SUBSET Kids \ {{}}
    /\ withdrawn = [k \in Kids |-> None]
    /\ now \in 0 .. MaxTime
    /\ snapshot = [jwks |-> None, fetched_at |-> 0, delay |-> 0]
    /\ lock = [l \in Locks |-> None]
    /\ queue = <<>>
    /\ req = [r \in Requests |-> Blank("idle")]

-----------------------------------------------------------------------------
(* The environment *)

\* Cognito rotates its keys; a kid it has withdrawn never returns.
Rotate ==
    /\ \E keys \in SUBSET {k \in Kids : withdrawn[k] = None} \ {{}, published} :
        /\ published' = keys
        /\ withdrawn' = [k \in Kids |-> IF k \in published \ keys THEN now ELSE withdrawn[k]]
        /\ req' = [r \in Requests |-> [req[r] EXCEPT !.listed = @ /\ req[r].kid \in keys]]
    /\ UNCHANGED <<now, snapshot, lock, queue>>

Tick ==
    /\ now < MaxTime
    /\ now' = now + 1
    /\ UNCHANGED <<published, withdrawn, snapshot, lock, queue, req>>

\* verify_token or verify_token_async; without a token the optional variants
\* answer None and never come here.
Start(r, kid) ==
    /\ req[r].stage = "idle"
    /\ req' = [req EXCEPT ![r] = [Blank("get") EXCEPT !.kid = kid, !.listed = kid \in published]]
    /\ UNCHANGED <<published, withdrawn, now, snapshot, lock, queue>>

-----------------------------------------------------------------------------
(* Verifying *)

\* Mutants: a token whose kid is unknown is refused at once; or looked up again
\* and again.
NextStageNoRetry(me, keys) ==
    IF me.kid \in keys THEN {"accepted", "rejected"} ELSE {"no_key"}
NextStageRetryingOn(me, keys) ==
    IF me.kid \in keys THEN {"accepted", "rejected"} ELSE {"invalidate"}

\* _decode_and_validate on a key set, and what verify_token makes of the None
\* that stands for an unknown kid.
NextStage(me, keys) ==
    IF me.kid \in keys THEN {"accepted", "rejected"}
    ELSE IF me.retried THEN {"no_key"} ELSE {"invalidate"}

Decode(r, me, keys) ==
    \E stage \in NextStage(me, keys) :
        req' = [req EXCEPT ![r] = IF stage \in Answers THEN Blank(stage)
                                  ELSE [me EXCEPT !.stage = stage, !.got = {}, !.at = 0]]

\* The first look, without a lock.
Look(r) ==
    /\ req[r].stage = "get"
    /\ IF IsStale
       THEN /\ req' = [req EXCEPT ![r].stage = "wait"]
            /\ queue' = IF r \in Tasks THEN Append(queue, r) ELSE queue
       ELSE /\ Decode(r, req[r], snapshot.jwks)
            /\ UNCHANGED queue
    /\ UNCHANGED <<published, withdrawn, now, snapshot, lock>>

\* The lock is free, and it is this one's turn: the double check.
LookAgain(r) ==
    /\ req[r].stage = "wait" /\ lock[LockOf(r)] = None
    /\ r \in Tasks => queue # <<>> /\ Head(queue) = r
    /\ queue' = IF r \in Tasks THEN Tail(queue) ELSE queue
    /\ IF IsStale
       THEN /\ req' = [req EXCEPT ![r].stage = "fetch"]
            /\ lock' = [lock EXCEPT ![LockOf(r)] = r]
       ELSE /\ Decode(r, req[r], snapshot.jwks)
            /\ UNCHANGED lock
    /\ UNCHANGED <<published, withdrawn, now, snapshot>>

\* Cognito has answered; the reply is on its way.
FetchAnswered(r) ==
    /\ req[r].stage = "fetch"
    /\ req' = [req EXCEPT ![r] = [@ EXCEPT !.stage = "store", !.got = published,
                                           !.at = now]]
    /\ UNCHANGED <<published, withdrawn, now, snapshot, lock, queue>>

Release(r) == lock' = [lock EXCEPT ![LockOf(r)] = None]

\* Mutant: the expiry is kept in place of the time of the fetch.
StoreExpiry(r) ==
    /\ req[r].stage = "store"
    /\ snapshot' = [jwks |-> req[r].got, fetched_at |-> now + TTL, delay |-> now - req[r].at]
    /\ Decode(r, req[r], req[r].got)
    /\ Release(r)
    /\ UNCHANGED <<published, withdrawn, now, queue>>

\* fetched_at is the time the reply is stored at, not the time Cognito gave it.
Store(r) ==
    /\ req[r].stage = "store"
    /\ snapshot' = [jwks |-> req[r].got, fetched_at |-> now, delay |-> now - req[r].at]
    /\ Decode(r, req[r], req[r].got)
    /\ Release(r)
    /\ UNCHANGED <<published, withdrawn, now, queue>>

\* Mutant: the failed fetch leaves its lock held.
FetchFailedHoldingLock(r) ==
    /\ req[r].stage = "fetch"
    /\ \/ snapshot.jwks # None /\ Decode(r, req[r], snapshot.jwks)
       \/ req' = [req EXCEPT ![r] = Blank("rejected")]
    /\ UNCHANGED <<published, withdrawn, now, snapshot, lock, queue>>

\* httpx.HTTPError: the cached keys serve, whatever their age.  A body that
\* is not JSON raises ValueError instead, and the cached keys do not help.
FetchFailed(r) ==
    /\ req[r].stage = "fetch"
    /\ \/ snapshot.jwks # None /\ Decode(r, req[r], snapshot.jwks)
       \/ req' = [req EXCEPT ![r] = Blank("rejected")]
    /\ Release(r)
    /\ UNCHANGED <<published, withdrawn, now, snapshot, queue>>

\* invalidate(): under the threading lock the keys stay, their time becomes 0.
Invalidate(r) ==
    /\ req[r].stage = "invalidate" /\ lock["threading"] = None
    /\ snapshot' = [snapshot EXCEPT !.fetched_at = 0]
    /\ req' = [req EXCEPT ![r] = [@ EXCEPT !.stage = "get", !.retried = TRUE,
                                           !.late = Fetching # {} \/ now < TTL]]
    /\ UNCHANGED <<published, withdrawn, now, lock, queue>>

Continue(r) ==
    /\ MayRun(r)
    /\ \/ Look(r) \/ LookAgain(r) \/ Store(r) \/ Invalidate(r)
       \/ FetchAnswered(r) \/ FetchFailed(r)

Next ==
    \/ Rotate \/ Tick
    \/ \E r \in Requests :
        \/ MayRun(r) /\ \E kid \in Kids : Start(r, kid)
        \/ Continue(r)

\* The event loop and the threads run on; a fetch has a timeout.
Fairness == \A r \in Requests : WF_vars(Continue(r))

Spec == Init /\ [][Next]_vars

FairSpec == Spec /\ Fairness
-----------------------------------------------------------------------------
(* Properties *)

\* A key is accepted for less than a TTL, and the time the reply was on its way,
\* after Cognito has withdrawn it, although readers, fetches of both paths and
\* invalidations overlap.  The exception is a verification whose own fetch
\* fails: the cached keys serve it for ever.  (Primed: whoever stores a reply
\* decodes by it in the same step.)
WithdrawnKeyExpires ==
    [][\A r \in Requests :
          req[r].stage \notin {"fetch", "accepted"} /\ req'[r].stage = "accepted"
             => \/ req[r].kid \in published
                \/ now - withdrawn[req[r].kid] < TTL + snapshot'.delay]_vars

\* "Invalidate and retry once": a kid Cognito has listed since the verification
\* began is not answered with "No matching key found", unless its own fetch
\* fails or invalidate() came late: a fetch that began before it then stores
\* older keys as fresh ones, and to a clock below the TTL fetched_at = 0.0 is
\* as good as any.
ListedKeyIsFound ==
    [][\A r \in Requests :
          req[r].stage \notin {"fetch", "no_key"} /\ req'[r].stage = "no_key"
             => ~req[r].listed \/ req[r].late]_vars

\* The guards of Continue(r): a verification that looks, fetches or stores goes
\* on; one that waits needs its lock and, on the event loop, its turn; one that
\* invalidates needs the threading lock.
CanContinue(r) ==
    /\ MayRun(r)
    /\ \/ req[r].stage \in {"get", "fetch", "store"}
       \/ /\ req[r].stage = "wait" /\ lock[LockOf(r)] = None
          /\ r \in Tasks => queue # <<>> /\ Head(queue) = r
       \/ req[r].stage = "invalidate" /\ lock["threading"] = None

\* Two locks of two kinds, a queue, and an event loop that one verification can
\* stop while it waits for a worker thread: the waits never close a circle.  As
\* long as a verification is under way, some verification can go on.
NobodyStuck ==
    (\E r \in Requests : req[r].stage \notin {"idle"} \cup Answers)
       => \E r \in Requests : CanContinue(r)

\* Every verification is answered: the lock comes back from every way out of
\* a fetch, and an event loop stopped in invalidate() goes on.
EveryVerificationAnswers ==
    \A r \in Requests : req[r].stage = "get" ~> req[r].stage \in Answers
=============================================================================
