------------------------- MODULE RateLimiterProofs -------------------------
(***************************************************************************)
(* What holds of RateLimiter for any routes, any number of requests, any   *)
(* limit and window, and any MaxTime.                                      *)
(*                                                                         *)
(* Everything rests on no purge ever taking a hit that is still in the     *)
(* window (Covers): requests purge with the time they began at, which is   *)
(* never ahead of the clock, and the cleanup keeps a window at least.  So  *)
(* a count sees every hit in the window that has been committed, and all   *)
(* there are when the requests on its key come one after another (OneByOne). *)
(***************************************************************************)
EXTENDS RateLimiter, FiniteSetTheorems, TLAPS

\* The hits on a key that are in the window.
Current(key) == InWindow(GrantedTo(key), now)

\* The requests that have been counted and are going to insert their hit.
Pending(key) == {r \in Requests : At(r, "record") /\ req[r].key = key}

\* Every hit in the window is in the table or the deques.
Covers == \A i \in Ids : granted[i] # None /\ granted[i].at >= now - Window => i \in hits

HitsGranted == \A i \in hits : granted[i] # None

\* What is known of a request.
RequestInv(r) ==
    /\ req[r].at <= now
    /\ \A i \in req[r].purged : granted[i] # None /\ granted[i].at < req[r].at - Window
    /\ backend = "memory" => req[r].stage = "refused"
    /\ backend = "postgres" /\ req[r].alone =>
         /\ \A s \in Requests \ {r} : req[s] # None => req[s].key # req[r].key
         /\ req[r].stage = "record" => Cardinality(Current(req[r].key)) < Limit

\* What has been granted and what is going to be.
Budget ==
    \A key \in Routes :
        IF backend = "memory" THEN Cardinality(Current(key)) <= Limit
        ELSE Cardinality(Current(key)) + Cardinality(Pending(key))
                <= Limit + Cardinality(Requests) - 1

IInv ==
    /\ TypeOK /\ Covers /\ HitsGranted
    /\ \A r \in Requests : req[r] # None => RequestInv(r)
    /\ Budget
    /\ RefusedOnlyAtLimit

-----------------------------------------------------------------------------
(* Counting *)

\* What is granted is countable.
LEMMA GrantedFinite ==
    ASSUME NEW key, NEW time
    PROVE  /\ IsFiniteSet(InWindow(GrantedTo(key), time))
           /\ Cardinality(InWindow(GrantedTo(key), time)) \in Nat
<1>1. InWindow(GrantedTo(key), time) \subseteq Ids
    BY DEF InWindow, GrantedTo
<1> QED BY <1>1, Finite, FS_Subset, FS_CardinalityType

\* So are the requests, and those about to insert are no more than all.
LEMMA PendingFinite ==
    ASSUME NEW key
    PROVE  /\ IsFiniteSet(Pending(key)) /\ Cardinality(Pending(key)) \in Nat
           /\ Cardinality(Requests) \in Nat
           /\ Cardinality(Pending(key)) <= Cardinality(Requests)
<1>1. Pending(key) \subseteq Requests
    BY DEF Pending
<1> QED BY <1>1, Finite, FS_Subset, FS_CardinalityType

\* A part has no more members than the whole.
LEMMA Fewer ==
    ASSUME NEW S, NEW T, S \subseteq T, IsFiniteSet(T)
    PROVE  /\ IsFiniteSet(S) /\ Cardinality(S) \in Nat /\ Cardinality(T) \in Nat
           /\ Cardinality(S) <= Cardinality(T)
    BY FS_Subset, FS_CardinalityType

\* One more member counts one more at most.
LEMMA OneMore ==
    ASSUME NEW S, NEW T, NEW x, S \subseteq T \cup {x}, IsFiniteSet(T)
    PROVE  /\ IsFiniteSet(S) /\ Cardinality(S) \in Nat /\ Cardinality(T) \in Nat
           /\ Cardinality(S) <= Cardinality(T) + 1
<1>1. IsFiniteSet(T \cup {x}) /\ Cardinality(T \cup {x}) <= Cardinality(T) + 1
    <2>1. Cardinality(T) \in Nat
        BY FS_CardinalityType
    <2>2. /\ IsFiniteSet(T \cup {x})
          /\ \/ Cardinality(T \cup {x}) = Cardinality(T)
             \/ Cardinality(T \cup {x}) = Cardinality(T) + 1
        BY FS_AddElement
    <2> QED BY <2>1, <2>2
<1>2. Cardinality(T \cup {x}) \in Nat /\ Cardinality(T) \in Nat
    BY <1>1, FS_CardinalityType
<1>3. IsFiniteSet(S) /\ Cardinality(S) \in Nat /\ Cardinality(S) <= Cardinality(T \cup {x})
    BY <1>1, Fewer
<1> QED BY <1>1, <1>2, <1>3

\* A member taken away counts one less.
LEMMA OneLess ==
    ASSUME NEW S, NEW T, NEW x \in T, S \subseteq T \ {x}, IsFiniteSet(T)
    PROVE  /\ IsFiniteSet(S) /\ Cardinality(S) \in Nat /\ Cardinality(T) \in Nat
           /\ Cardinality(S) <= Cardinality(T) - 1
<1>1. IsFiniteSet(T \ {x}) /\ Cardinality(T \ {x}) = Cardinality(T) - 1
    BY FS_RemoveElement
<1>2. Cardinality(T \ {x}) \in Nat /\ Cardinality(T) \in Nat
    BY <1>1, FS_CardinalityType
<1>3. IsFiniteSet(S) /\ Cardinality(S) \in Nat /\ Cardinality(S) <= Cardinality(T \ {x})
    BY <1>1, Fewer
<1> QED BY <1>1, <1>2, <1>3

\* The count of a request below the limit is a count of all there is.
LEMMA CountSeesAll ==
    ASSUME IInv, NEW key \in Routes, NEW time \in Time, time <= now, ~ AtLimit(key, time)
    PROVE  Cardinality(Current(key)) < Limit
<1>1. Current(key) \subseteq Counted(key, time)
    <2>1. \A i \in Ids : granted[i] # None => granted[i].at \in Int
        BY DEF IInv, TypeOK, Hit, Time
    <2>2. now \in Int /\ time \in Int /\ Window \in Int
        BY Bounds DEF IInv, TypeOK, Time
    <2> QED BY <2>1, <2>2 DEF Current, Counted, InWindow, GrantedTo, IInv, Covers
<1>2. Counted(key, time) \subseteq InWindow(GrantedTo(key), time)
    BY DEF Counted, InWindow
<1>3. IsFiniteSet(Counted(key, time))
    BY <1>2, GrantedFinite, Fewer
<1>4. /\ Cardinality(Current(key)) <= Cardinality(Counted(key, time))
      /\ Cardinality(Current(key)) \in Nat /\ Cardinality(Counted(key, time)) \in Nat
    BY <1>1, <1>3, Fewer
<1>5. ~ (Cardinality(Counted(key, time)) >= Limit)
    BY DEF AtLimit
<1> QED BY <1>4, <1>5, Bounds

\* A count at the limit is one of granted hits.
LEMMA AtLimitGranted ==
    ASSUME NEW key, NEW time, AtLimit(key, time)
    PROVE  Cardinality(InWindow(GrantedTo(key), time)) >= Limit
<1>1. Counted(key, time) \subseteq InWindow(GrantedTo(key), time)
    BY DEF Counted, InWindow
<1>2. /\ Cardinality(Counted(key, time)) <= Cardinality(InWindow(GrantedTo(key), time))
      /\ Cardinality(Counted(key, time)) \in Nat
      /\ Cardinality(InWindow(GrantedTo(key), time)) \in Nat
    BY <1>1, GrantedFinite, Fewer
<1> QED BY <1>2, Bounds DEF AtLimit
-----------------------------------------------------------------------------
(* Steps *)

\* What a step does that grants nothing: no window gains a hit.
LEMMA NothingGranted ==
    ASSUME TypeOK, granted' = granted, now' \in Nat, now <= now', NEW key
    PROVE  /\ Current(key)' \subseteq Current(key)
           /\ Cardinality(Current(key)') \in Nat /\ Cardinality(Current(key)) \in Nat
           /\ Cardinality(Current(key)') <= Cardinality(Current(key))
           /\ now' = now => Current(key)' = Current(key)
<1>1. \A i \in Ids : granted[i] # None => granted[i].at \in Int
    BY DEF TypeOK, Hit, Time
<1>2. now \in Int /\ Window \in Int
    BY Bounds DEF TypeOK, Time
<1>3. Current(key)' \subseteq Current(key)
    BY <1>1, <1>2 DEF Current, InWindow, GrantedTo
<1>4. IsFiniteSet(Current(key))
    BY GrantedFinite DEF Current
<1>5. now' = now => Current(key)' = Current(key)
    BY DEF Current, InWindow, GrantedTo
<1> QED BY <1>3, <1>4, <1>5, Fewer

\* What a step does that grants a hit.
LEMMA HitGranted ==
    ASSUME TypeOK, NEW k \in Routes, NEW time \in Time, NEW i \in Ids, granted[i] = None,
           granted' = [granted EXCEPT ![i] = [key |-> k, at |-> time]]
    PROVE  /\ granted' \in [Ids -> Hit \cup {None}]
           /\ granted'[i] # None /\ granted'[i].key = k /\ granted'[i].at = time
           /\ \A j \in Ids : j # i => granted'[j] = granted[j]
<1>1. granted \in [Ids -> Hit \cup {None}]
    BY DEF TypeOK
<1> DEFINE new == [key |-> k, at |-> time]
<1>2. new \in Hit /\ new.key = k /\ new.at = time
    BY DEF Hit
<1>3. new # None
    BY <1>2, NoneIsNothing
<1>4. granted' = [granted EXCEPT ![i] = new]
    OBVIOUS
<1> HIDE DEF new
<1>5. granted' \in [Ids -> Hit \cup {None}] /\ granted'[i] = new
    BY <1>1, <1>2, <1>4
<1>6. \A j \in Ids : j # i => granted'[j] = granted[j]
    BY <1>1, <1>4
<1> QED BY <1>2, <1>3, <1>5, <1>6

\* The window of its key gains that one, the others nothing.
LEMMA WindowGains ==
    ASSUME TypeOK, NEW i \in Ids, granted[i] = None, now' = now,
           \A j \in Ids : j # i => granted'[j] = granted[j], NEW key
    PROVE  /\ granted'[i].key # key => Current(key)' = Current(key)
           /\ Cardinality(Current(key)') \in Nat /\ Cardinality(Current(key)) \in Nat
           /\ Cardinality(Current(key)') <= Cardinality(Current(key)) + 1
<1>1. Current(key)' \subseteq Current(key) \cup {i}
    BY DEF Current, InWindow, GrantedTo
<1>2. granted'[i].key # key => Current(key)' = Current(key)
    BY DEF Current, InWindow, GrantedTo
<1>3. IsFiniteSet(Current(key))
    BY GrantedFinite DEF Current
<1> QED BY <1>1, <1>2, <1>3, OneMore

\* Hits already granted are in no window of an earlier count too many.
LEMMA RefusalsStand ==
    ASSUME TypeOK, RefusedOnlyAtLimit, NEW r \in Requests, req'[r] = req[r], At(r, "refused"),
           \A j \in Ids : granted[j] # None => granted'[j] = granted[j]
    PROVE  Cardinality(InWindow(GrantedTo(req[r].key), req[r].at))' >= Limit
<1> DEFINE old == InWindow(GrantedTo(req[r].key), req[r].at)
           new == InWindow(GrantedTo(req[r].key), req[r].at)'
<1>1. old \subseteq new
    BY DEF InWindow, GrantedTo
<1>2. new \subseteq Ids
    BY DEF InWindow, GrantedTo
<1>3. IsFiniteSet(new)
    BY <1>2, Finite, FS_Subset
<1> HIDE DEF old, new
<1>4. Cardinality(old) <= Cardinality(new) /\ Cardinality(old) \in Nat /\ Cardinality(new) \in Nat
    BY <1>1, <1>3, Fewer
<1>5. Cardinality(old) >= Limit
    BY DEF old, RefusedOnlyAtLimit
<1>6. Cardinality(new) >= Limit
    BY <1>4, <1>5, Bounds
<1> QED BY <1>6 DEF new

-----------------------------------------------------------------------------
(* The invariant *)

\* At the start nothing has been granted.
LEMMA Initially == Init => IInv
<1> SUFFICES ASSUME Init PROVE IInv
    OBVIOUS
<1>1. TypeOK /\ Covers /\ HitsGranted /\ RefusedOnlyAtLimit
    BY Bounds DEF Init, TypeOK, Covers, HitsGranted, RefusedOnlyAtLimit, At, Time
<1>2. ASSUME NEW key PROVE Current(key) = {} /\ Pending(key) = {}
    BY DEF Init, Current, InWindow, GrantedTo, Pending, At
<1>3. Cardinality({}) = 0
    BY FS_EmptySet
<1>4. Budget
    <2> SUFFICES ASSUME NEW key \in Routes
                 PROVE  IF backend = "memory" THEN Cardinality(Current(key)) <= Limit
                        ELSE Cardinality(Current(key)) + Cardinality(Pending(key))
                                <= Limit + Cardinality(Requests) - 1
        BY DEF Budget
    <2>1. Cardinality(Requests) \in Nat
        BY PendingFinite
    <2>2. Cardinality(Current(key)) = 0 /\ Cardinality(Pending(key)) = 0
        BY <1>2, <1>3
    <2> QED BY <2>1, <2>2, Bounds
<1> QED BY <1>1, <1>4 DEF Init, IInv

\* Types.
LEMMA TypeStep == TypeOK /\ HitsGranted /\ [Next]_vars => TypeOK'
<1> SUFFICES ASSUME TypeOK, [Next]_vars PROVE TypeOK'
    OBVIOUS
<1>1. CASE UNCHANGED vars
    BY <1>1 DEF vars, TypeOK
<1>2. CASE Tick
    BY <1>2, Bounds DEF Tick, TypeOK, Time
<1>3. CASE Cleanup
    BY <1>3 DEF Cleanup, TypeOK
<1>4. ASSUME NEW stage \in {"count", "refused"}, NEW key \in Routes
      PROVE  NewRequest(stage, key) \in Request
    BY DEF NewRequest, Request, TypeOK
<1>5. ASSUME NEW r \in Requests, NEW key \in Routes, Start(r, key) PROVE TypeOK'
    <2>1. ASSUME NEW s \in Requests, req[s] # None
          PROVE  [req[s] EXCEPT !.alone = FALSE] \in Request
        BY <2>1 DEF TypeOK, Request
    <2>2. ASSUME NEW s \in Requests PROVE req'[s] \in Request \cup {None}
        BY <1>4, <1>5, <2>1 DEF Start, TypeOK
    <2>3. req' \in [Requests -> Request \cup {None}]
        BY <1>5, <2>2 DEF Start
    <2> QED BY <1>5, <2>3 DEF Start, TypeOK
<1>6. ASSUME NEW r \in Requests, NEW key \in Routes, MemoryCheck(r, key) PROVE TypeOK'
    <2>1. CASE AtLimit(key, now)
        BY <1>4, <1>6, <2>1 DEF MemoryCheck, TypeOK
    <2>2. CASE ~ AtLimit(key, now)
        <3>1. PICK i \in Ids :
                 /\ granted' = [granted EXCEPT ![i] = [key |-> key, at |-> now]]
                 /\ hits' = (hits \ (GrantedTo(key) \ Counted(key, now))) \cup {i}
            BY <1>6, <2>2 DEF MemoryCheck
        <3>2. [key |-> key, at |-> now] \in Hit
            BY DEF TypeOK, Hit
        <3> QED BY <1>6, <2>2, <3>1, <3>2 DEF MemoryCheck, TypeOK
    <2> QED BY <2>1, <2>2
<1>7. ASSUME NEW r \in Requests, Count(r) PROVE TypeOK'
    <2>1. req[r] \in Request
        BY <1>7 DEF Count, At, TypeOK
    <2>2. /\ [req[r] EXCEPT !.stage = "refused"] \in Request
          /\ [req[r] EXCEPT !.stage = "record",
                            !.purged = hits \ InWindow(hits, req[r].at)] \in Request
        BY <2>1 DEF Request, TypeOK
    <2> QED BY <1>7, <2>2 DEF Count, TypeOK
<1>8. ASSUME NEW r \in Requests, Record(r) PROVE TypeOK'
    <2>1. req[r] \in Request
        BY <1>8 DEF Record, At, TypeOK
    <2>2. PICK i \in Ids :
             /\ granted' = [granted EXCEPT ![i] = [key |-> req[r].key, at |-> req[r].at]]
             /\ hits' = (hits \ req[r].purged) \cup {i}
        BY <1>8 DEF Record
    <2>3. [key |-> req[r].key, at |-> req[r].at] \in Hit
        BY <2>1 DEF Request, Hit
    <2> QED BY <1>8, <2>2, <2>3 DEF Record, TypeOK
<1>9. ASSUME NEW r \in Requests, Refuse(r) \/ FailOpen(r) PROVE TypeOK'
    BY <1>9 DEF Refuse, FailOpen, End, TypeOK
<1> QED BY <1>1, <1>2, <1>3, <1>5, <1>6, <1>7, <1>8, <1>9 DEF Next

\* The purges leave what is in the window, and what is granted stays granted.
LEMMA HitsStep == IInv /\ [Next]_vars => Covers' /\ HitsGranted'
<1> SUFFICES ASSUME IInv, [Next]_vars PROVE Covers' /\ HitsGranted'
    OBVIOUS
<1>1. /\ now \in Int /\ Window \in Int /\ Retention \in Int /\ Retention >= Window
      /\ \A i \in Ids : granted[i] # None => granted[i].at \in Int
    BY Bounds DEF IInv, TypeOK, Time, Hit
<1>2. CASE UNCHANGED <<granted, hits, now>>
    BY <1>2 DEF IInv, Covers, HitsGranted
<1>3. CASE Tick
    BY <1>1, <1>3 DEF Tick, IInv, Covers, HitsGranted
<1>4. CASE Cleanup
    BY <1>1, <1>4 DEF Cleanup, IInv, Covers, HitsGranted
<1>5. ASSUME NEW r \in Requests, NEW key \in Routes, MemoryCheck(r, key)
      PROVE  Covers' /\ HitsGranted'
    <2> DEFINE left == hits \ (GrantedTo(key) \ Counted(key, now))
    <2>1. left \subseteq hits
        OBVIOUS
    <2>2. \A i \in Ids : granted[i] # None /\ granted[i].at >= now - Window => i \in left
        BY DEF Counted, InWindow, GrantedTo, IInv, Covers
    <2> HIDE DEF left
    <2>3. CASE AtLimit(key, now)
        BY <1>5, <2>1, <2>2, <2>3 DEF MemoryCheck, left, IInv, Covers, HitsGranted
    <2>4. CASE ~ AtLimit(key, now)
        <3>1. PICK i \in Ids :
                 /\ granted[i] = None
                 /\ granted' = [granted EXCEPT ![i] = [key |-> key, at |-> now]]
                 /\ hits' = left \cup {i}
            BY <1>5, <2>4 DEF MemoryCheck, left
        <3>2. now \in Time /\ now' = now
            BY <1>5 DEF MemoryCheck, IInv, TypeOK
        <3>3. /\ granted'[i] # None
              /\ \A j \in Ids : j # i => granted'[j] = granted[j]
            BY <3>1, <3>2, HitGranted DEF IInv
        <3> QED BY <2>1, <2>2, <3>1, <3>2, <3>3 DEF IInv, TypeOK, Covers, HitsGranted
    <2> QED BY <2>3, <2>4
<1>6. ASSUME NEW r \in Requests, Record(r) PROVE Covers' /\ HitsGranted'
    <2>1. req[r] \in Request /\ RequestInv(r)
        BY <1>6 DEF Record, At, IInv, TypeOK
    <2>2. PICK i \in Ids :
             /\ granted[i] = None
             /\ granted' = [granted EXCEPT ![i] = [key |-> req[r].key, at |-> req[r].at]]
             /\ hits' = (hits \ req[r].purged) \cup {i}
        BY <1>6 DEF Record
    <2>3. /\ req[r].key \in Routes /\ req[r].at \in Time /\ req[r].at \in Int
          /\ req[r].at <= now /\ now' = now
        BY <1>6, <2>1 DEF Request, Record, RequestInv, Time
    <2>4. /\ granted'[i] # None
          /\ \A j \in Ids : j # i => granted'[j] = granted[j]
        BY <2>2, <2>3, HitGranted DEF IInv
    <2>5. \A j \in Ids : granted[j] # None /\ granted[j].at >= now - Window
                            => j \notin req[r].purged
        BY <1>1, <2>1, <2>3 DEF RequestInv
    <2> QED BY <2>2, <2>3, <2>4, <2>5 DEF IInv, TypeOK, Covers, HitsGranted
<1>7. ASSUME NEW r \in Requests, NEW key \in Routes, Start(r, key)
      PROVE  UNCHANGED <<granted, hits, now>>
    BY <1>7 DEF Start
<1>8. ASSUME NEW r \in Requests, Count(r) \/ Refuse(r) \/ FailOpen(r)
      PROVE  UNCHANGED <<granted, hits, now>>
    BY <1>8 DEF Count, Refuse, FailOpen, End
<1> QED BY <1>2, <1>3, <1>4, <1>5, <1>6, <1>7, <1>8 DEF Next, vars

\* What is granted stays granted, on the key and at the time it was.
LEMMA GrantsLast ==
    ASSUME IInv, [Next]_vars
    PROVE  /\ \A j \in Ids : granted[j] # None => granted'[j] = granted[j]
           /\ now \in Nat /\ now' \in Nat /\ now <= now' /\ backend' = backend
<1> DEFINE Lasts == \A j \in Ids : granted[j] # None => granted'[j] = granted[j]
<1>1. now \in Nat /\ granted \in [Ids -> Hit \cup {None}]
    BY Bounds DEF IInv, TypeOK, Time
<1>2. CASE Tick
    BY <1>1, <1>2 DEF Tick
<1>3. CASE Cleanup \/ UNCHANGED vars
    BY <1>1, <1>3 DEF Cleanup, vars
<1>4. ASSUME NEW r \in Requests, NEW key \in Routes, Start(r, key) \/ MemoryCheck(r, key)
      PROVE  Lasts /\ now' = now /\ backend' = backend
    BY <1>1, <1>4 DEF Start, MemoryCheck
<1>5. ASSUME NEW r \in Requests, Count(r) \/ Record(r) \/ Refuse(r) \/ FailOpen(r)
      PROVE  Lasts /\ now' = now /\ backend' = backend
    BY <1>1, <1>5 DEF Count, Record, Refuse, FailOpen, End
<1> QED BY <1>1, <1>2, <1>3, <1>4, <1>5 DEF Next

\* A request a step leaves alone knows after it what it knew before, if the
\* step grants no hit on its key while it runs alone.
LEMMA OthersKnow ==
    ASSUME IInv, [Next]_vars, NEW q \in Requests, req[q] # None, req'[q] = req[q],
           NEW k, req[q].key = k,
           req[q].alone /\ backend = "postgres" =>
              /\ \A s \in Requests \ {q} : req'[s] # None => req'[s].key # k
              /\ Cardinality(Current(k)') <= Cardinality(Current(k))
    PROVE  RequestInv(q)'
<1>1. RequestInv(q) /\ req[q] \in Request /\ req[q].at \in Nat
    BY Bounds DEF IInv, TypeOK, Request, Time
<1>2. req'[q].at <= now'
    BY <1>1, GrantsLast DEF RequestInv
<1>3. \A i \in req'[q].purged : granted'[i] # None /\ granted'[i].at < req'[q].at - Window
    BY <1>1, GrantsLast DEF RequestInv, Request
<1>4. backend' = "memory" => req'[q].stage = "refused"
    BY <1>1, GrantsLast DEF RequestInv
<1>5. Cardinality(Current(k)) \in Nat /\ Cardinality(Current(k)') \in Nat
    <2>1. Current(k)' \subseteq Ids
        BY DEF Current, InWindow, GrantedTo
    <2> QED BY <2>1, Finite, FS_Subset, FS_CardinalityType, GrantedFinite DEF Current
<1>6. ASSUME backend' = "postgres", req'[q].alone
      PROVE  /\ \A s \in Requests \ {q} : req'[s] # None => req'[s].key # req'[q].key
             /\ req'[q].stage = "record" => Cardinality(Current(req[q].key)') < Limit
    <2>1. backend = "postgres"
        BY <1>6, GrantsLast
    <2>2. req[q].stage = "record" => Cardinality(Current(k)) < Limit
        BY <1>1, <1>6, <2>1 DEF RequestInv
    <2>3. req'[q].stage = "record" => Cardinality(Current(k)') < Limit
        BY <1>5, <1>6, <2>1, <2>2, Bounds
    <2>4. Current(req[q].key)' = Current(k)'
        BY DEF Current
    <2> QED BY <1>6, <2>1, <2>3, <2>4
<1> QED BY <1>2, <1>3, <1>4, <1>6 DEF RequestInv

\* What a request has counted, or was refused for, stays bounded by the grants on record.
LEMMA RequestStep ==
    ASSUME IInv, [Next]_vars, NEW q \in Requests, req'[q] # None
    PROVE  RequestInv(q)'
<1>1. TypeOK /\ req \in [Requests -> Request \cup {None}]
    BY DEF IInv, TypeOK
<1>2. ASSUME granted' = granted
      PROVE  \A key : Cardinality(Current(key)') <= Cardinality(Current(key))
    BY <1>1, <1>2, GrantsLast, NothingGranted
<1>3. CASE UNCHANGED vars \/ Tick \/ Cleanup
    BY <1>2, <1>3, OthersKnow DEF vars, Tick, Cleanup, IInv, RequestInv
<1>4. ASSUME NEW r \in Requests, NEW key \in Routes, Start(r, key) PROVE RequestInv(q)'
    <2>1. granted' = granted /\ now' = now /\ backend' = backend /\ req[r] = None
        BY <1>4 DEF Start
    <2>2. CASE q = r
        <3>1. req'[q] = NewRequest("count", key) /\ backend = "postgres"
            BY <1>4, <2>2 DEF Start
        <3>2. /\ req'[q].stage = "count" /\ req'[q].at = now /\ req'[q].purged = {}
              /\ req'[q].key = key
              /\ req'[q].alone = \A s \in Requests : req[s] # None => req[s].key # key
            BY <3>1 DEF NewRequest
        <3>3. ASSUME NEW s \in Requests \ {q}, req'[q].alone, req'[s] # None
              PROVE  req'[s].key # key
            BY <1>4, <2>2, <3>2, <3>3 DEF Start
        <3>4. now <= now
            BY GrantsLast
        <3> QED BY <2>1, <3>1, <3>2, <3>3, <3>4 DEF RequestInv
    <2>3. CASE q # r /\ req[q].key = key
        <3>1. req[q] \in Request /\ req'[q] = [req[q] EXCEPT !.alone = FALSE]
            BY <1>1, <1>4, <2>3 DEF Start
        <3>2. /\ req'[q].at = req[q].at /\ req'[q].purged = req[q].purged
              /\ req'[q].stage = req[q].stage /\ req'[q].alone = FALSE
            BY <3>1 DEF Request
        <3>3. RequestInv(q)
            BY <1>4, <2>3 DEF Start, IInv
        <3> QED BY <2>1, <3>2, <3>3 DEF RequestInv
    <2>4. CASE q # r /\ req[q].key # key
        <3>1. req'[q] = req[q] /\ req[q] # None
            BY <1>4, <2>4 DEF Start
        <3>2. req'[r].key = key
            BY <1>4 DEF Start, NewRequest
        <3>3. ASSUME NEW s \in Requests, s # r, req'[s] # None
              PROVE  req[s] # None /\ req'[s].key = req[s].key
            BY <1>1, <1>4, <3>3 DEF Start, Request
        <3>4. RequestInv(q)
            BY <3>1 DEF IInv
        <3>5. req[q].alone /\ backend = "postgres" =>
                 \A s \in Requests \ {q} : req'[s] # None => req'[s].key # req[q].key
            BY <2>4, <3>2, <3>3, <3>4 DEF RequestInv
        <3> QED BY <1>2, <2>1, <3>1, <3>5, OthersKnow
    <2> QED BY <2>2, <2>3, <2>4
<1>5. ASSUME NEW r \in Requests, NEW key \in Routes, MemoryCheck(r, key) PROVE RequestInv(q)'
    <2>1. backend = "memory" /\ backend' = "memory" /\ now' = now
        BY <1>5 DEF MemoryCheck
    <2>2. CASE q = r
        <3>1. AtLimit(key, now) /\ req'[q] = NewRequest("refused", key)
            BY <1>1, <1>5, <2>2 DEF MemoryCheck
        <3>2. req'[q].stage = "refused" /\ req'[q].at = now /\ req'[q].purged = {}
            BY <3>1 DEF NewRequest
        <3> QED BY <2>1, <3>2, GrantsLast DEF RequestInv
    <2>3. CASE q # r
        <3>1. req'[q] = req[q] /\ req[q] # None
            BY <1>1, <1>5, <2>3 DEF MemoryCheck
        <3> QED BY <2>1, <3>1, OthersKnow
    <2> QED BY <2>2, <2>3
<1>6. ASSUME NEW r \in Requests, Count(r) PROVE RequestInv(q)'
    <2>1. /\ granted' = granted /\ now' = now /\ backend' = backend /\ hits' = hits
          /\ req[r] # None /\ req[r] \in Request /\ req[r].stage = "count" /\ RequestInv(r)
        BY <1>1, <1>6 DEF Count, At, IInv
    <2>2. \A s \in Requests : (req'[s] # None => req[s] # None /\ req'[s].key = req[s].key)
        BY <1>1, <1>6, <2>1 DEF Count, Request
    <2>3. CASE q = r /\ AtLimit(req[r].key, req[r].at)
        <3>1. req'[q] = [req[q] EXCEPT !.stage = "refused"]
            BY <1>1, <1>6, <2>3 DEF Count
        <3>2. /\ req'[q].at = req[q].at /\ req'[q].purged = req[q].purged
              /\ req'[q].key = req[q].key
              /\ req'[q].stage = "refused" /\ req'[q].alone = req[q].alone
            BY <2>1, <2>3, <3>1 DEF Request
        <3> QED BY <2>1, <2>2, <2>3, <3>2 DEF RequestInv
    <2>4. CASE q = r /\ ~ AtLimit(req[r].key, req[r].at)
        <3>1. req'[q] = [req[q] EXCEPT !.stage = "record",
                                       !.purged = hits \ InWindow(hits, req[q].at)]
            BY <1>1, <1>6, <2>4 DEF Count
        <3>2. /\ req'[q].at = req[q].at /\ req'[q].stage = "record"
              /\ req'[q].purged = hits \ InWindow(hits, req[q].at)
              /\ req'[q].alone = req[q].alone /\ req'[q].key = req[q].key
            BY <2>1, <2>4, <3>1 DEF Request
        <3>3. ASSUME NEW i \in req'[q].purged
              PROVE  granted[i] # None /\ granted[i].at < req[q].at - Window
            <4>1. i \in Ids /\ granted[i] # None /\ ~ (granted[i].at >= req[q].at - Window)
                BY <3>2 DEF InWindow, IInv, HitsGranted, TypeOK
            <4>2. granted[i].at \in Int /\ req[q].at \in Int /\ Window \in Int
                BY <2>1, <2>4, <4>1, Bounds DEF IInv, TypeOK, Hit, Request, Time
            <4> QED BY <4>1, <4>2
        <3>4. Cardinality(Current(req[q].key)) < Limit
            <4>1. req[q].key \in Routes /\ req[q].at \in Time /\ req[q].at <= now
                BY <2>1, <2>4 DEF Request, RequestInv
            <4> QED BY <2>4, <4>1, CountSeesAll
        <3>5. PICK k \in Routes : k = req[q].key /\ k = req'[q].key
            BY <2>1, <2>4, <3>2 DEF Request
        <3>6. Cardinality(Current(req[q].key)') < Limit
            <4>1. Current(k)' = Current(k)
                BY <1>1, <2>1, NothingGranted, GrantsLast
            <4>2. Current(req[q].key)' = Current(k)' /\ Current(req[q].key) = Current(k)
                BY <3>5 DEF Current
            <4> QED BY <3>4, <4>1, <4>2
        <3>7. backend = "postgres" /\ req[q].alone =>
                 \A s \in Requests \ {q} : req'[s] # None => req'[s].key # req'[q].key
            BY <2>1, <2>2, <2>4, <3>2 DEF RequestInv
        <3>8. backend # "memory" /\ req'[q].at <= now'
            BY <2>1, <2>4, <3>2 DEF RequestInv
        <3> QED BY <2>1, <3>2, <3>3, <3>6, <3>7, <3>8 DEF RequestInv
    <2>5. CASE q # r
        <3>1. req'[q] = req[q] /\ RequestInv(q)
            BY <1>1, <1>6, <2>5 DEF Count, IInv
        <3> QED BY <1>2, <2>1, <2>2, <3>1, OthersKnow DEF RequestInv
    <2> QED BY <2>3, <2>4, <2>5
<1>7. ASSUME NEW r \in Requests, Record(r) PROVE RequestInv(q)'
    <2>1. /\ req[r] # None /\ req[r] \in Request /\ q # r /\ now' = now
          /\ req'[q] = req[q] /\ RequestInv(q)
          /\ \A s \in Requests : req'[s] # None => req'[s] = req[s]
        BY <1>1, <1>7 DEF Record, At, IInv
    <2>2. PICK i \in Ids :
             /\ granted[i] = None
             /\ granted' = [granted EXCEPT ![i] = [key |-> req[r].key, at |-> req[r].at]]
        BY <1>7 DEF Record
    <2>3. req[r].key \in Routes /\ req[r].at \in Time
        BY <2>1 DEF Request
    <2> PICK key, time, k : key = req[r].key /\ time = req[r].at /\ k = req[q].key
        OBVIOUS
    <2>4. k # key => Current(k)' = Current(k)
        <3>1. granted' = [granted EXCEPT ![i] = [key |-> key, at |-> time]]
            BY <2>2
        <3>2. key \in Routes /\ time \in Time
            BY <2>3
        <3>3. granted'[i].key = key /\ \A j \in Ids : j # i => granted'[j] = granted[j]
            <4>1. TypeOK /\ granted[i] = None
                BY <1>1, <2>2
            <4> HIDE <1>1, <2>2
            <4> QED BY <3>1, <3>2, <4>1, HitGranted
        <3> QED BY <1>1, <2>1, <2>2, <3>3, WindowGains
    <2>5. Cardinality(Current(k)) \in Nat
        BY GrantedFinite DEF Current
    <2>6. req[q].alone /\ backend = "postgres" =>
             /\ \A s \in Requests \ {q} : req'[s] # None => req'[s].key # k
             /\ Cardinality(Current(k)') <= Cardinality(Current(k))
        BY <2>1, <2>4, <2>5 DEF RequestInv
    <2> QED BY <2>1, <2>6, OthersKnow
<1>8. ASSUME NEW r \in Requests, Refuse(r) \/ FailOpen(r) PROVE RequestInv(q)'
    <2>1. granted' = granted /\ \A s \in Requests : req'[s] # None => req'[s] = req[s]
        BY <1>1, <1>8 DEF Refuse, FailOpen, End
    <2>2. req'[q] = req[q] /\ RequestInv(q)
        BY <2>1 DEF IInv
    <2> QED BY <1>2, <2>1, <2>2, OthersKnow DEF RequestInv
<1> QED BY <1>3, <1>4, <1>5, <1>6, <1>7, <1>8 DEF Next

\* A step that grants nothing and counts nobody stays in the budget.
LEMMA WithinBudget ==
    ASSUME IInv, [Next]_vars, granted' = granted,
           \A r \in Requests : At(r, "record")' => req'[r] = req[r]
    PROVE  Budget'
<1> SUFFICES ASSUME NEW key \in Routes
             PROVE  IF backend = "memory" THEN Cardinality(Current(key)') <= Limit
                    ELSE Cardinality(Current(key)') + Cardinality(Pending(key)')
                            <= Limit + Cardinality(Requests) - 1
    BY GrantsLast DEF Budget
<1>1. /\ Cardinality(Current(key)') <= Cardinality(Current(key))
      /\ Cardinality(Current(key)') \in Nat /\ Cardinality(Current(key)) \in Nat
    BY NothingGranted, GrantsLast DEF IInv
<1>2. Pending(key)' \subseteq Pending(key)
    BY DEF Pending, At
<1>3. /\ Cardinality(Pending(key)') <= Cardinality(Pending(key))
      /\ Cardinality(Pending(key)') \in Nat /\ Cardinality(Pending(key)) \in Nat
    BY <1>2, PendingFinite, Fewer
<1>4. Cardinality(Requests) \in Nat
    BY PendingFinite
<1> QED BY <1>1, <1>3, <1>4, Bounds DEF IInv, Budget

\* Every step keeps the grants and those under way within the limit and the overlap.
LEMMA BudgetStep == IInv /\ [Next]_vars => Budget'
<1> SUFFICES ASSUME IInv, [Next]_vars PROVE Budget'
    OBVIOUS
<1>1. req \in [Requests -> Request \cup {None}] /\ Cardinality(Requests) \in Nat
    BY PendingFinite DEF IInv, TypeOK
<1>2. CASE Tick \/ Cleanup \/ UNCHANGED vars
    BY <1>2, WithinBudget DEF Tick, Cleanup, vars
<1>3. ASSUME NEW r \in Requests, NEW key \in Routes, Start(r, key) PROVE Budget'
    <2>1. ASSUME NEW s \in Requests, At(s, "record")' PROVE req'[s] = req[s] \/ req[s].key = key
        BY <1>1, <1>3, <2>1 DEF Start, At, NewRequest
    <2>2. granted' = granted /\ backend = "postgres" /\ backend' = backend
        BY <1>3 DEF Start
    <2>3. ASSUME NEW k \in Routes
          PROVE  Cardinality(Current(k)') + Cardinality(Pending(k)')
                    <= Limit + Cardinality(Requests) - 1
        <3>1. /\ Cardinality(Current(k)') <= Cardinality(Current(k))
              /\ Cardinality(Current(k)') \in Nat /\ Cardinality(Current(k)) \in Nat
            BY <2>2, NothingGranted, GrantsLast DEF IInv
        <3>2. ASSUME NEW s \in Requests, At(s, "record")'
              PROVE  At(s, "record") /\ req'[s].key = req[s].key
            BY <1>1, <1>3, <3>2 DEF Start, At, NewRequest, Request
        <3>3. Pending(k)' \subseteq Pending(k)
            BY <3>2 DEF Pending
        <3>4. /\ Cardinality(Pending(k)') <= Cardinality(Pending(k))
              /\ Cardinality(Pending(k)') \in Nat /\ Cardinality(Pending(k)) \in Nat
            BY <3>3, PendingFinite, Fewer
        <3> QED BY <1>1, <2>2, <3>1, <3>4, Bounds DEF IInv, Budget
    <2> QED BY <2>2, <2>3 DEF Budget
<1>4. ASSUME NEW r \in Requests, NEW key \in Routes, MemoryCheck(r, key) PROVE Budget'
    <2>1. backend = "memory" /\ backend' = "memory" /\ now' = now /\ now \in Time /\ now <= now
        BY <1>4, GrantsLast DEF MemoryCheck, IInv, TypeOK
    <2>2. CASE AtLimit(key, now)
        BY <1>1, <1>4, <2>1, <2>2, WithinBudget DEF MemoryCheck, At, NewRequest
    <2>3. CASE ~ AtLimit(key, now)
        <3>1. PICK i \in Ids :
                 /\ granted[i] = None
                 /\ granted' = [granted EXCEPT ![i] = [key |-> key, at |-> now]]
            BY <1>4, <2>3 DEF MemoryCheck
        <3>2. Cardinality(Current(key)) < Limit
            BY <2>1, <2>3, CountSeesAll
        <3>3. PICK time \in Time : time = now
            BY <2>1
        <3>4. granted' = [granted EXCEPT ![i] = [key |-> key, at |-> time]]
            BY <3>1, <3>3
        <3>5. ASSUME NEW k \in Routes PROVE Cardinality(Current(k)') <= Limit
            <4>1. /\ k # key => Current(k)' = Current(k)
                  /\ Cardinality(Current(k)') \in Nat /\ Cardinality(Current(k)) \in Nat
                  /\ Cardinality(Current(k)') <= Cardinality(Current(k)) + 1
                <5>1. granted'[i].key = key /\ \A j \in Ids : j # i => granted'[j] = granted[j]
                    BY <3>1, <3>4, HitGranted DEF IInv
                <5> QED BY <2>1, <3>1, <5>1, WindowGains DEF IInv
            <4>2. CASE k = key
                BY <3>2, <4>1, <4>2, Bounds
            <4>3. CASE k # key
                BY <2>1, <4>1, <4>3 DEF IInv, Budget
            <4> QED BY <4>2, <4>3
        <3> QED BY <2>1, <3>5 DEF Budget
    <2> QED BY <2>2, <2>3
<1>5. ASSUME NEW r \in Requests, Count(r) PROVE Budget'
    <2>1. /\ granted' = granted /\ backend' = backend /\ req[r] \in Request /\ req[r] # None
          /\ RequestInv(r)
        BY <1>1, <1>5 DEF Count, At, IInv
    <2>2. CASE AtLimit(req[r].key, req[r].at)
        <3>1. req'[r].stage = "refused" /\ \A s \in Requests \ {r} : req'[s] = req[s]
            BY <1>1, <1>5, <2>1, <2>2 DEF Count, Request
        <3> QED BY <2>1, <3>1, WithinBudget DEF At
    <2>3. CASE ~ AtLimit(req[r].key, req[r].at)
        <3>1. req'[r].key = req[r].key /\ \A s \in Requests \ {r} : req'[s] = req[s]
            BY <1>1, <1>5, <2>1, <2>3 DEF Count, Request
        <3>2. PICK k \in Routes : k = req[r].key
            BY <2>1 DEF Request
        <3>3. Cardinality(Current(k)) < Limit
            BY <2>1, <2>3, <3>2, CountSeesAll DEF Request, RequestInv
        <3>4. backend # "memory"
            BY <1>5 DEF Count, At, IInv, RequestInv
        <3>5. ASSUME NEW key \in Routes
              PROVE  Cardinality(Current(key)') + Cardinality(Pending(key)')
                        <= Limit + Cardinality(Requests) - 1
            <4>1. /\ Cardinality(Current(key)') <= Cardinality(Current(key))
                  /\ Cardinality(Current(key)') \in Nat /\ Cardinality(Current(key)) \in Nat
                BY <2>1, NothingGranted, GrantsLast DEF IInv
            <4>2. CASE key = k
                <5>1. Pending(key)' \subseteq Requests
                    BY DEF Pending
                <5>2. /\ Cardinality(Pending(key)') <= Cardinality(Requests)
                      /\ Cardinality(Pending(key)') \in Nat
                    BY <5>1, Finite, Fewer
                <5> QED BY <1>1, <3>3, <4>1, <4>2, <5>2, Bounds
            <4>3. CASE key # k
                <5>1. Pending(key)' \subseteq Pending(key)
                    BY <3>1, <3>2, <4>3 DEF Pending, At
                <5>2. /\ Cardinality(Pending(key)') <= Cardinality(Pending(key))
                      /\ Cardinality(Pending(key)') \in Nat /\ Cardinality(Pending(key)) \in Nat
                    BY <5>1, PendingFinite, Fewer
                <5> QED BY <1>1, <3>4, <4>1, <5>2, Bounds DEF IInv, Budget
            <4> QED BY <4>2, <4>3
        <3> QED BY <2>1, <3>4, <3>5 DEF Budget
    <2> QED BY <2>2, <2>3
<1>6. ASSUME NEW r \in Requests, Record(r) PROVE Budget'
    <2>1. /\ req[r] # None /\ req[r] \in Request /\ now' = now /\ backend' = backend
          /\ req[r].stage = "record" /\ RequestInv(r) /\ req' = [req EXCEPT ![r] = None]
        BY <1>1, <1>6 DEF Record, At, IInv
    <2>2. backend # "memory"
        BY <2>1 DEF RequestInv
    <2>3. PICK k \in Routes, time \in Time : k = req[r].key /\ time = req[r].at
        BY <2>1 DEF Request
    <2>4. PICK i \in Ids :
             /\ granted[i] = None
             /\ granted' = [granted EXCEPT ![i] = [key |-> k, at |-> time]]
        BY <1>6, <2>3 DEF Record
    <2>5. ASSUME NEW key \in Routes
          PROVE  Cardinality(Current(key)') + Cardinality(Pending(key)')
                    <= Limit + Cardinality(Requests) - 1
        <3>1. /\ key # k => Current(key)' = Current(key)
              /\ Cardinality(Current(key)') \in Nat /\ Cardinality(Current(key)) \in Nat
              /\ Cardinality(Current(key)') <= Cardinality(Current(key)) + 1
            <4>1. granted'[i].key = k /\ \A j \in Ids : j # i => granted'[j] = granted[j]
                BY <2>4, HitGranted DEF IInv
            <4> QED BY <2>1, <2>4, <4>1, WindowGains DEF IInv
        <3>2. Pending(key)' \subseteq Pending(key) \ {r}
            BY <1>1, <2>1 DEF Pending, At
        <3>3. /\ Cardinality(Pending(key)') <= Cardinality(Pending(key))
              /\ Cardinality(Pending(key)') \in Nat /\ Cardinality(Pending(key)) \in Nat
            BY <3>2, PendingFinite, Fewer
        <3>4. CASE key = k
            <4>1. r \in Pending(key)
                BY <2>1, <2>3, <3>4 DEF Pending, At
            <4>2. Cardinality(Pending(key)') <= Cardinality(Pending(key)) - 1
                BY <3>2, <4>1, PendingFinite, OneLess
            <4> QED BY <1>1, <2>2, <3>1, <3>3, <4>2, Bounds DEF IInv, Budget
        <3>5. CASE key # k
            BY <1>1, <2>2, <3>1, <3>3, <3>5, Bounds DEF IInv, Budget
        <3> QED BY <3>4, <3>5
    <2> QED BY <2>1, <2>2, <2>5 DEF Budget
<1>7. ASSUME NEW r \in Requests, Refuse(r) \/ FailOpen(r) PROVE Budget'
    BY <1>1, <1>7, WithinBudget DEF Refuse, FailOpen, End, At
<1> QED BY <1>2, <1>3, <1>4, <1>5, <1>6, <1>7 DEF Next

\* A refusal keeps its reason: as many grants as the limit in the window it was judged by.
LEMMA RefusalStep == IInv /\ [Next]_vars => RefusedOnlyAtLimit'
<1> SUFFICES ASSUME IInv, [Next]_vars, NEW q \in Requests, At(q, "refused")'
             PROVE  Cardinality(InWindow(GrantedTo(req[q].key), req[q].at))' >= Limit
    BY DEF RefusedOnlyAtLimit
<1>1. TypeOK /\ RefusedOnlyAtLimit /\ req \in [Requests -> Request \cup {None}]
    BY DEF IInv, TypeOK
<1>2. CASE At(q, "refused") /\ req'[q] = req[q]
    BY <1>1, <1>2, GrantsLast, RefusalsStand
<1>3. ASSUME NEW k, NEW time, k = req'[q].key, time = req'[q].at, AtLimit(k, time),
             granted' = granted
      PROVE  Cardinality(InWindow(GrantedTo(req[q].key), req[q].at))' >= Limit
    <2>1. Cardinality(InWindow(GrantedTo(k), time)) >= Limit
        BY <1>3, AtLimitGranted
    <2> QED BY <1>3, <2>1 DEF InWindow, GrantedTo
<1>4. CASE Tick \/ Cleanup \/ UNCHANGED vars
    BY <1>2, <1>4 DEF Tick, Cleanup, vars, At
<1>5. ASSUME NEW r \in Requests, NEW key \in Routes, Start(r, key)
      PROVE  At(q, "refused")
    BY <1>1, <1>5 DEF Start, At, NewRequest, Request
<1>6. ASSUME NEW r \in Requests, NEW key \in Routes, Start(r, key)
      PROVE  Cardinality(InWindow(GrantedTo(req[q].key), req[q].at))' >= Limit
    <2>1. At(q, "refused") /\ q # r
        BY <1>5, <1>6 DEF Start, At
    <2>2. req'[q].key = req[q].key /\ req'[q].at = req[q].at /\ granted' = granted
        BY <1>1, <1>6, <2>1 DEF Start, At, Request
    <2>3. Cardinality(InWindow(GrantedTo(req[q].key), req[q].at)) >= Limit
        BY <1>1, <2>1 DEF RefusedOnlyAtLimit
    <2> QED BY <2>2, <2>3 DEF InWindow, GrantedTo
<1>7. ASSUME NEW r \in Requests, NEW key \in Routes, MemoryCheck(r, key)
      PROVE  Cardinality(InWindow(GrantedTo(req[q].key), req[q].at))' >= Limit
    <2>1. CASE q # r \/ ~ AtLimit(key, now)
        <3>1. req'[q] = req[q]
            BY <1>1, <1>7, <2>1 DEF MemoryCheck
        <3> QED BY <1>2, <3>1 DEF At
    <2>2. CASE q = r /\ AtLimit(key, now)
        <3>1. req'[q] = NewRequest("refused", key) /\ granted' = granted
            BY <1>1, <1>7, <2>2 DEF MemoryCheck
        <3>2. req'[q].key = key /\ req'[q].at = now
            BY <3>1 DEF NewRequest
        <3>3. PICK time : time = now
            OBVIOUS
        <3> QED BY <1>3, <2>2, <3>1, <3>2, <3>3
    <2> QED BY <2>1, <2>2
<1>8. ASSUME NEW r \in Requests, Count(r)
      PROVE  Cardinality(InWindow(GrantedTo(req[q].key), req[q].at))' >= Limit
    <2>1. CASE q # r
        BY <1>1, <1>2, <1>8, <2>1 DEF Count, At
    <2>2. CASE q = r
        <3>1. req[q] \in Request /\ granted' = granted
            BY <1>1, <1>8, <2>2 DEF Count, At
        <3>2. AtLimit(req[q].key, req[q].at)
            BY <1>1, <1>8, <2>2, <3>1 DEF Count, At, Request
        <3>3. req'[q].key = req[q].key /\ req'[q].at = req[q].at
            BY <1>1, <1>8, <2>2, <3>1, <3>2 DEF Count, Request
        <3>4. PICK k, time : k = req[q].key /\ time = req[q].at
            OBVIOUS
        <3> QED BY <1>3, <3>1, <3>2, <3>3, <3>4
    <2> QED BY <2>1, <2>2
<1>9. ASSUME NEW r \in Requests, Record(r) \/ Refuse(r) \/ FailOpen(r)
      PROVE  Cardinality(InWindow(GrantedTo(req[q].key), req[q].at))' >= Limit
    <2>1. req'[q] = req[q]
        BY <1>1, <1>9 DEF Record, Refuse, FailOpen, End, At
    <2> QED BY <1>2, <2>1 DEF At
<1> QED BY <1>4, <1>6, <1>7, <1>8, <1>9 DEF Next

\* The inductive invariant holds in every state the limiter can reach.
THEOREM Invariance == Spec => []IInv
<1>1. ASSUME IInv, [Next]_vars PROVE IInv'
    <2>1. TypeOK' /\ Covers' /\ HitsGranted'
        BY <1>1, TypeStep, HitsStep DEF IInv
    <2>2. \A r \in Requests : req'[r] # None => RequestInv(r)'
        BY <1>1, RequestStep
    <2>3. Budget' /\ RefusedOnlyAtLimit'
        BY <1>1, BudgetStep, RefusalStep
    <2> QED BY <2>1, <2>2, <2>3 DEF IInv
<1>2. IInv /\ [Next]_vars => IInv'
    BY <1>1
<1> QED BY <1>2, Initially, PTL DEF Spec

\* The variables keep their types.
THEOREM TypeCorrectness == Spec => []TypeOK
<1>1. IInv => TypeOK
    BY DEF IInv
<1> QED BY <1>1, Invariance, PTL

\* Neither limiter grants more than its limit and the requests that overlap.
THEOREM GrantsBounded == Spec => []ExcessBoundedByOverlap
<1>1. ASSUME IInv, NEW key \in Routes
      PROVE  Cardinality(InWindow(GrantedTo(key), now))
                <= IF backend = "memory" THEN Limit ELSE Limit + Cardinality(Requests) - 1
    <2>1. Cardinality(Current(key)) \in Nat /\ Cardinality(Pending(key)) \in Nat
        BY GrantedFinite, PendingFinite DEF Current
    <2>2. Cardinality(Requests) \in Nat
        BY PendingFinite
    <2>3. IF backend = "memory" THEN Cardinality(Current(key)) <= Limit
          ELSE Cardinality(Current(key)) + Cardinality(Pending(key))
                  <= Limit + Cardinality(Requests) - 1
        BY <1>1 DEF IInv, Budget
    <2> QED BY <2>1, <2>2, <2>3, Bounds DEF Current
<1>2. IInv => ExcessBoundedByOverlap
    BY <1>1 DEF ExcessBoundedByOverlap
<1> QED BY <1>2, Invariance, PTL

\* A refusal is for Limit requests granted in the window.
THEOREM RefusalsDeserved == Spec => []RefusedOnlyAtLimit
<1>1. IInv => RefusedOnlyAtLimit
    BY DEF IInv
<1> QED BY <1>1, Invariance, PTL

\* A request that overlapped no other on its key is granted below the limit:
\* while it runs alone nothing is granted on the key.
THEOREM AloneGrantedBelowLimit == Spec => GrantedAloneBelowLimit
<1>1. ASSUME IInv, [Next]_vars, NEW r \in Requests,
             At(r, "record"), req[r].alone, granted' # granted, req'[r] = None
      PROVE  Cardinality(InWindow(GrantedTo(req[r].key), now)) < Limit
    <2>1. req[r] # None /\ RequestInv(r) /\ req[r].stage = "record"
        BY <1>1 DEF IInv, At
    <2>2. backend = "postgres"
        BY <1>1, <2>1 DEF RequestInv, IInv, TypeOK
    <2> QED BY <1>1, <2>1, <2>2 DEF RequestInv, Current
<1>2. IInv /\ [Next]_vars =>
        [\A r \in Requests :
            At(r, "record") /\ req[r].alone /\ granted' # granted /\ req'[r] = None
               => Cardinality(InWindow(GrantedTo(req[r].key), now)) < Limit]_vars
    BY <1>1
<1> QED BY <1>2, Invariance, PTL DEF Spec, GrantedAloneBelowLimit

-----------------------------------------------------------------------------
(* A key whose requests come one after another *)

\* No two requests on the key are in flight at once.
OneByOne(key) ==
    \A r, s \in Requests :
        req[r] # None /\ req[s] # None /\ req[r].key = key /\ req[s].key = key => r = s

\* Then each of them knows itself alone, and the limit holds.
SerialInv(key) ==
    /\ Cardinality(Current(key)) <= Limit
    /\ \A r \in Requests : req[r] # None /\ req[r].key = key => req[r].alone

\* Whoever begins finds no other on the key.
LEMMA AloneStep ==
    ASSUME IInv, [Next]_vars, NEW key \in Routes, SerialInv(key), OneByOne(key)',
           NEW r \in Requests, req'[r] # None, req'[r].key = key
    PROVE  req'[r].alone
<1>1. req \in [Requests -> Request \cup {None}]
    BY DEF IInv, TypeOK
<1>2. CASE req[r] # None /\ req'[r].key = req[r].key /\ req'[r].alone = req[r].alone
    BY <1>2 DEF SerialInv
<1>3. CASE Tick \/ Cleanup \/ UNCHANGED vars
    BY <1>2, <1>3 DEF Tick, Cleanup, vars
<1>4. ASSUME NEW s \in Requests, NEW k \in Routes, Start(s, k) PROVE req'[r].alone
    <2>1. CASE r = s
        <3>1. req'[r] = NewRequest("count", k)
            BY <1>1, <1>4, <2>1 DEF Start
        <3>2. k = key
            BY <3>1 DEF NewRequest
        <3>3. ASSUME NEW q \in Requests, req[q] # None, req[q].key = key PROVE FALSE
            <4>1. q # r
                BY <1>4, <2>1, <3>3 DEF Start
            <4>2. req'[q] = [req[q] EXCEPT !.alone = FALSE] /\ req[q] \in Request
                BY <1>1, <1>4, <2>1, <3>2, <3>3, <4>1 DEF Start
            <4>3. req'[q] \in Request /\ req'[q].key = key
                BY <3>3, <4>2 DEF Request
            <4>4. req'[q] # None
                BY <4>3, NoneIsNothing
            <4> QED BY <4>1, <4>3, <4>4 DEF OneByOne
        <3> QED BY <3>1, <3>2, <3>3 DEF NewRequest
    <2>2. CASE r # s
        <3>1. CASE req'[r] = req[r]
            BY <1>2, <3>1
        <3>2. CASE req[r] # None /\ req[r].key = k /\ req'[r] = [req[r] EXCEPT !.alone = FALSE]
            <4>1. k = key
                BY <1>1, <3>2 DEF Request
            <4>2. req'[s] = NewRequest("count", k) /\ req'[s].key = key
                BY <1>4, <4>1 DEF Start, NewRequest
            <4>3. NewRequest("count", k) \in Request
                BY <1>1 DEF NewRequest, Request, IInv, TypeOK
            <4>4. req'[s] # None
                BY <4>2, <4>3, NoneIsNothing
            <4> QED BY <2>2, <4>2, <4>4 DEF OneByOne
        <3> QED BY <1>1, <1>4, <2>2, <3>1, <3>2 DEF Start
    <2> QED BY <2>1, <2>2
<1>5. ASSUME NEW s \in Requests, NEW k \in Routes, MemoryCheck(s, k) PROVE req'[r].alone
    <2>1. CASE req' = req
        BY <1>2, <2>1
    <2>2. CASE req' = [req EXCEPT ![s] = NewRequest("refused", k)]
        <3>1. CASE r = s
            <4>1. req'[r] = NewRequest("refused", k)
                BY <1>1, <2>2, <3>1
            <4>2. ASSUME NEW q \in Requests, req[q] # None, req[q].key = k PROVE FALSE
                <5>1. q # s /\ req'[q] = req[q]
                    BY <1>1, <1>5, <2>2, <4>2 DEF MemoryCheck
                <5> QED BY <3>1, <4>1, <4>2, <5>1 DEF OneByOne, NewRequest
            <4> QED BY <4>1, <4>2 DEF NewRequest
        <3>2. CASE r # s
            BY <1>1, <1>2, <2>2, <3>2
        <3> QED BY <3>1, <3>2
    <2> QED BY <1>5, <2>1, <2>2 DEF MemoryCheck
<1>6. ASSUME NEW s \in Requests, Count(s) \/ Record(s) \/ Refuse(s) \/ FailOpen(s)
      PROVE  req'[r].alone
    <2>1. CASE r = s
        <3>1. Count(s)
            BY <1>1, <1>6, <2>1 DEF Record, Refuse, FailOpen, End
        <3>2. req[r] # None /\ req[r] \in Request
            BY <1>1, <2>1, <3>1 DEF Count, At
        <3>3. req'[r].key = req[r].key /\ req'[r].alone = req[r].alone
            BY <1>1, <2>1, <3>1, <3>2 DEF Count, Request
        <3> QED BY <1>2, <3>2, <3>3
    <2>2. CASE r # s
        <3>1. req'[r] = req[r]
            BY <1>1, <1>6, <2>2 DEF Count, Record, Refuse, FailOpen, End
        <3> QED BY <1>2, <3>1
    <2> QED BY <2>1, <2>2
<1> QED BY <1>3, <1>4, <1>5, <1>6 DEF Next

\* A hit is recorded by the only request on the key, below the limit.
LEMMA LimitStep ==
    ASSUME IInv, [Next]_vars, NEW key \in Routes, SerialInv(key)
    PROVE  Cardinality(Current(key)') <= Limit
<1>1. CASE backend = "memory"
    BY <1>1, BudgetStep, GrantsLast DEF Budget
<1>2. CASE granted' = granted
    <2>1. /\ Cardinality(Current(key)') <= Cardinality(Current(key))
          /\ Cardinality(Current(key)') \in Nat /\ Cardinality(Current(key)) \in Nat
        BY <1>2, NothingGranted, GrantsLast DEF IInv
    <2> QED BY <2>1, Bounds DEF SerialInv
<1>3. ASSUME NEW r \in Requests, Record(r), backend # "memory"
      PROVE  Cardinality(Current(key)') <= Limit
    <2>1. /\ req[r] # None /\ req[r] \in Request /\ now' = now
          /\ req[r].stage = "record" /\ RequestInv(r)
        BY <1>3 DEF Record, At, IInv, TypeOK
    <2>2. PICK k \in Routes, time \in Time : k = req[r].key /\ time = req[r].at
        BY <2>1 DEF Request
    <2>3. PICK i \in Ids :
             /\ granted[i] = None
             /\ granted' = [granted EXCEPT ![i] = [key |-> k, at |-> time]]
        BY <1>3, <2>2 DEF Record
    <2>4. /\ key # k => Current(key)' = Current(key)
          /\ Cardinality(Current(key)') \in Nat /\ Cardinality(Current(key)) \in Nat
          /\ Cardinality(Current(key)') <= Cardinality(Current(key)) + 1
        <3>1. granted'[i].key = k /\ \A j \in Ids : j # i => granted'[j] = granted[j]
            BY <2>3, HitGranted DEF IInv
        <3> QED BY <2>1, <2>3, <3>1, WindowGains DEF IInv
    <2>5. CASE key = k
        <3>1. backend = "postgres" /\ req[r].alone
            BY <1>3, <2>1, <2>2, <2>5 DEF SerialInv, IInv, TypeOK
        <3>2. Cardinality(Current(key)) < Limit
            BY <2>1, <2>2, <2>5, <3>1 DEF RequestInv
        <3> QED BY <2>4, <3>2, Bounds
    <2>6. CASE key # k
        BY <2>4, <2>6 DEF SerialInv
    <2> QED BY <2>5, <2>6
<1>4. granted' = granted \/ backend = "memory" \/ \E r \in Requests : Record(r)
    BY DEF Next, vars, Tick, Cleanup, Start, MemoryCheck, Count, Refuse, FailOpen, End
<1> QED BY <1>1, <1>2, <1>3, <1>4

\* "at most Limit requests per key and window": from the table as from the
\* deque, if the requests on the key come one after another, whatever requests
\* on other keys, cleanups and failures run beside them.
THEOREM LimitHoldsOneByOne ==
    ASSUME NEW key \in Routes
    PROVE  Spec /\ []OneByOne(key) => [](Cardinality(InWindow(GrantedTo(key), now)) <= Limit)
<1>1. ASSUME Init PROVE SerialInv(key)
    <2>1. Current(key) = {}
        BY <1>1 DEF Init, Current, InWindow, GrantedTo
    <2> QED BY <1>1, <2>1, FS_EmptySet, Bounds DEF Init, SerialInv
<1>2. ASSUME IInv, [Next]_vars, SerialInv(key), OneByOne(key)' PROVE SerialInv(key)'
    BY <1>2, AloneStep, LimitStep DEF SerialInv
<1>3. SerialInv(key) => Cardinality(InWindow(GrantedTo(key), now)) <= Limit
    BY DEF SerialInv, Current
<1> QED BY <1>1, <1>2, <1>3, Invariance, PTL DEF Spec
=============================================================================
