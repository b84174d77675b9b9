------------------------ MODULE SnapshotCacheProofs ------------------------
(***************************************************************************)
(* The safety properties of SnapshotCache, proved for every number of      *)
(* threads, keys and snapshots and every choice of the time limits.        *)
(***************************************************************************)
EXTENDS SnapshotCache, TLAPS

(***************************************************************************)
(* The inductive invariant.  Staleness and time to live of a live entry    *)
(* add up to MaxTTL at most, because both count from moments of the pull   *)
(* that stored it: the entry expires MaxTTL after the pull began, and the  *)
(* snapshot was current at some moment after that.  What a pull is about   *)
(* to store was, likewise, superseded within the pull's own age.           *)
(***************************************************************************)
Unsuperseded == \A v \in Version : v >= cur => stale[v] = 0

EntryOK ==
    /\ cache.ver # Garbled /\ cache.ver <= cur
    /\ cache.ttl > 0 =>
          /\ cache.ver \in Version
          /\ stale[cache.ver] + cache.ttl <= MaxTTL

FromCache(p) ==
    /\ p.old # Garbled /\ p.old <= cur
    /\ ~p.overtaken => cache.ver = p.old

FromBackend(p) ==
    /\ p.got \in Version /\ p.got <= cur
    /\ p.old <= p.got
    /\ stale[p.got] <= p.age

Found(p) ==
    \/ p.how = "new" /\ (p.got = Garbled \/ FromBackend(p))
    \/ p.how = "same" /\ p.got = p.old /\ FromBackend(p)
    \/ /\ p.how = "hit" /\ p.stage # "answer"
       /\ p.got \in Version
       /\ stale[p.got] < MaxTTL + p.age
    \/ p.how = "fallback" /\ p.stage # "answer" /\ p.got \in Version

PullOK(p) ==
    /\ p.stage = "idle" => p.got # Garbled
    /\ p.stage # "idle" => FromCache(p)
    /\ p.stage = "request" => p.got = p.old
    /\ p.stage \notin {"idle", "request"} => Found(p)

IInv ==
    /\ TypeOK
    /\ Unsuperseded
    /\ EntryOK
    /\ \A t \in Thread : PullOK(pull[t])

-----------------------------------------------------------------------------
\* Small facts about the ranges.
LEMMA Ranges ==
    /\ Version \subseteq Nat \ {0}
    /\ None \notin Version /\ Garbled \notin Version
    /\ None = 0 /\ Garbled = -1
    /\ MaxTTL \in Nat /\ MaxTTL > 0 /\ MinTTL \in Nat /\ MinTTL <= MaxTTL
    /\ MaxAge \in Nat /\ Oldest \in Nat
    /\ 1 \in Version /\ MaxVersion \in Nat
  BY SnapshotAssumption DEF Version, None, Garbled, Oldest

LEMMA VersionInt ==
    \A v \in Version \cup {None, Garbled} : v \in Int
  BY Ranges

\* What is left of a time to live that does not exceed MaxTTL.
LEMMA RemainingBounds ==
    ASSUME NEW ttl \in 0..MaxTTL, NEW a \in Nat
    PROVE  /\ Remaining(ttl, a) \in 0..MaxTTL
           /\ Remaining(ttl, a) > 0 => Remaining(ttl, a) + a <= MaxTTL
  BY Ranges DEF Remaining

\* The time to live of a new snapshot never exceeds MaxTTL.
LEMMA TTLBounds ==
    ASSUME TypeOK, NEW v \in Version, NEW a \in Nat
    PROVE  TTL(v, a) \in 0..MaxTTL
  BY Ranges DEF TTL, Capped, TypeOK

\* Only snapshots of the backend carry the signature of one of its keys.
LEMMA SignedIsGenuine ==
    ASSUME NEW v, NEW ks \in SUBSET Kid, SignedBy(v) \in ks
    PROVE  v \in Version
  BY SnapshotAssumption DEF SignedBy

\* A pull that has returned is idle.
LEMMA ReturnedOK ==
    ASSUME NEW v \in Version \cup {None}
    PROVE  /\ Returned(v) \in Pull
           /\ Returned(v).stage = "idle" /\ Returned(v).got = v
           /\ v # Garbled
  <1>1. NotPulling \in Pull
    BY Ranges DEF NotPulling, Pull, Stage
  <1>2. Returned(v) \in Pull
    BY <1>1 DEF Returned, Pull
  <1>3. Returned(v).stage = "idle" /\ Returned(v).got = v
    BY DEF Returned, NotPulling
  <1>4. v # Garbled
    BY Ranges
  <1>5. QED
    BY <1>2, <1>3, <1>4

LEMMA InitIInv == Init => IInv
  <1> SUFFICES ASSUME Init PROVE IInv
    OBVIOUS
  <1>1. TypeOK
    <2>1. NotPulling \in Pull
      BY Ranges DEF NotPulling, Pull, Stage
    <2>2. PICK k \in Kid : keys = {k} /\ signer = [v \in Version |-> k]
      BY DEF Init
    <2>3. PICK d \in ValidFor : left = [v \in Version |-> d]
      BY DEF Init
    <2>4. d \in Int
      BY <2>3, SnapshotAssumption
    <2>5. restarts \in 0..MaxRestarts
      BY SnapshotAssumption DEF Init
    <2>6. up \in BOOLEAN /\ cur \in Version /\ keys \in SUBSET Kid
          /\ signer \in [Version -> Kid] /\ left \in [Version -> Int]
      BY <2>2, <2>3, <2>4, Ranges DEF Init
    <2>7. /\ stale \in [Version -> 0..Oldest]
          /\ cache \in [ver : Version \cup {None, Garbled}, ttl : 0..MaxTTL]
          /\ jwks \in [kids : SUBSET Kid, live : BOOLEAN]
      BY Ranges DEF Init
    <2>8. pull \in [Thread -> Pull]
      BY <2>1 DEF Init
    <2>9. QED
      BY <2>5, <2>6, <2>7, <2>8 DEF TypeOK
  <1>2. Unsuperseded /\ EntryOK
    BY Ranges DEF Init, Unsuperseded, EntryOK
  <1>3. \A t \in Thread : PullOK(pull[t])
    <2>1. NotPulling.stage = "idle" /\ NotPulling.got # Garbled
      BY Ranges DEF NotPulling
    <2>2. PullOK(NotPulling)
      BY <2>1 DEF PullOK
    <2>3. QED
      BY <2>2 DEF Init
  <1>4. QED
    BY <1>1, <1>2, <1>3 DEF IInv

-----------------------------------------------------------------------------
(* Two kinds of step: a pull moves on, with or without storing an entry. *)

\* The parts of the invariant that a pull can disturb.
PullsOK ==
    /\ pull \in [Thread -> Pull]
    /\ cache \in [ver : Version \cup {None, Garbled}, ttl : 0..MaxTTL]
    /\ EntryOK
    /\ \A t \in Thread : PullOK(pull[t])

LEMMA IInvPulls == IInv => PullsOK
  BY DEF IInv, TypeOK, PullsOK

\* Moving on with a sound record, the cache left alone, is sound.
LEMMA StepPulls ==
    ASSUME PullsOK, NEW t \in Thread, NEW p \in Pull, PullOK(p),
           Step(t, p), UNCHANGED <<cache, cur, stale>>
    PROVE  PullsOK'
  <1>1. pull' \in [Thread -> Pull]
    BY DEF PullsOK, Step
  <1>2. EntryOK'
    BY DEF PullsOK, EntryOK
  <1>3. ASSUME NEW u \in Thread PROVE PullOK(pull[u])'
    <2>1. PullOK(pull'[u])
      BY DEF PullsOK, Step
    <2>2. QED
      BY <2>1 DEF PullOK, FromCache, Found, FromBackend
  <1>4. QED
    BY <1>1, <1>2, <1>3 DEF PullsOK

\* Storing a snapshot superseded within the age of the pull is sound.
LEMMA StorePulls ==
    ASSUME PullsOK, NEW t \in Thread, NEW p \in Pull,
           NEW v \in Version, NEW ttl \in 0..MaxTTL, NEW a \in Nat,
           stale \in [Version -> 0..Oldest],
           v <= cur, stale[v] <= a,
           \/ p.stage = "idle" /\ p.got # Garbled
           \/ p.stage = "verify" /\ p.old = v /\ PullOK(p),
           Store(t, v, ttl, a, p), UNCHANGED <<cur, stale>>
    PROVE  PullsOK'
  <1>1. cache' = [ver |-> v, ttl |-> Remaining(ttl, a)]
    BY DEF Store
  <1>2. cache'.ver = v /\ cache'.ttl = Remaining(ttl, a)
    BY <1>1
  <1>3. /\ Remaining(ttl, a) \in 0..MaxTTL
        /\ Remaining(ttl, a) > 0 => Remaining(ttl, a) + a <= MaxTTL
    BY RemainingBounds
  <1>4. cache' \in [ver : Version \cup {None, Garbled}, ttl : 0..MaxTTL]
    BY <1>1, <1>3
  <1>5. EntryOK'
    <2>1. stale[v] \in Nat /\ Remaining(ttl, a) \in Nat
      BY <1>3, Ranges
    <2>2. cache'.ver # Garbled /\ cache'.ver <= cur'
      BY <1>2, Ranges
    <2>3. cache'.ttl > 0 => stale'[cache'.ver] + cache'.ttl <= MaxTTL
      BY <1>2, <1>3, <2>1, Ranges
    <2>4. QED
      BY <1>2, <2>2, <2>3 DEF EntryOK
  <1>6. pull' \in [Thread -> Pull]
    <2>1. ASSUME NEW u \in Thread
          PROVE  [pull[u] EXCEPT !.overtaken = TRUE] \in Pull
      <3>1. pull[u] \in Pull
        BY DEF PullsOK
      <3>2. QED
        BY <3>1 DEF Pull
    <2>2. QED
      BY <2>1 DEF Store, PullsOK
  <1>7. ASSUME NEW u \in Thread PROVE PullOK(pull[u])'
    <2>1. CASE u = t /\ p.stage = "idle"
      BY <2>1 DEF Store, PullOK
    <2>2. CASE u = t /\ p.stage = "verify"
      <3>1. pull'[u] = p /\ PullOK(p) /\ p.old = v
        BY <2>2 DEF Store
      <3>2. cache'.ver = p.old
        BY <3>1, <1>2
      <3>3. QED
        BY <2>2, <3>1, <3>2 DEF PullOK, FromCache, Found, FromBackend
    <2>3. CASE u # t /\ pull[u].stage = "idle"
      <3>1. pull'[u] = pull[u] /\ PullOK(pull[u])
        BY <2>3 DEF Store, PullsOK
      <3>2. QED
        BY <2>3, <3>1 DEF PullOK
    <2>4. CASE u # t /\ pull[u].stage # "idle"
      <3>1. DEFINE q == [pull[u] EXCEPT !.overtaken = TRUE]
      <3>2. pull'[u] = q /\ PullOK(pull[u]) /\ pull[u] \in Pull
        BY <2>4 DEF Store, PullsOK
      <3>3. /\ q.stage = pull[u].stage /\ q.age = pull[u].age
            /\ q.old = pull[u].old /\ q.got = pull[u].got
            /\ q.how = pull[u].how /\ q.overtaken
        BY <3>2 DEF Pull
      <3> HIDE DEF q
      <3>4. QED
        BY <2>4, <3>2, <3>3 DEF PullOK, FromCache, Found, FromBackend
    <2>5. QED
      BY <2>1, <2>2, <2>3, <2>4
  <1>8. QED
    BY <1>4, <1>5, <1>6, <1>7 DEF PullsOK

-----------------------------------------------------------------------------
(* One lemma per action of a pull. *)

\* A pull that has returned something other than a made-up body is sound.
LEMMA IdlePull ==
    ASSUME NEW v \in Version \cup {None}
    PROVE  Returned(v) \in Pull /\ PullOK(Returned(v))
  BY ReturnedOK DEF PullOK

LEMMA StartPulls ==
    ASSUME IInv, NEW t \in Thread, Start(t)
    PROVE  PullsOK'
  <1> DEFINE p == [NotPulling EXCEPT
                     !.old = cache.ver, !.got = cache.ver,
                     !.stage = IF cache.ttl > 0 THEN "verify" ELSE "request",
                     !.how = IF cache.ttl > 0 THEN "hit" ELSE "new"]
  <1>1. PullsOK
    BY IInvPulls
  <1>2. NotPulling \in Pull
    BY Ranges DEF NotPulling, Pull, Stage
  <1>3. /\ cache.ver \in Version \cup {None, Garbled}
        /\ cache.ttl \in 0..MaxTTL
    BY <1>1 DEF PullsOK
  <1>4. p \in Pull
    BY <1>2, <1>3 DEF Pull, Stage
  <1>5. /\ p.old = cache.ver /\ p.got = cache.ver
        /\ p.age = 0 /\ p.overtaken = FALSE
        /\ p.stage = IF cache.ttl > 0 THEN "verify" ELSE "request"
        /\ p.how = IF cache.ttl > 0 THEN "hit" ELSE "new"
    BY DEF NotPulling
  <1>6. Step(t, p) /\ UNCHANGED <<cache, cur, stale>>
    BY DEF Start, backend
  <1> HIDE DEF p
  <1>7. EntryOK /\ stale \in [Version -> 0..Oldest]
    BY DEF IInv, TypeOK
  <1>8. FromCache(p)
    BY <1>5, <1>7 DEF EntryOK, FromCache
  <1>9. CASE cache.ttl > 0
    <2>1. cache.ver \in Version /\ stale[cache.ver] + cache.ttl <= MaxTTL
      BY <1>7, <1>9 DEF EntryOK
    <2>2. stale[p.got] < MaxTTL + p.age
      <3>1. /\ stale[cache.ver] \in Nat /\ cache.ttl \in Nat
            /\ cache.ttl > 0 /\ MaxTTL \in Nat
        <4>1. stale[cache.ver] \in 0..Oldest
          BY <2>1, <1>7
        <4>2. MaxTTL \in Nat /\ Oldest \in Nat
          BY Ranges
        <4>3. QED
          BY <4>1, <4>2, <1>3, <1>9
      <3>2. stale[cache.ver] < MaxTTL
        BY <2>1, <3>1
      <3>3. QED
        BY <3>1, <3>2, <1>5
    <2>3. Found(p)
      BY <2>1, <2>2, <1>5, <1>9 DEF Found
    <2>4. PullOK(p)
      BY <2>3, <1>5, <1>8, <1>9 DEF PullOK
    <2>5. QED
      BY <2>4, <1>1, <1>4, <1>6, StepPulls
  <1>10. CASE ~(cache.ttl > 0)
    <2>1. PullOK(p)
      BY <1>5, <1>8, <1>10 DEF PullOK
    <2>2. QED
      BY <2>1, <1>1, <1>4, <1>6, StepPulls
  <1>11. QED
    BY <1>9, <1>10

LEMMA RespondPulls ==
    ASSUME IInv, NEW t \in Thread, Respond(t)
    PROVE  PullsOK'
  <1>1. PullsOK
    BY IInvPulls
  <1>2. /\ pull[t] \in Pull /\ PullOK(pull[t]) /\ pull[t].stage = "request"
        /\ cur \in Version /\ stale[cur] = 0
    BY <1>1, Ranges DEF PullsOK, Respond, IInv, TypeOK, Unsuperseded
  <1>3. /\ FromCache(pull[t]) /\ pull[t].got = pull[t].old
        /\ pull[t].age \in Nat
    BY <1>2, Ranges DEF PullOK, Pull
  <1>4. UNCHANGED <<cache, cur, stale>>
    BY DEF Respond, backend
  <1>5. SUFFICES ASSUME NEW p \in Pull, Step(t, p),
                        p.stage = "answer", p.old = pull[t].old,
                        p.age = pull[t].age,
                        p.overtaken = pull[t].overtaken,
                        \/ p.how = "new" /\ p.got \in {cur, Garbled}
                        \/ p.how = "same" /\ p.got = p.old /\ p.old = cur
                 PROVE  PullsOK'
    <2>1. CASE Step(t, [pull[t] EXCEPT !.stage = "answer", !.got = cur,
                                       !.how = "new"])
      <3> DEFINE p == [pull[t] EXCEPT !.stage = "answer", !.got = cur,
                                      !.how = "new"]
      <3>1. /\ p \in Pull /\ p.stage = "answer" /\ p.old = pull[t].old
            /\ p.age = pull[t].age /\ p.overtaken = pull[t].overtaken
            /\ p.how = "new" /\ p.got = cur
        BY <1>2 DEF Pull, Stage
      <3>2. QED
        BY <2>1, <3>1, <1>5
    <2>2. CASE /\ pull[t].old = cur
               /\ Step(t, [pull[t] EXCEPT !.stage = "answer", !.how = "same"])
      <3> DEFINE p == [pull[t] EXCEPT !.stage = "answer", !.how = "same"]
      <3>1. /\ p \in Pull /\ p.stage = "answer" /\ p.old = pull[t].old
            /\ p.age = pull[t].age /\ p.overtaken = pull[t].overtaken
            /\ p.how = "same" /\ p.got = pull[t].got
        BY <1>2 DEF Pull, Stage
      <3>2. QED
        BY <2>2, <3>1, <1>3, <1>5
    <2>3. CASE Step(t, [pull[t] EXCEPT !.stage = "answer", !.got = Garbled,
                                       !.how = "new"])
      <3> DEFINE p == [pull[t] EXCEPT !.stage = "answer", !.got = Garbled,
                                      !.how = "new"]
      <3>1. /\ p \in Pull /\ p.stage = "answer" /\ p.old = pull[t].old
            /\ p.age = pull[t].age /\ p.overtaken = pull[t].overtaken
            /\ p.how = "new" /\ p.got = Garbled
        BY <1>2 DEF Pull, Stage
      <3>2. QED
        BY <2>3, <3>1, <1>5
    <2>4. QED
      BY <2>1, <2>2, <2>3 DEF Respond
  <1>6. FromCache(p)
    BY <1>3, <1>5 DEF FromCache
  <1>7. p.got # Garbled => FromBackend(p)
    BY <1>2, <1>3, <1>5, <1>6, Ranges DEF FromBackend, FromCache
  <1>8. p.how = "same" => p.got # Garbled
    BY <1>2, <1>5, Ranges
  <1>9. PullOK(p)
    BY <1>5, <1>6, <1>7, <1>8 DEF PullOK, Found
  <1>10. QED
    BY <1>1, <1>4, <1>5, <1>9, StepPulls

LEMMA ReceivePulls ==
    ASSUME IInv, NEW t \in Thread, Receive(t)
    PROVE  PullsOK'
  <1> DEFINE p == [pull[t] EXCEPT !.stage = "verify"]
  <1>1. PullsOK /\ stale \in [Version -> 0..Oldest]
    BY IInvPulls DEF IInv, TypeOK
  <1>2. /\ pull[t] \in Pull /\ PullOK(pull[t]) /\ pull[t].stage = "answer"
        /\ UNCHANGED <<cur, stale>>
    BY <1>1 DEF PullsOK, Receive, backend
  <1>3. /\ p \in Pull /\ p.stage = "verify" /\ p.old = pull[t].old
        /\ p.got = pull[t].got /\ p.age = pull[t].age
        /\ p.how = pull[t].how /\ p.overtaken = pull[t].overtaken
        /\ p.age \in Nat
    BY <1>2, Ranges DEF Pull, Stage
  <1>4. IF p.how = "same" THEN Store(t, p.old, MaxTTL, p.age, p)
        ELSE Step(t, p) /\ UNCHANGED cache
    BY DEF Receive
  <1> HIDE DEF p
  <1>5. FromCache(p) /\ Found(pull[t])
    BY <1>2, <1>3 DEF PullOK, FromCache
  <1>6. Found(p)
    BY <1>2, <1>3, <1>5 DEF Found, FromBackend
  <1>7. PullOK(p)
    BY <1>3, <1>5, <1>6 DEF PullOK
  <1>8. CASE p.how = "same"
    <2>1. p.got = p.old /\ FromBackend(p)
      BY <1>6, <1>8 DEF Found
    <2>2. p.old \in Version /\ p.old <= cur /\ stale[p.old] <= p.age
      BY <2>1 DEF FromBackend
    <2>3. MaxTTL \in 0..MaxTTL
      BY Ranges
    <2>4. Store(t, p.old, MaxTTL, p.age, p)
      BY <1>4, <1>8
    <2>5. QED
      BY <1>1, <1>2, <1>3, <1>7, <2>2, <2>3, <2>4, StorePulls
  <1>9. CASE p.how # "same"
    BY <1>1, <1>2, <1>3, <1>4, <1>7, <1>9, StepPulls
  <1>10. QED
    BY <1>8, <1>9

LEMMA GiveUpPulls ==
    ASSUME IInv, NEW t \in Thread, GiveUp(t)
    PROVE  PullsOK'
  <1> DEFINE p == [pull[t] EXCEPT !.got = pull[t].old, !.how = "fallback",
                                  !.stage = "verify"]
  <1>1. PullsOK /\ UNCHANGED <<cache, cur, stale>>
    BY IInvPulls DEF GiveUp, backend
  <1>2. /\ pull[t] \in Pull /\ PullOK(pull[t])
        /\ pull[t].stage \in {"request", "answer"}
    BY <1>1 DEF PullsOK, GiveUp
  <1>3. FromCache(pull[t])
    BY <1>2 DEF PullOK
  <1>4. CASE pull[t].old = None
    <2>1. Step(t, Returned(None))
      BY <1>4 DEF GiveUp
    <2>2. QED
      BY <2>1, <1>1, IdlePull, StepPulls
  <1>5. CASE pull[t].old # None
    <2>1. /\ p \in Pull /\ p.stage = "verify" /\ p.old = pull[t].old
          /\ p.got = pull[t].old /\ p.how = "fallback"
          /\ p.overtaken = pull[t].overtaken
      BY <1>2 DEF Pull, Stage
    <2>2. Step(t, p)
      BY <1>5 DEF GiveUp
    <2> HIDE DEF p
    <2>3. p.got \in Version
      BY <2>1, <1>2, <1>3, <1>5 DEF Pull, FromCache
    <2>4. FromCache(p) /\ Found(p)
      BY <2>1, <2>3, <1>3 DEF FromCache, Found
    <2>5. PullOK(p)
      BY <2>1, <2>4 DEF PullOK
    <2>6. QED
      BY <1>1, <2>1, <2>2, <2>5, StepPulls
  <1>6. QED
    BY <1>4, <1>5

\* The end of a pull whose signature held.
LEMMA AcceptPulls ==
    ASSUME IInv, NEW t \in Thread, Accept(t), pull[t].got \in Version,
           pull[t].stage \in {"verify", "fetch", "refetch"},
           UNCHANGED <<cur, stale>>
    PROVE  PullsOK'
  <1>1. PullsOK /\ stale \in [Version -> 0..Oldest] /\ TypeOK
    BY IInvPulls DEF IInv, TypeOK
  <1>2. /\ pull[t] \in Pull /\ PullOK(pull[t]) /\ pull[t].age \in Nat
    BY <1>1, Ranges DEF PullsOK, Pull
  <1>3. Found(pull[t])
    BY <1>2 DEF PullOK
  <1>4. /\ Returned(pull[t].got) \in Pull /\ PullOK(Returned(pull[t].got))
        /\ Returned(pull[t].got).stage = "idle"
        /\ Returned(pull[t].got).got # Garbled
    BY IdlePull, ReturnedOK
  <1>5. CASE pull[t].how = "new"
    <2>1. FromBackend(pull[t])
      BY <1>3, <1>5, Ranges DEF Found
    <2>2. pull[t].got <= cur /\ stale[pull[t].got] <= pull[t].age
      BY <2>1 DEF FromBackend
    <2>3. TTL(pull[t].got, pull[t].age) \in 0..MaxTTL
      BY <1>1, <1>2, TTLBounds
    <2>4. Store(t, pull[t].got, TTL(pull[t].got, pull[t].age), pull[t].age,
                Returned(pull[t].got))
      BY <1>5 DEF Accept
    <2>5. QED
      BY <1>1, <1>2, <1>4, <2>2, <2>3, <2>4, StorePulls
  <1>6. CASE pull[t].how # "new"
    <2>1. Step(t, Returned(pull[t].got)) /\ UNCHANGED cache
      BY <1>6 DEF Accept
    <2>2. QED
      BY <2>1, <1>1, <1>4, StepPulls
  <1>7. QED
    BY <1>5, <1>6

\* The end of a pull whose signature could not be verified.
LEMMA RejectPulls ==
    ASSUME IInv, NEW t \in Thread, Reject(t), UNCHANGED <<cur, stale>>
    PROVE  PullsOK'
  BY IInvPulls, IdlePull, StepPulls DEF Reject

\* A request for the key set: what the pull has found stays as it is.
LEMMA AskKeysPulls ==
    ASSUME IInv, NEW t \in Thread, NEW s \in {"fetch", "refetch"},
           NEW k \in SUBSET Kid, NEW o \in SUBSET Kid,
           pull[t].stage \in {"verify", "fetch", "refetch"},
           Step(t, [pull[t] EXCEPT !.stage = s, !.known = k, !.offer = o]),
           UNCHANGED <<cache, cur, stale>>
    PROVE  PullsOK'
  <1> DEFINE p == [pull[t] EXCEPT !.stage = s, !.known = k, !.offer = o]
  <1>1. PullsOK
    BY IInvPulls
  <1>2. pull[t] \in Pull /\ PullOK(pull[t])
    BY <1>1 DEF PullsOK
  <1>3. /\ p \in Pull /\ p.stage = s /\ p.old = pull[t].old
        /\ p.got = pull[t].got /\ p.age = pull[t].age
        /\ p.how = pull[t].how /\ p.overtaken = pull[t].overtaken
    BY <1>2 DEF Pull, Stage
  <1>4. Step(t, p)
    OBVIOUS
  <1> HIDE DEF p
  <1>5. FromCache(p) /\ Found(p)
    BY <1>2, <1>3 DEF PullOK, FromCache, Found, FromBackend
  <1>6. PullOK(p)
    BY <1>3, <1>5 DEF PullOK
  <1>7. QED
    BY <1>1, <1>3, <1>4, <1>6, StepPulls

LEMMA VerifyPulls ==
    ASSUME IInv, NEW t \in Thread, Verify(t)
    PROVE  PullsOK'
  <1>1. /\ jwks.kids \in SUBSET Kid /\ keys \in SUBSET Kid
        /\ pull[t].stage = "verify" /\ UNCHANGED <<cur, stale>>
    BY DEF IInv, TypeOK, Verify, backend
  <1>2. CASE Accept(t) /\ SignedBy(pull[t].got) \in jwks.kids
    BY <1>1, <1>2, SignedIsGenuine, AcceptPulls
  <1>3. CASE FetchJwks(t, "fetch")
    BY <1>1, <1>3, AskKeysPulls DEF FetchJwks
  <1>4. CASE FetchJwks(t, "refetch")
    BY <1>1, <1>4, AskKeysPulls DEF FetchJwks
  <1>5. QED
    BY <1>2, <1>3, <1>4 DEF Verify

LEMMA KeysArrivePulls ==
    ASSUME IInv, NEW t \in Thread, KeysArrive(t)
    PROVE  PullsOK' /\ jwks' \in [kids : SUBSET Kid, live : BOOLEAN]
  <1>1. /\ jwks \in [kids : SUBSET Kid, live : BOOLEAN]
        /\ keys \in SUBSET Kid /\ pull[t] \in Pull
        /\ pull[t].stage \in {"fetch", "refetch"}
        /\ UNCHANGED <<cur, stale>>
    BY DEF IInv, TypeOK, KeysArrive, backend
  <1>2. pull[t].offer \in SUBSET Kid /\ pull[t].known \in SUBSET Kid
    BY <1>1 DEF Pull
  <1>3. PICK ks \in IF up THEN {pull[t].offer, keys} ELSE {pull[t].known} :
          /\ jwks' = IF up THEN [kids |-> ks, live |-> TRUE] ELSE jwks
          /\ IF SignedBy(pull[t].got) \in ks THEN Accept(t)
             ELSE IF pull[t].stage = "refetch" THEN Reject(t)
             ELSE /\ Step(t, [pull[t] EXCEPT
                                !.stage = "refetch", !.offer = keys,
                                !.known = jwks'.kids])
                  /\ UNCHANGED cache
    BY DEF KeysArrive
  <1>4. ks \in SUBSET Kid
    BY <1>1, <1>2, <1>3
  <1>5. jwks' \in [kids : SUBSET Kid, live : BOOLEAN]
    BY <1>1, <1>3, <1>4
  <1>6. CASE SignedBy(pull[t].got) \in ks
    BY <1>1, <1>3, <1>4, <1>6, SignedIsGenuine, AcceptPulls
  <1>7. CASE SignedBy(pull[t].got) \notin ks /\ pull[t].stage = "refetch"
    <2>1. Reject(t)
      BY <1>3, <1>7
    <2>2. QED
      BY <1>1, <1>5, <2>1, RejectPulls
  <1>8. CASE SignedBy(pull[t].got) \notin ks /\ pull[t].stage # "refetch"
    <2>1. Step(t, [pull[t] EXCEPT !.stage = "refetch", !.known = jwks'.kids,
                                  !.offer = keys])
      BY <1>1, <1>3, <1>8 DEF Step
    <2>2. jwks'.kids \in SUBSET Kid
      BY <1>5
    <2>3. QED
      BY <1>1, <1>3, <1>8, <2>1, <2>2, AskKeysPulls
  <1>9. QED
    BY <1>5, <1>6, <1>7, <1>8

-----------------------------------------------------------------------------
(* The steps of the backend, of time and of the process. *)

LEMMA PublishPulls ==
    ASSUME IInv, Publish
    PROVE  PullsOK' /\ Unsuperseded' /\ cur' \in Version
  <1>1. /\ cur \in Version /\ cur < MaxVersion /\ cur' = cur + 1
        /\ UNCHANGED <<stale, cache, pull>>
    BY DEF IInv, TypeOK, Publish
  <1>2. cur' \in Version /\ cur <= cur'
    BY <1>1, SnapshotAssumption DEF Version
  <1>3. Unsuperseded'
    BY <1>1, Ranges DEF Unsuperseded, IInv
  <1>4. EntryOK'
    <2>1. cache.ver \in Version \cup {None, Garbled} /\ EntryOK
      BY DEF IInv, TypeOK
    <2>2. cache.ver \in Int /\ cur \in Int /\ cur' \in Int
      BY <1>1, <1>2, <2>1, VersionInt
    <2>3. cache.ver <= cur'
      BY <1>2, <2>1, <2>2 DEF EntryOK
    <2>4. QED
      BY <1>1, <2>1, <2>3 DEF EntryOK
  <1>5. ASSUME NEW t \in Thread PROVE PullOK(pull[t])'
    <2>1. /\ PullOK(pull[t]) /\ pull[t].old \in Version \cup {None, Garbled}
          /\ pull[t].got \in Version \cup {None, Garbled}
      BY DEF IInv, TypeOK, Pull
    <2>0. /\ pull[t].old \in Int /\ pull[t].got \in Int
          /\ cur \in Int /\ cur' \in Int
      BY <1>1, <1>2, <2>1, VersionInt
    <2>2. FromCache(pull[t]) => FromCache(pull[t])'
      BY <1>1, <1>2, <2>0 DEF FromCache
    <2>3. FromBackend(pull[t]) => FromBackend(pull[t])'
      BY <1>1, <1>2, <2>0 DEF FromBackend
    <2>4. Found(pull[t]) => Found(pull[t])'
      BY <1>1, <2>3 DEF Found
    <2>5. QED
      BY <1>1, <2>1, <2>2, <2>4 DEF PullOK
  <1>6. QED
    BY <1>1, <1>2, <1>3, <1>4, <1>5 DEF PullsOK, IInv, TypeOK

LEMMA TickPulls ==
    ASSUME IInv, Tick
    PROVE  /\ PullsOK' /\ Unsuperseded'
           /\ stale' \in [Version -> 0..Oldest]
           /\ left' \in [Version -> Int]
  <1>1. /\ stale \in [Version -> 0..Oldest] /\ left \in [Version -> Int]
        /\ cur \in Version /\ cur' = cur
        /\ cache \in [ver : Version \cup {None, Garbled}, ttl : 0..MaxTTL]
        /\ pull \in [Thread -> Pull]
    BY DEF IInv, TypeOK, Tick
  <1>2. ASSUME NEW v \in Version
        PROVE  /\ stale'[v] \in 0..Oldest
               /\ stale[v] \in Nat /\ stale'[v] \in Nat
               /\ stale'[v] <= stale[v] + 1
               /\ v >= cur => stale'[v] = stale[v]
    <2>1. stale[v] \in 0..Oldest /\ Oldest \in Nat
      BY <1>1, Ranges
    <2>2. stale'[v] = IF v >= cur \/ stale[v] = Oldest THEN stale[v]
                      ELSE stale[v] + 1
      BY DEF Tick
    <2>3. QED
      BY <2>1, <2>2
  <1>3. stale' \in [Version -> 0..Oldest] /\ left' \in [Version -> Int]
    <2>1. stale' \in [Version -> 0..Oldest]
      BY <1>2 DEF Tick
    <2>2. ASSUME NEW v \in Version PROVE left'[v] \in Int
      BY <1>1 DEF Tick
    <2>3. QED
      BY <2>1, <2>2 DEF Tick
  <1>4. Unsuperseded'
    BY <1>1, <1>2 DEF Unsuperseded, IInv
  <1>5. /\ cache'.ver = cache.ver /\ cache'.ttl = Remaining(cache.ttl, 1)
        /\ cache' \in [ver : Version \cup {None, Garbled}, ttl : 0..MaxTTL]
    <2>1. Remaining(cache.ttl, 1) \in 0..MaxTTL
      BY <1>1, RemainingBounds
    <2>2. QED
      BY <1>1, <2>1 DEF Tick
  <1>6. EntryOK'
    <2>1. EntryOK /\ cache.ttl \in Nat
      BY <1>1, Ranges DEF IInv
    <2>2. cache'.ttl > 0 => cache.ttl > 0 /\ cache'.ttl + 1 = cache.ttl
      BY <1>5, <2>1 DEF Remaining
    <2>3. ASSUME cache'.ttl > 0
          PROVE  /\ cache.ver \in Version
                 /\ stale'[cache.ver] + cache'.ttl <= MaxTTL
      <3>1. cache.ver \in Version /\ stale[cache.ver] + cache.ttl <= MaxTTL
        BY <2>1, <2>2, <2>3 DEF EntryOK
      <3>2. cache'.ttl \in Nat /\ MaxTTL \in Nat
        BY <1>5, Ranges
      <3>3. QED
        BY <3>1, <3>2, <1>2, <2>1, <2>2, <2>3
    <2>4. QED
      BY <1>1, <1>5, <2>1, <2>3 DEF EntryOK
  <1>7. ASSUME NEW t \in Thread PROVE pull'[t] \in Pull /\ PullOK(pull[t])'
    <2>1. pull[t] \in Pull /\ PullOK(pull[t])
      BY <1>1 DEF IInv
    <2>2. CASE pull[t].stage = "idle"
      BY <2>1, <2>2 DEF Tick, PullOK
    <2>3. CASE pull[t].stage # "idle"
      <3> DEFINE q == pull'[t]
      <3>1. /\ pull[t].age < MaxAge /\ pull[t].age \in Nat /\ MaxAge \in Nat
            /\ q = [pull[t] EXCEPT !.age = @ + 1]
        BY <2>1, <2>3, Ranges DEF Tick, Pull
      <3>2. q \in Pull
        BY <2>1, <3>1 DEF Pull
      <3>3. /\ pull'[t].stage = pull[t].stage
            /\ pull'[t].age = pull[t].age + 1
            /\ pull'[t].old = pull[t].old /\ pull'[t].got = pull[t].got
            /\ pull'[t].how = pull[t].how
            /\ pull'[t].overtaken = pull[t].overtaken
        BY <2>1, <3>1 DEF Pull
      <3> HIDE DEF q
      <3>4. FromCache(pull[t]) => FromCache(pull[t])'
        BY <1>1, <1>5, <3>3 DEF FromCache
      <3>5. FromBackend(pull[t]) => FromBackend(pull[t])'
        <4>1. ASSUME pull[t].got \in Version,
                     stale[pull[t].got] <= pull[t].age
              PROVE  stale'[pull[t].got] <= pull[t].age + 1
          BY <1>2, <3>1, <4>1
        <4>2. QED
          BY <1>1, <3>3, <4>1 DEF FromBackend
      <3>6. ASSUME pull[t].got \in Version,
                   stale[pull[t].got] < MaxTTL + pull[t].age
            PROVE  stale'[pull[t].got] < MaxTTL + (pull[t].age + 1)
        <4>1. MaxTTL \in Nat
          BY Ranges
        <4>2. QED
          BY <1>2, <3>1, <3>6, <4>1
      <3>7. Found(pull[t]) => Found(pull[t])'
        BY <3>3, <3>5, <3>6 DEF Found
      <3>8. QED
        BY <2>1, <2>3, <3>2, <3>3, <3>4, <3>7 DEF PullOK, q
    <2>4. QED
      BY <2>2, <2>3
  <1>8. pull' \in [Thread -> Pull]
    BY <1>7 DEF Tick
  <1>9. QED
    BY <1>3, <1>4, <1>5, <1>6, <1>7, <1>8 DEF PullsOK

LEMMA RestartPulls ==
    ASSUME IInv, Restart
    PROVE  PullsOK'
  <1>1. NotPulling \in Pull /\ NotPulling.stage = "idle"
        /\ NotPulling.got = None
    BY Ranges DEF NotPulling, Pull, Stage
  <1>2. cur \in Int /\ 0 <= cur
    BY Ranges DEF IInv, TypeOK
  <1>3. cache' = [ver |-> None, ttl |-> 0]
    BY DEF Restart
  <1>4. cache' \in [ver : Version \cup {None, Garbled}, ttl : 0..MaxTTL]
    BY <1>3, Ranges
  <1>5. EntryOK'
    BY <1>2, <1>3, Ranges DEF EntryOK, Restart, backend
  <1>6. pull' \in [Thread -> Pull] /\ \A t \in Thread : PullOK(pull[t])'
    BY <1>1, Ranges DEF Restart, PullOK
  <1>7. QED
    BY <1>4, <1>5, <1>6 DEF PullsOK

LEMMA NextIInv == IInv /\ [Next]_vars => IInv'
  <1> SUFFICES ASSUME IInv, [Next]_vars PROVE IInv'
    OBVIOUS
  <1> USE DEF backend
  <1>1. /\ up \in BOOLEAN /\ cur \in Version /\ keys \in SUBSET Kid
        /\ signer \in [Version -> Kid] /\ left \in [Version -> Int]
        /\ stale \in [Version -> 0..Oldest]
        /\ jwks \in [kids : SUBSET Kid, live : BOOLEAN]
        /\ restarts \in 0..MaxRestarts
        /\ Unsuperseded /\ PullsOK
    BY IInvPulls DEF IInv, TypeOK
  <1> DEFINE Rest ==
        /\ up \in BOOLEAN /\ cur \in Version /\ keys \in SUBSET Kid
        /\ signer \in [Version -> Kid] /\ left \in [Version -> Int]
        /\ stale \in [Version -> 0..Oldest]
        /\ jwks \in [kids : SUBSET Kid, live : BOOLEAN]
        /\ restarts \in 0..MaxRestarts
        /\ Unsuperseded
  <1>2. SUFFICES Rest' /\ PullsOK'
    BY DEF IInv, TypeOK, PullsOK
  <1>3. ASSUME UNCHANGED <<backend, jwks, restarts>> PROVE Rest'
    BY <1>1, <1>3 DEF Unsuperseded
  <1>4. ASSUME NEW t \in Thread, Start(t) \/ Proceed(t)
        PROVE  Rest' /\ PullsOK'
    <2>1. CASE Start(t)
      BY <1>3, <2>1, StartPulls DEF Start
    <2>2. CASE Respond(t)
      BY <1>3, <2>2, RespondPulls DEF Respond
    <2>3. CASE Receive(t)
      BY <1>3, <2>3, ReceivePulls DEF Receive
    <2>4. CASE GiveUp(t)
      BY <1>3, <2>4, GiveUpPulls DEF GiveUp
    <2>5. CASE Verify(t)
      BY <1>3, <2>5, VerifyPulls DEF Verify
    <2>6. CASE KeysArrive(t)
      BY <1>1, <2>6, KeysArrivePulls DEF KeysArrive, Unsuperseded
    <2>7. QED
      BY <1>4, <2>1, <2>2, <2>3, <2>4, <2>5, <2>6 DEF Proceed
  <1>5. CASE Publish
    <2>1. signer' \in [Version -> Kid] /\ left' \in [Version -> Int]
      <3>1. PICK k \in keys : signer' = [signer EXCEPT ![cur + 1] = k]
        BY <1>5 DEF Publish
      <3>2. PICK d \in ValidFor : left' = [left EXCEPT ![cur + 1] = d]
        BY <1>5 DEF Publish
      <3>3. k \in Kid /\ d \in Int
        BY <1>1, SnapshotAssumption
      <3>4. QED
        BY <1>1, <3>1, <3>2, <3>3
    <2>2. QED
      BY <1>1, <1>5, <2>1, PublishPulls DEF Publish
  <1>6. CASE Rotate
    <2>1. PullsOK'
      BY <1>1, <1>6 DEF Rotate, PullsOK, EntryOK, PullOK, FromCache, Found,
                        FromBackend
    <2>2. QED
      BY <1>1, <1>6, <2>1 DEF Rotate, Unsuperseded
  <1>7. CASE Outage
    <2>1. PullsOK'
      BY <1>1, <1>7 DEF Outage, PullsOK, EntryOK, PullOK, FromCache, Found,
                        FromBackend
    <2>2. QED
      BY <1>1, <1>7, <2>1 DEF Outage, Unsuperseded
  <1>8. CASE JwksExpire
    <2>1. PullsOK'
      BY <1>1, <1>8 DEF JwksExpire, PullsOK, EntryOK, PullOK, FromCache, Found,
                        FromBackend
    <2>2. jwks' \in [kids : SUBSET Kid, live : BOOLEAN]
      BY <1>1, <1>8 DEF JwksExpire
    <2>3. QED
      BY <1>1, <1>8, <2>1, <2>2 DEF JwksExpire, Unsuperseded
  <1>9. CASE Tick
    BY <1>1, <1>9, TickPulls DEF Tick
  <1>10. CASE Restart
    <2>1. jwks' \in [kids : SUBSET Kid, live : BOOLEAN]
          /\ restarts' \in 0..MaxRestarts
      BY <1>1, <1>10, SnapshotAssumption DEF Restart
    <2>2. QED
      BY <1>1, <1>10, <2>1, RestartPulls DEF Restart, Unsuperseded
  <1>11. CASE UNCHANGED vars
    <2>1. PullsOK'
      BY <1>1, <1>11 DEF vars, PullsOK, EntryOK, PullOK, FromCache, Found,
                         FromBackend
    <2>2. QED
      BY <1>3, <1>11, <2>1 DEF vars
  <1>12. QED
    BY <1>4, <1>5, <1>6, <1>7, <1>8, <1>9, <1>10, <1>11 DEF Next

-----------------------------------------------------------------------------
(* The theorems. *)

\* The invariant holds in every reachable state.
THEOREM Invariance == Spec => []IInv
  BY InitIInv, NextIInv, PTL DEF Spec

\* The variables keep their types; no time to live exceeds MaxTTL.
THEOREM TypeCorrect == Spec => []TypeOK
  <1>1. IInv => TypeOK
    BY DEF IInv
  <1>2. QED
    BY <1>1, Invariance, PTL

\* verify_jws_snapshot: nothing unsigned is cached or returned.
THEOREM GenuineOnly == Spec => []OnlyVerified
  <1>1. IInv => OnlyVerified
    BY DEF IInv, EntryOK, PullOK, OnlyVerified
  <1>2. QED
    BY <1>1, Invariance, PTL

(***************************************************************************)
(* pull_snapshot: a rule change reaches every gate within MaxTTL of the    *)
(* moment the gate asks, unless the backend does not answer.               *)
(***************************************************************************)
THEOREM ChangeInTime == Spec => []ChangeReachesGate
  <1>1. ASSUME IInv PROVE ChangeReachesGate
    <2> SUFFICES ASSUME NEW t \in Thread,
                        pull[t].stage \in {"verify", "fetch", "refetch"},
                        pull[t].how # "fallback", pull[t].got # Garbled
                 PROVE  stale[pull[t].got] < MaxTTL + pull[t].age
      BY DEF ChangeReachesGate
    <2>1. /\ Found(pull[t]) /\ pull[t].age \in Nat
          /\ stale \in [Version -> 0..Oldest]
      BY <1>1, Ranges DEF IInv, TypeOK, PullOK, Pull
    <2>2. CASE FromBackend(pull[t])
      <3>1. pull[t].got \in Version /\ stale[pull[t].got] <= pull[t].age
        BY <2>2 DEF FromBackend
      <3>2. MaxTTL \in Nat /\ MaxTTL > 0 /\ Oldest \in Nat
        BY Ranges
      <3>3. stale[pull[t].got] \in 0..Oldest
        BY <2>1, <3>1
      <3>4. QED
        BY <2>1, <3>1, <3>2, <3>3
    <2>3. QED
      BY <2>1, <2>2 DEF Found
  <1>2. QED
    BY <1>1, Invariance, PTL

(***************************************************************************)
(* pull_snapshot: a lone pull never takes the cache back, whichever of its *)
(* three ways of storing an entry it takes.                                *)
(***************************************************************************)
THEOREM RegressNeedsOverlap == Spec => OnlyOvertakenPullsRegress
  <1> DEFINE Back == cache'.ver < cache.ver /\ restarts' = restarts
             Overtaken == \E t \in Thread :
                             /\ pull[t].overtaken /\ pull[t].stage # "idle"
                             /\ pull[t].got = cache'.ver
  <1>1. ASSUME IInv, [Next]_vars, Back PROVE Overtaken
    <2>1. cache.ver \in Int /\ ~(cache.ver < cache.ver)
      BY <1>1, VersionInt DEF IInv, TypeOK
    <2>2. cache' # cache /\ cache'.ver # cache.ver
      BY <1>1, <2>1
    <2>3. ASSUME NEW t \in Thread, NEW v, NEW ttl, NEW a, NEW p,
                 Store(t, v, ttl, a, p), v = pull[t].got,
                 pull[t].stage # "idle",
                 pull[t].old \in Int, pull[t].got \in Int,
                 pull[t].old <= pull[t].got
          PROVE  Overtaken
      <3>1. cache'.ver = pull[t].got
        BY <2>3 DEF Store
      <3>2. FromCache(pull[t])
        BY <1>1, <2>3 DEF IInv, PullOK
      <3>3. pull[t].overtaken
        BY <1>1, <2>1, <2>3, <3>1, <3>2 DEF FromCache
      <3>4. QED
        BY <2>3, <3>1, <3>3
    <2>4. ASSUME NEW t \in Thread
          PROVE  /\ pull[t].old \in Int /\ pull[t].got \in Int
                 /\ pull[t] \in Pull /\ PullOK(pull[t])
      <3>1. pull[t] \in Pull /\ PullOK(pull[t])
        BY <1>1 DEF IInv, TypeOK
      <3>2. QED
        BY <3>1, VersionInt DEF Pull
    <2>5. ASSUME NEW t \in Thread, Receive(t) PROVE Overtaken
      <3>1. pull[t].how = "same" /\ pull[t].stage = "answer"
        BY <2>2, <2>5, <2>4 DEF Receive, Pull
      <3>2. pull[t].got = pull[t].old
        BY <2>4, <3>1, Ranges DEF PullOK, Found
      <3>3. Store(t, pull[t].old, MaxTTL, pull[t].age,
                  [pull[t] EXCEPT !.stage = "verify"])
        BY <2>5, <2>4, <3>1 DEF Receive, Pull
      <3>4. pull[t].old <= pull[t].got /\ pull[t].stage # "idle"
        BY <2>4, <3>1, <3>2
      <3>5. QED
        BY <2>3, <2>4, <3>2, <3>3, <3>4
    <2>6. ASSUME NEW t \in Thread, Accept(t), pull[t].got \in Version,
                 pull[t].stage \in {"verify", "fetch", "refetch"}
          PROVE  Overtaken
      <3>1. /\ pull[t].how = "new"
            /\ Store(t, pull[t].got, TTL(pull[t].got, pull[t].age),
                     pull[t].age, Returned(pull[t].got))
        BY <2>2, <2>6 DEF Accept
      <3>2. FromBackend(pull[t])
        BY <2>4, <2>6, <3>1, Ranges DEF PullOK, Found
      <3>3. pull[t].old <= pull[t].got /\ pull[t].stage # "idle"
        BY <2>6, <3>2 DEF FromBackend
      <3>4. QED
        BY <2>3, <2>4, <3>1, <3>3
    <2>7. ASSUME NEW t \in Thread, Verify(t) PROVE Overtaken
      <3>1. Accept(t) /\ SignedBy(pull[t].got) \in jwks.kids
        BY <2>2, <2>7 DEF Verify, FetchJwks
      <3>2. jwks.kids \in SUBSET Kid /\ pull[t].stage = "verify"
        BY <1>1, <2>7 DEF IInv, TypeOK, Verify
      <3>3. QED
        BY <2>6, <3>1, <3>2, SignedIsGenuine
    <2>8. ASSUME NEW t \in Thread, KeysArrive(t) PROVE Overtaken
      <3>1. pull[t].offer \in SUBSET Kid /\ pull[t].known \in SUBSET Kid
            /\ keys \in SUBSET Kid
        BY <1>1, <2>4 DEF IInv, TypeOK, Pull
      <3>2. PICK ks \in IF up THEN {pull[t].offer, keys} ELSE {pull[t].known} :
              IF SignedBy(pull[t].got) \in ks THEN Accept(t)
              ELSE UNCHANGED cache
        BY <2>8 DEF KeysArrive, Reject
      <3>3. ks \in SUBSET Kid
        BY <3>1, <3>2
      <3>4. Accept(t) /\ SignedBy(pull[t].got) \in ks
        BY <2>2, <3>2
      <3>5. pull[t].stage \in {"fetch", "refetch"}
        BY <2>8 DEF KeysArrive
      <3>6. QED
        BY <2>6, <3>3, <3>4, <3>5, SignedIsGenuine
    <2>9. ~Tick
      BY <2>2, <1>1 DEF Tick, IInv, TypeOK
    <2>10. ~Restart
      <3>1. restarts \in Int
        BY <1>1 DEF IInv, TypeOK
      <3>2. QED
        BY <1>1, <3>1 DEF Restart
    <2>11. ASSUME NEW t \in Thread PROVE ~Start(t) /\ ~Respond(t) /\ ~GiveUp(t)
      BY <2>2 DEF Start, Respond, GiveUp
    <2>12. ~(Publish \/ Rotate \/ Outage \/ JwksExpire \/ UNCHANGED vars)
      BY <2>2 DEF Publish, Rotate, Outage, JwksExpire, vars
    <2>13. QED
      BY <1>1, <2>5, <2>7, <2>8, <2>9, <2>10, <2>11, <2>12 DEF Next, Proceed
  <1>2. IInv /\ [Next]_vars =>
          [(cache'.ver < cache.ver /\ restarts' = restarts) =>
              \E t \in Thread : /\ pull[t].overtaken
                                /\ pull[t].stage # "idle"
                                /\ pull[t].got = cache'.ver]_vars
    BY <1>1
  <1>3. QED
    BY <1>2, Invariance, PTL DEF Spec, OnlyOvertakenPullsRegress
=============================================================================
