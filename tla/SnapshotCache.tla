--------------------------- MODULE SnapshotCache ---------------------------
(***************************************************************************)
(* The rule snapshot of one merchant in one Odoo process:                  *)
(* models/enforcement_snapshot.py.  Threads of the process call            *)
(* pull_snapshot; a pull yields while it waits for the snapshot and while  *)
(* it waits for the key set (JWKS), and other pulls run meanwhile.  The    *)
(* Trusteed backend (outside src/) issues snapshots, rotates its signing   *)
(* keys and is at times out of reach.                                      *)
(*                                                                         *)
(* Times are kept relative to the present, in ticks of MinTTL (60 s), so   *)
(* that the system can run forever: an entry has the ticks left until it   *)
(* expires, a pull the ticks since it read the clock.                      *)
(***************************************************************************)
EXTENDS Integers

CONSTANTS
    Thread,       \* threads (greenlets) of the process
    Recurrent,    \* the threads that pull again and again: the refresh cron
    Kid,          \* ids of the backend's signing keys
    NoKid,        \* the kid of what no key of the backend has signed
    MinTTL, MaxTTL,   \* bounds of an entry's time to live: 60 s and 300 s
    ValidFor,     \* time from the issue of a snapshot to its validUntil
    MaxAge,       \* how long a pull can take (request time-outs), in ticks
    MaxVersion,   \* bound on the snapshots issued
    MaxRestarts   \* bound on the restarts of the process

ASSUME SnapshotAssumption ==
    /\ Recurrent \subseteq Thread
    /\ NoKid \notin Kid
    /\ MinTTL \in Nat \ {0} /\ MaxTTL \in Nat /\ MinTTL <= MaxTTL
    /\ ValidFor \subseteq Nat \ {0}
    /\ MaxAge \in Nat /\ MaxVersion \in Nat \ {0} /\ MaxRestarts \in Nat

Version == 1..MaxVersion
None    == 0      \* no snapshot
Garbled == -1     \* a body that is not a snapshot of the backend

VARIABLES
    up,         \* the backend can be reached
    cur,        \* the snapshot the backend serves
    keys,       \* the kids it publishes
    signer,     \* signer[v]: the kid that signed snapshot v
    left,       \* left[v]: ticks until validUntil of v, negative once past
    stale,      \* stale[v]: ticks since v was superseded
    cache,      \* _SNAPSHOT_CACHE: the JWS and the ticks until it expires
    jwks,       \* _JWKS_CACHE and whether _JWKS_EXPIRE is still ahead
    pull,       \* pull[t]: the call of pull_snapshot by thread t
    restarts    \* how often the process has been restarted

backend == <<up, cur, keys, signer, left, stale>>
vars == <<backend, cache, jwks, pull, restarts>>

(***************************************************************************)
(* A pull.  `old` is the cached JWS it read at its start, `got` the JWS it *)
(* is about to return and `how` it came by that: from a live entry (hit),  *)
(* from a 200 (new) or 304 (same) answer, or for want of an answer         *)
(* (fallback).  `known` and `offer` are the JWKS cache and the published   *)
(* kids when a JWKS request began.  An idle pull has returned `got`.       *)
(* `overtaken` is history: another pull has stored an entry since this one *)
(* began.                                                                  *)
(***************************************************************************)
Stage == {"idle", "request", "answer", "verify", "fetch", "refetch"}

Pull ==
    [ stage : Stage, age : 0..MaxAge, old : Version \cup {None, Garbled},
      got : Version \cup {None, Garbled},
      how : {"hit", "new", "same", "fallback"},
      known : SUBSET Kid, offer : SUBSET Kid, overtaken : BOOLEAN ]

Oldest == MaxTTL + MaxAge + 1     \* where stale[v] stops counting

TypeOK ==
    /\ up \in BOOLEAN
    /\ cur \in Version
    /\ keys \in SUBSET Kid
    /\ signer \in [Version -> Kid]
    /\ left \in [Version -> Int]
    /\ stale \in [Version -> 0..Oldest]
    /\ cache \in [ver : Version \cup {None, Garbled}, ttl : 0..MaxTTL]
    /\ jwks \in [kids : SUBSET Kid, live : BOOLEAN]
    /\ pull \in [Thread -> Pull]
    /\ restarts \in 0..MaxRestarts

NotPulling ==
    [ stage |-> "idle", age |-> 0, old |-> None, got |-> None, how |-> "hit",
      known |-> {}, offer |-> {}, overtaken |-> FALSE ]

Init ==
    /\ up = TRUE
    /\ cur = 1
    /\ \E k \in Kid : keys = {k} /\ signer = [v \in Version |-> k]
    /\ \E d \in ValidFor : left = [v \in Version |-> d]
    /\ stale = [v \in Version |-> 0]
    /\ cache = [ver |-> None, ttl |-> 0]
    /\ jwks = [kids |-> {}, live |-> FALSE]
    /\ pull = [t \in Thread |-> NotPulling]
    /\ restarts = 0

-----------------------------------------------------------------------------
(* pull_snapshot. *)

Capped(lo, n, hi) == IF n < lo THEN lo ELSE IF n > hi THEN hi ELSE n

(***************************************************************************)
(* The ticks that an entry stored now by a pull of age a has left: its     *)
(* time to live counts from the start of the pull.                         *)
(***************************************************************************)
Remaining(ttl, a) == IF ttl > a THEN ttl - a ELSE 0

\* Mutant of TTL: validUntil is not capped to 300 s.
TTLUncapped(v, a) == IF left[v] + a < MinTTL THEN MinTTL ELSE left[v] + a

\* The time to live of snapshot v, seen from the start of a pull of age a.
TTL(v, a) == Capped(MinTTL, left[v] + a, MaxTTL)

\* Thread t, in a pull of age a, stores snapshot v and goes on as p; the other
\* pulls are overtaken.
Store(t, v, ttl, a, p) ==
    /\ cache' = [ver |-> v, ttl |-> Remaining(ttl, a)]
    /\ pull' = [u \in Thread |->
                  IF u = t THEN p
                  ELSE IF pull[u].stage = "idle" THEN pull[u]
                  ELSE [pull[u] EXCEPT !.overtaken = TRUE]]

\* A pull that has returned v.
Returned(v) == [NotPulling EXCEPT !.got = v]

Step(t, p) == pull' = [pull EXCEPT ![t] = p]

\* The clock and the cache are read.  A live entry needs no request.
Start(t) ==
    /\ pull[t].stage = "idle"
    /\ Step(t, [NotPulling EXCEPT
                  !.old = cache.ver, !.got = cache.ver,
                  !.stage = IF cache.ttl > 0 THEN "verify" ELSE "request",
                  !.how = IF cache.ttl > 0 THEN "hit" ELSE "new"])
    /\ UNCHANGED <<backend, cache, jwks, restarts>>

(***************************************************************************)
(* The backend, outside src/, answers with the current snapshot, or with   *)
(* 304 if the pull's cached one is current.  Out of reach, the answer may  *)
(* also be a page that someone else made up.                               *)
(***************************************************************************)
Respond(t) ==
    /\ pull[t].stage = "request"
    /\ \/ up /\ Step(t, [pull[t] EXCEPT !.stage = "answer", !.got = cur,
                                        !.how = "new"])
       \/ /\ up /\ pull[t].old = cur
          /\ Step(t, [pull[t] EXCEPT !.stage = "answer", !.how = "same"])
       \/ ~up /\ Step(t, [pull[t] EXCEPT !.stage = "answer", !.got = Garbled,
                                         !.how = "new"])
    /\ UNCHANGED <<backend, cache, jwks, restarts>>

\* Mutant of Receive: the body of a 200 answer is cached before it is verified.
ReceiveUnverified(t) ==
    /\ pull[t].stage = "answer"
    /\ Store(t, pull[t].got, MaxTTL, pull[t].age,
             [pull[t] EXCEPT !.stage = "verify"])
    /\ UNCHANGED <<backend, jwks, restarts>>

\* Mutant of Receive: a 304 answer renews the entry from now on, not from the
\* start of the pull.
ReceiveLate(t) ==
    LET p == [pull[t] EXCEPT !.stage = "verify"] IN
    /\ pull[t].stage = "answer"
    /\ IF p.how = "same"
       THEN /\ cache' = [ver |-> p.old, ttl |-> MaxTTL]
            /\ Step(t, p)
       ELSE Step(t, p) /\ UNCHANGED cache
    /\ UNCHANGED <<backend, jwks, restarts>>

\* The answer arrives.  304 renews the entry before the JWS is verified.
Receive(t) ==
    LET p == [pull[t] EXCEPT !.stage = "verify"] IN
    /\ pull[t].stage = "answer"
    /\ IF p.how = "same" THEN Store(t, p.old, MaxTTL, p.age, p)
       ELSE Step(t, p) /\ UNCHANGED cache
    /\ UNCHANGED <<backend, jwks, restarts>>

\* Time-out, error status or lost answer: the old JWS has to do, or None.
GiveUp(t) ==
    /\ pull[t].stage \in {"request", "answer"} /\ ~up
    /\ Step(t, IF pull[t].old = None THEN Returned(None)
               ELSE [pull[t] EXCEPT !.got = pull[t].old, !.how = "fallback",
                                    !.stage = "verify"])
    /\ UNCHANGED <<backend, cache, jwks, restarts>>

-----------------------------------------------------------------------------
(* verify_jws_snapshot and _fetch_jwks. *)

SignedBy(v) == IF v \in Version THEN signer[v] ELSE NoKid

(***************************************************************************)
(* The signature holds, and pull_snapshot returns: a new snapshot is       *)
(* cached on the way.                                                      *)
(***************************************************************************)
Accept(t) ==
    LET p == pull[t] IN
    IF p.how = "new"
    THEN Store(t, p.got, TTL(p.got, p.age), p.age, Returned(p.got))
    ELSE Step(t, Returned(p.got)) /\ UNCHANGED cache

\* Mutant of Reject: the cached entry goes, too.
RejectAndForget(t) ==
    /\ Step(t, Returned(None))
    /\ cache' = [ver |-> None, ttl |-> 0]

\* The signature cannot be verified: pull_snapshot returns None.
Reject(t) ==
    /\ Step(t, Returned(None))
    /\ UNCHANGED cache

FetchJwks(t, stage) ==
    /\ Step(t, [pull[t] EXCEPT !.stage = stage, !.known = jwks.kids,
                               !.offer = keys])
    /\ UNCHANGED cache

\* Mutant of Verify: a kid miss is final.
VerifyOnce(t) ==
    /\ pull[t].stage = "verify"
    /\ IF jwks.live /\ jwks.kids # {}
       THEN IF SignedBy(pull[t].got) \in jwks.kids THEN Accept(t)
            ELSE Reject(t)
       ELSE FetchJwks(t, "fetch")
    /\ UNCHANGED <<backend, jwks, restarts>>

\* With a live key set the JWS is verified at once; without, or on a kid that
\* the set lacks, the keys are requested.
Verify(t) ==
    /\ pull[t].stage = "verify"
    /\ IF jwks.live /\ jwks.kids # {}
       THEN IF SignedBy(pull[t].got) \in jwks.kids THEN Accept(t)
            ELSE FetchJwks(t, "refetch")
       ELSE FetchJwks(t, "fetch")
    /\ UNCHANGED <<backend, jwks, restarts>>

(***************************************************************************)
(* The key set arrives, as it was when the request began or as it is now,  *)
(* or the request fails and the keys known at its start have to do.  A kid *)
(* miss is worth one more request.                                         *)
(***************************************************************************)
KeysArrive(t) ==
    LET p == pull[t] IN
    /\ p.stage \in {"fetch", "refetch"}
    /\ \E ks \in IF up THEN {p.offer, keys} ELSE {p.known} :
          /\ jwks' = IF up THEN [kids |-> ks, live |-> TRUE] ELSE jwks
          /\ IF SignedBy(p.got) \in ks THEN Accept(t)
             ELSE IF p.stage = "refetch" THEN Reject(t)
             ELSE /\ Step(t, [p EXCEPT !.stage = "refetch", !.offer = keys,
                                       !.known = jwks'.kids])
                  /\ UNCHANGED cache
    /\ UNCHANGED <<backend, restarts>>

-----------------------------------------------------------------------------
(* The backend, time and the process. *)

\* A new snapshot is issued, because the merchant's rules have changed.
Publish ==
    /\ cur < MaxVersion
    /\ cur' = cur + 1
    /\ \E k \in keys : signer' = [signer EXCEPT ![cur + 1] = k]
    /\ \E d \in ValidFor : left' = [left EXCEPT ![cur + 1] = d]
    /\ UNCHANGED <<up, keys, stale, cache, jwks, pull, restarts>>

\* Signing keys come and go; the current snapshot's key stays published.
Rotate ==
    /\ keys' \in {ks \in SUBSET Kid : signer[cur] \in ks}
    /\ UNCHANGED <<up, cur, signer, left, stale, cache, jwks, pull, restarts>>

Outage ==
    /\ up' = ~up
    /\ UNCHANGED <<cur, keys, signer, left, stale, cache, jwks, pull, restarts>>

\* The hour of the key set is over.
JwksExpire ==
    /\ jwks.live
    /\ jwks' = [jwks EXCEPT !.live = FALSE]
    /\ UNCHANGED <<backend, cache, pull, restarts>>

\* A tick; a request that waits too long is given up before the next one.
Tick ==
    /\ \A t \in Thread : pull[t].stage # "idle" => pull[t].age < MaxAge
    /\ left' = [v \in Version |->
                  IF v > cur \/ left[v] <= -MaxAge THEN left[v] ELSE left[v] - 1]
    /\ stale' = [v \in Version |->
                  IF v >= cur \/ stale[v] = Oldest THEN stale[v]
                  ELSE stale[v] + 1]
    /\ cache' = [cache EXCEPT !.ttl = Remaining(@, 1)]
    /\ pull' = [t \in Thread |->
                  IF pull[t].stage = "idle" THEN pull[t]
                  ELSE [pull[t] EXCEPT !.age = @ + 1]]
    /\ UNCHANGED <<up, cur, keys, signer, jwks, restarts>>

\* The process is restarted: its caches start empty.
Restart ==
    /\ restarts < MaxRestarts
    /\ restarts' = restarts + 1
    /\ cache' = [ver |-> None, ttl |-> 0]
    /\ jwks' = [kids |-> {}, live |-> FALSE]
    /\ pull' = [t \in Thread |-> NotPulling]
    /\ UNCHANGED backend

-----------------------------------------------------------------------------
Proceed(t) ==
    Respond(t) \/ Receive(t) \/ GiveUp(t) \/ Verify(t) \/ KeysArrive(t)

Next ==
    \/ \E t \in Thread : Start(t) \/ Proceed(t)
    \/ Publish \/ Rotate \/ Outage
    \/ JwksExpire \/ Tick \/ Restart

(***************************************************************************)
(* Every request is answered or times out, time passes, and the cron calls *)
(* get_snapshot again and again.                                           *)
(***************************************************************************)
Fairness ==
    /\ WF_vars(Tick)
    /\ \A t \in Thread : WF_vars(Proceed(t))
    /\ \A t \in Recurrent : WF_vars(Start(t))

Spec == Init /\ [][Next]_vars /\ Fairness

-----------------------------------------------------------------------------
(***************************************************************************)
(* "never caches invalid snapshots": what no key of the backend has signed *)
(* is neither cached nor returned, whatever arrives in its place.          *)
(***************************************************************************)
OnlyVerified ==
    /\ cache.ver # Garbled
    /\ \A t \in Thread : pull[t].stage = "idle" => pull[t].got # Garbled

(***************************************************************************)
(* A rule change (a kill-switch, say) reaches every gate in time: unless   *)
(* the backend failed to answer, a pull never goes on with a snapshot that *)
(* was superseded MaxTTL (300 s) or more before the pull began, overlapping*)
(* pulls and late answers included.                                        *)
(***************************************************************************)
ChangeReachesGate ==
    \A t \in Thread :
        (pull[t].stage \in {"verify", "fetch", "refetch"}
           /\ pull[t].how # "fallback" /\ pull[t].got # Garbled)
        => stale[pull[t].got] < MaxTTL + pull[t].age

(***************************************************************************)
(* The last known good snapshot is never lost, and a newer one is replaced *)
(* by an older one only by a pull that another one has overtaken: a lone   *)
(* pull never takes the cache back in time.                                *)
(***************************************************************************)
OnlyOvertakenPullsRegress ==
    [][(cache'.ver < cache.ver /\ restarts' = restarts) =>
          \E t \in Thread : /\ pull[t].overtaken
                            /\ pull[t].stage # "idle"
                            /\ pull[t].got = cache'.ver]_vars

(***************************************************************************)
(* If the backend stays within reach, the process ends up with the current *)
(* snapshot, after outages, a change of keys and overlapping pulls, one of *)
(* which may store an older snapshot over a newer one.                     *)
(***************************************************************************)
CatchesUp == <>[]up => <>[](cache.ver = cur)

-----------------------------------------------------------------------------
(***************************************************************************)
(* "caches the result in-process for 5 min (bounded by validUntil claim)": *)
(* the entry of a snapshot that is still valid expires no later than the   *)
(* snapshot.  The code does not do this: a 304 answer keeps the snapshot   *)
(* for 300 s whatever its validUntil.                                      *)
(***************************************************************************)
EntryWithinValidUntil ==
    (cache.ver \in Version /\ left[cache.ver] > 0)
        => cache.ttl <= left[cache.ver]
=============================================================================
