------------------------ MODULE TokenVerifierProofs ------------------------
(***************************************************************************)
(* The safety properties of TokenVerifier, proved for every set of tokens, *)
(* every digest function and every choice of the three time constants.     *)
(***************************************************************************)
EXTENDS TokenVerifier, TLAPS

(* What one call of verify_agent_token does, for every token and cache. *)

\* The digest of a token is a digest.
LEMMA KeyOfType == ASSUME NEW t \in Token PROVE KeyOf(t) \in Key
  <1>1. t.did \in Did /\ t.nonce \in Nonce
    BY TokenAssumption DEF TokenRecord
  <1>2. QED
    BY <1>1, TokenAssumption DEF KeyOf

\* A call keeps the cache a function from digests to expiry times.
LEMMA RememberType ==
    ASSUME NEW t \in Token, NEW i, NEW R, NEW now \in Nat,
           NEW c \in NonceCache
    PROVE  Remember(t, i, R, now, c) \in NonceCache
  <1>1. now + NonceTTL \in Nat
    BY TimeAssumption
  <1>2. Evict(c, now) \in NonceCache
    BY DEF Evict, NonceCache
  <1>3. QED
    BY <1>1, <1>2 DEF Remember, NonceCache

\* An accepted token is admissible, and its digest had no live entry.
LEMMA AcceptedIsNew ==
    ASSUME NEW t \in Token, NEW i, NEW R, NEW now \in Nat,
           NEW c \in NonceCache,
           Verdict(t, i, R, now, c) = "accept"
    PROVE  /\ Admissible(t, i, R, now)
           /\ ~Live(c, KeyOf(t), now)
           /\ t.nonce \notin Surrogate
           /\ t.exp \in Int
  BY DEF Verdict, Records

\* The entry a call leaves: a new one for the token's digest if there was
\* none, and every live entry as it was.
LEMMA RememberEntries ==
    ASSUME NEW t \in Token, NEW i, NEW R, NEW now \in Nat,
           NEW c \in NonceCache, NEW k \in Key
    PROVE  LET d == Remember(t, i, R, now, c) IN
           /\ Live(c, k, now) => d[k] = c[k]
           /\ (~Live(c, k, now) /\ Live(d, k, now)) =>
                 /\ k = KeyOf(t)
                 /\ d[k] = now + NonceTTL
                 /\ Records(t, i, R, now, c)
           /\ Records(t, i, R, now, c) => d[KeyOf(t)] = now + NonceTTL
  <1>1. KeyOf(t) \in Key
    BY KeyOfType
  <1>2. c \in [Key -> Nat] /\ Evict(c, now) \in [Key -> Nat]
    BY DEF NonceCache, Evict
  <1>3. QED
    BY <1>1, <1>2, TimeAssumption DEF Remember, Records, Evict, Live

-----------------------------------------------------------------------------
(***************************************************************************)
(* The inductive invariant.  AcceptancesSpaced needs to know that a nonce  *)
(* accepted less than a time to live ago is still in the cache, and        *)
(* ReuseOnlyOfYoungTokens that a token is accepted within its window.      *)
(***************************************************************************)
PastOnly ==
    \A a \in accepted : a.at <= clock /\ a.epoch <= epoch

AcceptedRemembered ==
    \A a \in accepted :
        a.epoch = epoch =>
            \/ a.at + NonceTTL <= clock
            \/ cache[KeyOf(a.token)] >= a.at + NonceTTL

AcceptedInWindow ==
    \A a \in accepted : a.token.exp \in Int /\ InWindow(a.token, a.at)

IInv ==
    /\ TypeOK
    /\ PastOnly
    /\ AcceptedRemembered
    /\ AcceptedInWindow
    /\ AcceptancesSpaced
    /\ NonceSpentBySigner

LEMMA InitIInv == Init => IInv
  <1> SUFFICES ASSUME Init PROVE IInv
    OBVIOUS
  <1>1. TypeOK
    BY VerifierAssumption DEF Init, TypeOK, EmptyCache, NonceCache
  <1>2. NonceSpentBySigner
    BY DEF Init, NonceSpentBySigner, EmptyCache, Live
  <1>3. PastOnly /\ AcceptedRemembered /\ AcceptedInWindow /\ AcceptancesSpaced
    BY DEF Init, PastOnly, AcceptedRemembered, AcceptedInWindow,
           AcceptancesSpaced
  <1>4. QED
    BY <1>1, <1>2, <1>3 DEF IInv

-----------------------------------------------------------------------------
\* One call of verify_agent_token preserves the invariant.
LEMMA VerifyIInv ==
    ASSUME IInv, NEW t \in Token, NEW i \in Intent, Verify(t, i)
    PROVE  IInv'
  <1> DEFINE ok == Verdict(t, i, Resolver, clock, cache) = "accept"
             r  == [token |-> t, at |-> clock, epoch |-> epoch]
  <1>t. /\ clock \in Nat /\ epoch \in Nat /\ cache \in NonceCache
        /\ accepted \in SUBSET Presentation /\ spent \in SUBSET Presentation
        /\ KeyOf(t) \in Key
    BY KeyOfType, VerifierAssumption DEF IInv, TypeOK
  <1>s. /\ clock' = clock /\ epoch' = epoch
        /\ cache' = Remember(t, i, Resolver, clock, cache)
        /\ accepted' = IF ok THEN accepted \cup {r} ELSE accepted
        /\ spent' = IF Records(t, i, Resolver, clock, cache)
                    THEN spent \cup {r} ELSE spent
    BY DEF Verify, Record
  <1>r. r \in Presentation
    BY <1>t DEF Presentation
  <1>k. \A a \in accepted : /\ a.token \in Token /\ KeyOf(a.token) \in Key
                            /\ a.at \in Nat /\ a.epoch \in Nat
    BY <1>t, KeyOfType DEF Presentation
  <1>d. \A k \in Key :
          /\ cache[k] \in Nat /\ cache'[k] \in Nat
          /\ Live(cache, k, clock) => cache'[k] = cache[k]
          /\ (~Live(cache, k, clock) /\ Live(cache', k, clock)) =>
                /\ k = KeyOf(t)
                /\ cache'[k] = clock + NonceTTL
                /\ Records(t, i, Resolver, clock, cache)
    BY <1>t, <1>s, RememberEntries, RememberType DEF NonceCache
  <1>a. ok => /\ Admissible(t, i, Resolver, clock)
              /\ ~Live(cache, KeyOf(t), clock)
              /\ t.exp \in Int
              /\ cache'[KeyOf(t)] = clock + NonceTTL
    BY <1>t, <1>s, AcceptedIsNew, RememberEntries DEF Records
  <1>1. TypeOK'
    BY <1>t, <1>s, <1>r, RememberType DEF IInv, TypeOK
  <1>2. PastOnly'
    BY <1>t, <1>s DEF IInv, PastOnly
  <1>3. AcceptedRemembered'
    <2> SUFFICES ASSUME NEW a \in accepted', a.epoch = epoch
                 PROVE  \/ a.at + NonceTTL <= clock
                        \/ cache'[KeyOf(a.token)] >= a.at + NonceTTL
      BY <1>s DEF AcceptedRemembered
    <2>1. CASE a \in accepted
      <3>1. \/ a.at + NonceTTL <= clock
            \/ cache[KeyOf(a.token)] >= a.at + NonceTTL
        BY <2>1 DEF IInv, AcceptedRemembered
      <3>2. CASE Live(cache, KeyOf(a.token), clock)
        BY <2>1, <3>1, <3>2, <1>d, <1>k
      <3>3. CASE ~Live(cache, KeyOf(a.token), clock)
        BY <2>1, <3>1, <3>3, <1>d, <1>k, <1>t, TimeAssumption DEF Live
      <3>4. QED
        BY <3>2, <3>3
    <2>2. CASE a = r /\ ok
      BY <2>2, <1>a, <1>t, TimeAssumption
    <2>3. QED
      BY <2>1, <2>2, <1>s
  <1>4. AcceptedInWindow'
    BY <1>s, <1>a DEF IInv, AcceptedInWindow, Admissible
  <1>5. AcceptancesSpaced'
    <2> SUFFICES ASSUME NEW a \in accepted', NEW b \in accepted',
                        a.epoch = b.epoch, KeyOf(a.token) = KeyOf(b.token),
                        a # b
                 PROVE  a.at + NonceTTL <= b.at \/ b.at + NonceTTL <= a.at
      BY DEF AcceptancesSpaced
    <2>1. CASE a \in accepted /\ b \in accepted
      BY <2>1 DEF IInv, AcceptancesSpaced
    <2>2. ASSUME NEW c \in accepted, ok, c.epoch = epoch,
                 KeyOf(c.token) = KeyOf(t)
          PROVE  c.at + NonceTTL <= clock
      BY <2>2, <1>a, <1>k, <1>t, <1>d, TimeAssumption
         DEF IInv, AcceptedRemembered, Live
    <2>3. QED
      BY <2>1, <2>2, <1>s
  <1>6. NonceSpentBySigner'
    <2> SUFFICES ASSUME NEW k \in Key, Live(cache', k, clock)
                 PROVE  \E a \in spent' :
                          /\ a.epoch = epoch
                          /\ KeyOf(a.token) = k
                          /\ a.token.signed /\ a.token.did \in Resolver
                          /\ a.at + NonceTTL = cache'[k]
      BY <1>s DEF NonceSpentBySigner
    <2>1. CASE Live(cache, k, clock)
      <3>1. PICK a \in spent :
                   /\ a.epoch = epoch
                   /\ KeyOf(a.token) = k
                   /\ a.token.signed /\ a.token.did \in Resolver
                   /\ a.at + NonceTTL = cache[k]
        BY <2>1 DEF IInv, NonceSpentBySigner
      <3>2. a \in spent'
        BY <1>s
      <3>3. QED
        BY <3>1, <3>2, <2>1, <1>d
    <2>2. CASE ~Live(cache, k, clock)
      <3>1. /\ k = KeyOf(t) /\ cache'[k] = clock + NonceTTL
            /\ Records(t, i, Resolver, clock, cache)
        BY <2>2, <1>d
      <3>2. r \in spent'
        BY <3>1, <2>2, <1>s
      <3>3. QED
        BY <3>1, <3>2 DEF Records, Admissible, Authentic
    <2>3. QED
      BY <2>1, <2>2
  <1>7. QED
    BY <1>1, <1>2, <1>3, <1>4, <1>5, <1>6 DEF IInv

\* The passing of time preserves the invariant.
LEMMA TickIInv == ASSUME IInv, Tick PROVE IInv'
  <1>t. /\ clock \in Nat /\ epoch \in Nat /\ cache \in [Key -> Nat]
        /\ accepted \in SUBSET Presentation
        /\ \A a \in accepted : a.at \in Nat /\ KeyOf(a.token) \in Key
    BY KeyOfType, VerifierAssumption
       DEF IInv, TypeOK, NonceCache, Presentation
  <1>s. /\ clock' = clock + 1 /\ epoch' = epoch /\ cache' = cache
        /\ accepted' = accepted /\ spent' = spent /\ clock < MaxTime
    BY DEF Tick
  <1>1. TypeOK'
    BY <1>s, <1>t, VerifierAssumption DEF IInv, TypeOK
  <1>2. PastOnly'
    BY <1>s, <1>t DEF IInv, PastOnly
  <1>3. AcceptedRemembered'
    BY <1>s, <1>t, TimeAssumption DEF IInv, AcceptedRemembered
  <1>4. AcceptedInWindow' /\ AcceptancesSpaced'
    BY <1>s DEF IInv, AcceptedInWindow, AcceptancesSpaced
  <1>5. NonceSpentBySigner'
    <2>1. \A k \in Key : Live(cache, k, clock') => Live(cache, k, clock)
      BY <1>s, <1>t DEF Live
    <2>2. QED
      BY <2>1, <1>s DEF IInv, NonceSpentBySigner
  <1>6. QED
    BY <1>1, <1>2, <1>3, <1>4, <1>5 DEF IInv

\* A restart preserves it: no acceptance carries the new epoch.
LEMMA RestartIInv == ASSUME IInv, Restart PROVE IInv'
  <1>t. /\ clock \in Nat /\ epoch \in Nat
        /\ accepted \in SUBSET Presentation
        /\ \A a \in accepted : a.epoch \in Nat
    BY VerifierAssumption DEF IInv, TypeOK, Presentation
  <1>s. /\ clock' = clock /\ epoch' = epoch + 1 /\ cache' = EmptyCache
        /\ accepted' = accepted /\ spent' = spent /\ epoch < MaxEpoch
    BY DEF Restart
  <1>1. TypeOK'
    BY <1>s, <1>t, VerifierAssumption
       DEF IInv, TypeOK, EmptyCache, NonceCache
  <1>2. PastOnly' /\ AcceptedRemembered'
    BY <1>s, <1>t DEF IInv, PastOnly, AcceptedRemembered
  <1>3. AcceptedInWindow' /\ AcceptancesSpaced'
    BY <1>s DEF IInv, AcceptedInWindow, AcceptancesSpaced
  <1>4. NonceSpentBySigner'
    BY <1>s, <1>t DEF NonceSpentBySigner, EmptyCache, Live
  <1>5. QED
    BY <1>1, <1>2, <1>3, <1>4 DEF IInv

LEMMA NextIInv == IInv /\ [Next]_vars => IInv'
  <1> SUFFICES ASSUME IInv, [Next]_vars PROVE IInv'
    OBVIOUS
  <1>1. CASE \E t \in Token, i \in Intent : Verify(t, i)
    BY <1>1, VerifyIInv
  <1>2. CASE Tick
    BY <1>2, TickIInv
  <1>3. CASE Restart
    BY <1>3, RestartIInv
  <1>4. CASE UNCHANGED vars
    BY <1>4 DEF vars, IInv, TypeOK, PastOnly, AcceptedRemembered,
                AcceptedInWindow, AcceptancesSpaced, NonceSpentBySigner
  <1>5. QED
    BY <1>1, <1>2, <1>3, <1>4 DEF Next

THEOREM Invariance == Spec => []IInv
  BY InitIInv, NextIInv, PTL DEF Spec

-----------------------------------------------------------------------------
\* The verifier's state stays well typed.
THEOREM TypeCorrect == Spec => []TypeOK
  <1>1. IInv => TypeOK
    BY DEF IInv
  <1>2. QED
    BY <1>1, Invariance, PTL

\* One process never accepts a nonce digest twice within a time to live.
THEOREM SpacedAcceptances == Spec => []AcceptancesSpaced
  <1>1. IInv => AcceptancesSpaced
    BY DEF IInv
  <1>2. QED
    BY <1>1, Invariance, PTL

\* A live nonce was spent by a token its agent signed.
THEOREM SignerSpends == Spec => []NonceSpentBySigner
  <1>1. IInv => NonceSpentBySigner
    BY DEF IInv
  <1>2. QED
    BY <1>1, Invariance, PTL

\* Only a token first used right after it was issued can be used again.
THEOREM YoungReuse == Spec => []ReuseOnlyOfYoungTokens
  <1>1. IInv => ReuseOnlyOfYoungTokens
    <2> SUFFICES ASSUME IInv, NEW a \in accepted, NEW b \in accepted,
                        a.token = b.token, a.epoch = b.epoch, a.at < b.at,
                        a.token.iat \in Int
                 PROVE  a.at <= a.token.iat + MaxWindow + ExpSkew - NonceTTL
      BY DEF ReuseOnlyOfYoungTokens
    <2>1. /\ a.at \in Nat /\ b.at \in Nat /\ a.token \in Token
      BY DEF IInv, TypeOK, Presentation
    <2>2. a.token.iat \in Int /\ a.token.exp \in Int
      BY <2>1 DEF IInv, AcceptedInWindow
    <2>3. a.at + NonceTTL <= b.at
      BY <2>1, TimeAssumption DEF IInv, AcceptancesSpaced
    <2>4. /\ a.token.exp + ExpSkew >= b.at
          /\ a.token.exp - a.token.iat <= MaxWindow
      BY <2>2, TokenAssumption DEF IInv, AcceptedInWindow, InWindow
    <2>5. QED
      BY <2>1, <2>2, <2>3, <2>4, TimeAssumption
  <1>2. QED
    BY <1>1, Invariance, PTL

\* No step but a restart makes the process forget a live nonce.
THEOREM LiveEntriesStay == Spec => LiveEntryKept
  <1>1. IInv /\ [Next]_vars =>
          [\A k \in Key :
             (Live(cache, k, clock') /\ epoch' = epoch)
                => cache'[k] = cache[k]]_vars
    <2> SUFFICES ASSUME IInv, Next, NEW k \in Key,
                        Live(cache, k, clock'), epoch' = epoch
                 PROVE  cache'[k] = cache[k]
      OBVIOUS
    <2>t. clock \in Nat /\ epoch \in Nat /\ cache \in NonceCache
      BY VerifierAssumption DEF IInv, TypeOK
    <2>1. CASE \E t \in Token, i \in Intent : Verify(t, i)
      BY <2>1, <2>t, RememberEntries DEF Verify
    <2>2. CASE Tick
      BY <2>2 DEF Tick
    <2>3. CASE Restart
      BY <2>3, <2>t DEF Restart
    <2>4. QED
      BY <2>1, <2>2, <2>3 DEF Next
  <1>2. QED
    BY <1>1, Invariance, PTL DEF Spec, LiveEntryKept
=============================================================================
