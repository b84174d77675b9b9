---------------------------- MODULE AgentTokens ----------------------------
(***************************************************************************)
(* The agent token of models/enforcement_token_verifier.py, and what one   *)
(* call of verify_agent_token does with it.  The module holds no state:    *)
(* TokenVerifier runs the operators below on the nonce cache of one        *)
(* process, Enforcement on the nonce caches of several.                    *)
(*                                                                         *)
(* A token is the record of the facts the verifier looks at.  Parsing,     *)
(* base64, the Ed25519 check and the type tests on the claims are the      *)
(* Booleans `wellFormed` and `signed`; `intent` is the pair of what the    *)
(* checkoutIntentHash claim says of order id and amount, and the           *)
(* merchantId claim.  It equals the intent computed from an order exactly  *)
(* when token and order agree on all three.                                *)
(***************************************************************************)
EXTENDS Integers

CONSTANTS
    Did,          \* agent identifiers; a token's kid names one
    Nonce,        \* values of the nonce claim
    BadNonce,     \* those that are not strings of 16..64 characters
    Surrogate,    \* those that have no UTF-8 encoding (a lone surrogate)
    Jti,          \* well-formed values of the jti claim
    NoJti,        \* a missing or malformed jti
    Intent,       \* checkout intents: order and merchant
    Key,          \* SHA-256 digests that index the nonce cache
    NonceKey,     \* NonceKey[<<d, n>>]: digest of DID and nonce, concatenated
    NaN, Infinity,  \* claim values that json.loads accepts as numbers
    Huge,         \* an integer beyond the range of a float
    Token,        \* the tokens of this instance
    NonceTTL,     \* _NONCE_TTL_SECONDS
    MaxWindow,    \* _MAX_TOKEN_WINDOW_SECONDS
    ExpSkew       \* _EXP_CLOCK_SKEW_SECONDS

Seconds == Int \cup {NaN, Infinity, Huge}

TokenRecord ==
    [ text       : BOOLEAN,     \* a string, which a context value need not be
      did        : Did,         \* the DID before the # of the header's kid
      iss        : Did,         \* the iss claim
      wellFormed : BOOLEAN,     \* JSON objects, alg, typ, aud; exp, iat numeric
      signed     : BOOLEAN,     \* Ed25519 signature by the key of `did`
      iat        : Seconds,
      exp        : Seconds,
      intent     : Intent,
      nonce      : Nonce,
      jti        : Jti \cup {NoJti} ]

(***************************************************************************)
(* NonceKey is any function: DID and nonce are concatenated without a      *)
(* separator before hashing, so two pairs may share a digest.              *)
(***************************************************************************)
ASSUME TokenAssumption ==
    /\ Token \subseteq TokenRecord
    /\ NonceKey \in [Did \X Nonce -> Key]
    /\ NoJti \notin Jti
    /\ {NaN, Infinity, Huge} \cap Int = {}

ASSUME TimeAssumption ==
    /\ NonceTTL \in Nat \ {0}
    /\ MaxWindow \in Nat
    /\ ExpSkew \in Nat

KeyOf(t) == NonceKey[<<t.did, t.nonce>>]

(***************************************************************************)
(* A nonce cache maps a digest to the time its entry expires; 0 stands for *)
(* a digest that has no entry.                                             *)
(***************************************************************************)
NonceCache == [Key -> Nat]
EmptyCache == [k \in Key |-> 0]

\* Mutant of InWindow: the width of the window is not checked.
InWindowAnyWidth(t, now) == t.exp \in Int => t.exp + ExpSkew >= now

(***************************************************************************)
(* The checks on exp and iat, which are floats.  A comparison with NaN is  *)
(* false, so NaN passes the checks it takes part in, and so do Infinity    *)
(* minus Infinity and a finite exp minus Infinity; -Infinity fares like an *)
(* integer below all others.  iat is compared with exp only, never with    *)
(* the current time.                                                       *)
(***************************************************************************)
InWindow(t, now) ==
    /\ t.exp \in Int => t.exp + ExpSkew >= now
    /\ t.exp \in Int /\ t.iat \in Int => t.exp - t.iat <= MaxWindow
    /\ t.exp = Infinity => t.iat \notin Int

\* The checks that precede the reading of exp and iat.
Authentic(t, intent, resolver) ==
    /\ t.text /\ t.wellFormed
    /\ t.did \in resolver
    /\ t.signed
    /\ t.intent[2] = intent[2]

\* float() raises on exp or iat.
Overflows(t) == Huge \in {t.exp, t.iat}

\* Every check that precedes the nonce cache (steps 1 to 5, nonce length).
Admissible(t, intent, resolver, now) ==
    /\ Authentic(t, intent, resolver)
    /\ ~Overflows(t)
    /\ InWindow(t, now)
    /\ t.intent = intent
    /\ t.nonce \notin BadNonce

Live(cache, k, now) == cache[k] > now

\* Mutant of Evict: an entry goes one time unit before it expires.
EvictEarly(cache, now) ==
    [k \in Key |-> IF cache[k] > now + 1 THEN cache[k] ELSE 0]

\* _evict_expired_nonces
Evict(cache, now) ==
    [k \in Key |-> IF Live(cache, k, now) THEN cache[k] ELSE 0]

\* The call gets to line 203, which records the nonce.
Records(t, intent, resolver, now, cache) ==
    /\ Admissible(t, intent, resolver, now)
    /\ t.nonce \notin Surrogate
    /\ ~Live(cache, KeyOf(t), now)

\* Mutant of Remember: the time to live is subtracted.
RememberPast(t, intent, resolver, now, cache) ==
    IF ~Admissible(t, intent, resolver, now) THEN cache
    ELSE [Evict(cache, now) EXCEPT ![KeyOf(t)] = now - NonceTTL]

\* Mutant of Remember: the nonce is recorded before the other checks.
RememberUnchecked(t, intent, resolver, now, cache) ==
    IF Live(cache, KeyOf(t), now) THEN Evict(cache, now)
    ELSE [Evict(cache, now) EXCEPT ![KeyOf(t)] = now + NonceTTL]

\* Mutant of Remember: a replay renews the entry it hits.
RememberSliding(t, intent, resolver, now, cache) ==
    IF ~Admissible(t, intent, resolver, now) THEN cache
    ELSE [Evict(cache, now) EXCEPT ![KeyOf(t)] = now + NonceTTL]

(***************************************************************************)
(* What a call leaves in the cache.  The nonce is recorded before iss and  *)
(* jti are examined: a token refused for those has used its nonce up.      *)
(***************************************************************************)
Remember(t, intent, resolver, now, cache) ==
    IF ~Admissible(t, intent, resolver, now) THEN cache
    ELSE IF ~Records(t, intent, resolver, now, cache) THEN Evict(cache, now)
    ELSE [Evict(cache, now) EXCEPT ![KeyOf(t)] = now + NonceTTL]

\* Mutant of Identified: the jti is not looked at.
IdentifiedByIss(t) == t.iss = t.did

\* The checks after the nonce cache (step 6's tail).
Identified(t) == t.iss = t.did /\ t.jti # NoJti

(***************************************************************************)
(* What a call returns: "accept" is the dict of the verified agent,        *)
(* "reject" is None.  "raise" is an exception: of split() on what is no    *)
(* string, of float() on an integer too large, of encode() on a lone       *)
(* surrogate, or of int() on an exp that is not finite.                    *)
(***************************************************************************)
Verdict(t, intent, resolver, now, cache) ==
    LET recorded == Records(t, intent, resolver, now, cache) IN
    CASE recorded /\ Identified(t) /\ t.exp \in Int -> "accept"
      [] \/ ~t.text
         \/ Authentic(t, intent, resolver) /\ Overflows(t)
         \/ Admissible(t, intent, resolver, now) /\ t.nonce \in Surrogate
         \/ recorded /\ Identified(t) /\ t.exp \notin Int -> "raise"
      [] OTHER -> "reject"

\* A token on which a call may raise.
Raising(t) ==
    ~t.text \/ Overflows(t) \/ t.nonce \in Surrogate \/ t.exp \notin Int
=============================================================================
