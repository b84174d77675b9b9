--------------------------- MODULE TokenVerifier ---------------------------
(***************************************************************************)
(* One Odoo process verifying the agent tokens presented to it: the module *)
(* global _NONCE_CACHE of models/enforcement_token_verifier.py, the calls  *)
(* of verify_agent_token that read and write it, time, and the restarts    *)
(* that empty it.  A call is one action: the workers of Odoo's prefork     *)
(* server, one process each, serve one request at a time, and the call     *)
(* does no I/O.  Nothing in the code enforces it: where threads share the  *)
(* process, the interpreter may switch between the look at the cache       *)
(* (line 200) and the entry (line 203), which no lock holds together.      *)
(***************************************************************************)
EXTENDS AgentTokens

CONSTANTS
    Resolver,     \* the DIDs whose keys the rule snapshot lists
    MaxTime,      \* bound on the clock
    MaxEpoch      \* bound on the restarts

VARIABLES
    clock,        \* time.time()
    cache,        \* _NONCE_CACHE
    epoch,        \* which process this is: one more per restart
    accepted,     \* history: the acceptances so far
    spent         \* history: the presentations that recorded a nonce

vars == <<clock, cache, epoch, accepted, spent>>

ASSUME VerifierAssumption ==
    /\ Resolver \subseteq Did
    /\ MaxTime \in Nat \ {0}
    /\ MaxEpoch \in Nat

Presentation == [token : Token, at : Nat, epoch : Nat]

TypeOK ==
    /\ clock \in 1..MaxTime
    /\ cache \in NonceCache
    /\ epoch \in 0..MaxEpoch
    /\ accepted \in SUBSET Presentation
    /\ spent \in SUBSET Presentation

Init ==
    /\ clock = 1
    /\ cache = EmptyCache
    /\ epoch = 0
    /\ accepted = {}
    /\ spent = {}

Record(t) == {[token |-> t, at |-> clock, epoch |-> epoch]}

(***************************************************************************)
(* verify_agent_token on token t for an order whose intent hash is i.      *)
(***************************************************************************)
Verify(t, i) ==
    /\ cache' = Remember(t, i, Resolver, clock, cache)
    /\ accepted' = IF Verdict(t, i, Resolver, clock, cache) = "accept"
                   THEN accepted \cup Record(t) ELSE accepted
    /\ spent' = IF Records(t, i, Resolver, clock, cache)
                THEN spent \cup Record(t) ELSE spent
    /\ UNCHANGED <<clock, epoch>>

Tick ==
    /\ clock < MaxTime
    /\ clock' = clock + 1
    /\ UNCHANGED <<cache, epoch, accepted, spent>>

\* The process dies and is started again: its module globals start empty.
Restart ==
    /\ epoch < MaxEpoch
    /\ epoch' = epoch + 1
    /\ cache' = EmptyCache
    /\ UNCHANGED <<clock, accepted, spent>>

Next ==
    \/ \E t \in Token, i \in Intent : Verify(t, i)
    \/ Tick
    \/ Restart

Spec == Init /\ [][Next]_vars

-----------------------------------------------------------------------------
(***************************************************************************)
(* Two acceptances that share a nonce digest, by one process, are at least *)
(* the nonce's time to live apart.                                         *)
(***************************************************************************)
AcceptancesSpaced ==
    \A a, b \in accepted :
        /\ a.epoch = b.epoch
        /\ KeyOf(a.token) = KeyOf(b.token)
        /\ a # b
        => a.at + NonceTTL <= b.at \/ b.at + NonceTTL <= a.at

(***************************************************************************)
(* The cache remembers a nonce for less time than a token can stay valid   *)
(* (300 s against 330 s + 30 s), so one process can accept a token twice.  *)
(* It does so only when the first acceptance came within the difference,   *)
(* counted from iat: a token first used later than that is single-use.     *)
(***************************************************************************)
ReuseOnlyOfYoungTokens ==
    \A a, b \in accepted :
        /\ a.token = b.token
        /\ a.epoch = b.epoch
        /\ a.at < b.at
        /\ a.token.iat \in Int
        => a.at <= a.token.iat + MaxWindow + ExpSkew - NonceTTL

(***************************************************************************)
(* Only a token that its agent signed for the order at hand can use up a   *)
(* nonce: every live entry stems from such a token, presented to this      *)
(* process exactly one time to live before the entry expires.              *)
(***************************************************************************)
NonceSpentBySigner ==
    \A k \in Key : Live(cache, k, clock) =>
        \E a \in spent :
            /\ a.epoch = epoch
            /\ KeyOf(a.token) = k
            /\ a.token.signed /\ a.token.did \in Resolver
            /\ a.at + NonceTTL = cache[k]

(***************************************************************************)
(* Nothing but time and a restart forgets a nonce: an entry that is live   *)
(* after a step was not changed by it, unless the step created it.         *)
(***************************************************************************)
LiveEntryKept ==
    [][\A k \in Key :
          (Live(cache, k, clock') /\ epoch' = epoch) => cache'[k] = cache[k]]_vars
=============================================================================
