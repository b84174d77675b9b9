---------------------------- MODULE Enforcement ----------------------------
(***************************************************************************)
(* Checkout enforcement: models/sale_order_enforcement.py with the nonce   *)
(* caches of models/enforcement_token_verifier.py, the nonce-consume call  *)
(* of models/nonce_consumer.py, and what the Odoo ORM and the Trusteed     *)
(* backend (both outside src/) do when the code calls them.                *)
(*                                                                         *)
(* A worker serves one RPC call at a time, in one database transaction.    *)
(* A call gates the orders of its batch one by one; each gate reads the    *)
(* rule snapshot anew, verifies the token, consumes its jti at the backend *)
(* and asks the Layer-2 rules service.  The two requests are where other   *)
(* workers interleave, so they separate the stages of a gate.  A gate that *)
(* refuses raises, which rolls the whole call back: the database as it     *)
(* was, but nonce caches and backend as the call left them.                *)
(***************************************************************************)
EXTENDS AgentTokens, FiniteSets

CONSTANTS
    Order, Batch,       \* sale orders; the recordsets a call may act on
    Company, Configured,  \* companies; Configured[c]: the fallback_mode of c's
                        \* trusteed.company.enforcement.map record
    Merchant, Pending,  \* merchant ids; the placeholder order id of create()
    Worker, Process, ProcessOf,  \* workers and the processes that host them
    Op,                 \* subset of {"confirm", "write", "create"}
    TokenOn,            \* TokenOn[o]: the order's x_trusteed_agent_token
    CtxToken,           \* values of the context key trusteed_agent_token
    NoToken, NoDid, NoSnapshot, NoOrder,
    Policy,             \* the rule snapshots get_snapshot may return
    InitPolicy,         \* the initial snapshots, NoSnapshot allowed
    InitStatus,         \* the initial states of the orders
    MaxTime, MaxCalls, MaxTries, MaxChanges, MaxCrashes   \* bounds

Mode == {"strict", "balanced", "permissive"}

PolicyRecord ==
    [ merchant : Merchant,
      kill     : BOOLEAN,        \* killSwitch
      mode     : Mode,           \* fallbackMode
      creds    : BOOLEAN,        \* installationId and hmacSecret present
      tier2    : BOOLEAN,        \* some enabled rule's code is in tier2_codes
      resolver : SUBSET Did,     \* agentDidResolver
      blocks   : SUBSET Order,   \* orders that the rules service must block
      limits   : SUBSET Order ]  \* orders over the limit on the amount, on the
                                 \* spike or on the number of lines

ASSUME EnforcementAssumption ==
    /\ Policy \subseteq PolicyRecord
    /\ InitPolicy \subseteq [Company -> Policy \cup {NoSnapshot}]
    /\ InitStatus \in [Order -> {"absent", "draft"}]
    /\ Configured \in [Company -> Mode]
    /\ ProcessOf \in [Worker -> Process]
    /\ TokenOn \in [Order -> Token \cup {NoToken}]
    /\ CtxToken \subseteq Token \cup {NoToken}
    /\ Batch \subseteq SUBSET Order
    /\ Op \subseteq {"confirm", "write", "create"}
    /\ NoSnapshot \notin Policy /\ NoToken \notin Token
    /\ NoDid \notin Did /\ NoOrder \notin Order /\ Pending \notin Order
    /\ Intent = (Order \cup {Pending}) \X Merchant
    /\ MaxTime \in Nat \ {0} /\ MaxTries \in Nat \ {0}
    /\ MaxCalls \in Nat /\ MaxChanges \in Nat /\ MaxCrashes \in Nat

VARIABLES
    clock,      \* time.time()
    policy,     \* policy[c]: what get_snapshot returns in company c
    nonces,     \* nonces[p]: _NONCE_CACHE of process p
    consumed,   \* the jtis the backend has recorded
    status,     \* status[o]: "absent", "draft" or "sale", committed
    agentDid,   \* agentDid[o]: x_trusteed_agent_did, committed
    call,       \* call[w]: the RPC call worker w serves
    started, crashes, changes,   \* how often the environment has acted
    verified,   \* history: <<token, order>> that a gate verified
    redeemed    \* history: redeemed[j]: calls committed on jti j after its
                \* acceptance by the backend under strict

env  == <<clock, policy, started, crashes, changes>>
db   == <<status, agentDid>>
hist == <<verified, redeemed>>
vars == <<env, nonces, consumed, db, call, hist>>

(***************************************************************************)
(* A call in progress.  `todo` holds the orders of the current round still *)
(* to be gated; `stage`, `order` and `snap` belong to the gate in          *)
(* progress.  `did` are writes of the open transaction.  `stale` marks a   *)
(* transaction whose rows another one has changed.  The fields from        *)
(* `redeem` on are history: the jtis accepted under strict, the            *)
(* nonces this call recorded itself, whether a gate let an order through   *)
(* after a REPLAY answer (replayed) or without a snapshot (blind), the     *)
(* orders let through with no answer of the rules service (offline), and   *)
(* what the snapshot demanded at every instant of the call so far: the     *)
(* kill-switch (killed), the strict mode (strict), the orders to block     *)
(* (blocked) and those over a limit (limited).                             *)
(***************************************************************************)
Stage == {"idle", "gate", "consume", "layer2"}

Call ==
    [ op : Op, company : Company, ctx : Token \cup {NoToken},
      batch : Batch, todo : SUBSET Order, round : 1..2,
      tries : 1..MaxTries, stale : BOOLEAN,
      stage : Stage, order : Order \cup {NoOrder},
      snap : Policy \cup {NoSnapshot},
      did : [Order -> Did \cup {NoDid}],
      redeem : SUBSET Jti, own : SUBSET (Key \X Order),
      replayed : BOOLEAN, blind : BOOLEAN,
      offline : SUBSET Order, killed : BOOLEAN, strict : BOOLEAN,
      blocked : SUBSET Order, limited : SUBSET Order ]

Idle == [stage |-> "idle"]

TypeOK ==
    /\ clock \in 1..MaxTime
    /\ policy \in [Company -> Policy \cup {NoSnapshot}]
    /\ nonces \in [Process -> NonceCache]
    /\ consumed \subseteq Jti
    /\ status \in [Order -> {"absent", "draft", "sale"}]
    /\ agentDid \in [Order -> Did \cup {NoDid}]
    /\ call \in [Worker -> Call \cup {Idle}]
    /\ started \in 0..MaxCalls
    /\ crashes \in 0..MaxCrashes /\ changes \in 0..MaxChanges
    /\ verified \subseteq Token \X Order
    /\ redeemed \in [Jti -> Nat]

Init ==
    /\ clock = 1
    /\ policy \in InitPolicy
    /\ nonces = [p \in Process |-> EmptyCache]
    /\ consumed = {}
    /\ status = InitStatus
    /\ agentDid = [o \in Order |-> NoDid]
    /\ call = [w \in Worker |-> Idle]
    /\ started = 0 /\ crashes = 0 /\ changes = 0
    /\ verified = {}
    /\ redeemed = [j \in Jti |-> 0]

-----------------------------------------------------------------------------
(* What the code computes. *)

\* _resolve_fallback_mode
FallbackMode(p) == IF p = NoSnapshot THEN "balanced" ELSE p.mode

\* _apply_fallback: returns, or raises under strict.
FallbackPasses(p) == FallbackMode(p) # "strict"

\* The token of an order: its field, or the key of the caller's context.
TokenFor(c, o) == IF TokenOn[o] # NoToken THEN TokenOn[o] ELSE c.ctx

\* The checkout intent of an order; amounts are part of the token's intent.
IntentFor(c, o, p) == <<IF c.op = "create" THEN Pending ELSE o, p.merchant>>

Busy(w) == call[w].stage # "idle"

AtGate(w, o) == call[w].stage = "gate" /\ o \in call[w].todo

Snapshot(w) == policy[call[w].company]

\* Every order of the last round has been let through.
Cleared(w) ==
    /\ call[w].stage = "gate"
    /\ call[w].todo = {}
    /\ call[w].op = "confirm" => call[w].round = 2

\* The order leaves its gate; the next one of the round is up.
Passed(c, o) ==
    [c EXCEPT !.stage = "gate", !.order = NoOrder, !.snap = NoSnapshot,
              !.todo = @ \ {o}]

(***************************************************************************)
(* A gate raises: the call ends, its transaction is rolled back, and the   *)
(* writes in `did` are gone.                                               *)
(***************************************************************************)
Refuse(w) == call' = [call EXCEPT ![w] = Idle]

Become(w, c) == call' = [call EXCEPT ![w] = c]

-----------------------------------------------------------------------------
(* The overrides of action_confirm, write and create. *)

\* A snapshot in strict mode.
Strict(p) == p # NoSnapshot /\ p.mode = "strict"

\* The orders to block, and those over a limit, if a rule calls for Layer 2.
Blocks(p) == IF p # NoSnapshot /\ p.tier2 THEN p.blocks ELSE {}
Limits(p) == IF p # NoSnapshot /\ p.tier2 THEN p.limits ELSE {}

Opened(op, co, x, b, n) ==
    [ op |-> op, company |-> co, ctx |-> x, batch |-> b, todo |-> b,
      round |-> 1, tries |-> n, stale |-> FALSE, stage |-> "gate",
      order |-> NoOrder, snap |-> NoSnapshot,
      did |-> [o \in Order |-> NoDid],
      redeem |-> {}, own |-> {}, replayed |-> FALSE, blind |-> FALSE,
      offline |-> {},
      killed |-> policy[co] # NoSnapshot /\ policy[co].kill,
      strict |-> Strict(policy[co]),
      blocked |-> Blocks(policy[co]) \cap b,
      limited |-> Limits(policy[co]) \cap b ]

\* action_confirm, write({'state': 'sale'}) and create([{'state': 'sale'}])
\* gate every order before they hand over to the ORM.
Start(w) ==
    /\ ~Busy(w)
    /\ started < MaxCalls /\ started' = started + 1
    /\ \E op \in Op, co \in Company, x \in CtxToken, b \in Batch \ {{}} :
          /\ \A o \in b : (status[o] = "absent") <=> (op = "create")
          /\ op = "create" => \A v \in Worker :
                (Busy(v) /\ call[v].op = "create") => call[v].batch \cap b = {}
          /\ Become(w, Opened(op, co, x, b, 1))
    /\ UNCHANGED <<clock, policy, crashes, changes, nonces, consumed, db, hist>>

(***************************************************************************)
(* super().action_confirm(), outside src/: it refuses orders that are not  *)
(* quotations any more, and confirms the others by calling                 *)
(* self.write({'state': 'sale'}), whose override gates every order again.  *)
(***************************************************************************)
SuperConfirm(w) ==
    /\ call[w].stage = "gate" /\ call[w].todo = {}
    /\ call[w].op = "confirm" /\ call[w].round = 1
    /\ IF \A o \in call[w].batch : status[o] = "draft"
       THEN Become(w, [call[w] EXCEPT !.round = 2, !.todo = call[w].batch])
       ELSE Refuse(w)
    /\ UNCHANGED <<env, nonces, consumed, db, hist>>

-----------------------------------------------------------------------------
(* One gate: _trusteed_cel_enforce and _trusteed_cel_enforce_vals. *)

\* No snapshot: the fallback of a mode nobody configured decides.
GateBlind(w, o) ==
    /\ AtGate(w, o) /\ Snapshot(w) = NoSnapshot
    /\ IF FallbackPasses(NoSnapshot)
       THEN Become(w, [Passed(call[w], o) EXCEPT !.blind = TRUE])
       ELSE Refuse(w)
    /\ UNCHANGED <<env, nonces, consumed, db, hist>>

\* Mutant of GateKilled: the kill-switch is left to the fallback mode.
GateKilledByMode(w, o) ==
    /\ AtGate(w, o) /\ Snapshot(w) # NoSnapshot
    /\ Snapshot(w).kill
    /\ IF FallbackPasses(Snapshot(w))
       THEN Become(w, Passed(call[w], o)) ELSE Refuse(w)
    /\ UNCHANGED <<env, nonces, consumed, db, hist>>

\* The kill-switch refuses in every mode.
GateKilled(w, o) ==
    /\ AtGate(w, o) /\ Snapshot(w) # NoSnapshot
    /\ Snapshot(w).kill
    /\ Refuse(w)
    /\ UNCHANGED <<env, nonces, consumed, db, hist>>

\* The stage that a live snapshot leads to.
Enabled(w) == Snapshot(w) # NoSnapshot /\ ~Snapshot(w).kill

(***************************************************************************)
(* No token: an existing order goes on to the merchant-wide rules, a       *)
(* headless create falls back.                                             *)
(***************************************************************************)
GateOrganic(w, o) ==
    /\ AtGate(w, o) /\ Enabled(w)
    /\ TokenFor(call[w], o) = NoToken
    /\ IF call[w].op # "create"
       THEN Become(w, [call[w] EXCEPT !.stage = "layer2", !.order = o,
                                      !.snap = Snapshot(w)])
       ELSE IF FallbackPasses(Snapshot(w))
            THEN Become(w, Passed(call[w], o))
            ELSE Refuse(w)
    /\ UNCHANGED <<env, nonces, consumed, db, hist>>

(***************************************************************************)
(* A token: verify_agent_token answers at once.  Accepted, an existing     *)
(* order goes on to the nonce-consume request, a headless create is        *)
(* through.  An exception falls back, whatever the order.                  *)
(***************************************************************************)
GateToken(w, o) ==
    LET c  == call[w]
        pr == ProcessOf[w]
        p  == Snapshot(w)
        t  == TokenFor(c, o)
        i  == IntentFor(c, o, p)
        v  == Verdict(t, i, p.resolver, clock, nonces[pr])
        own == IF v = "accept" THEN c.own \cup {<<KeyOf(t), o>>} ELSE c.own
    IN
    /\ AtGate(w, o) /\ Enabled(w) /\ t # NoToken
    /\ nonces' = [nonces EXCEPT
                    ![pr] = Remember(t, i, p.resolver, clock, nonces[pr])]
    /\ verified' = IF v = "accept" THEN verified \cup {<<t, o>>} ELSE verified
    /\ \/ v = "reject" /\ Refuse(w)
       \/ /\ v = "raise"
          /\ IF FallbackPasses(p) THEN Become(w, Passed(c, o)) ELSE Refuse(w)
       \/ /\ v = "accept"
          /\ Become(w, IF c.op = "create"
                       THEN [Passed(c, o) EXCEPT !.own = own]
                       ELSE [c EXCEPT !.stage = "consume", !.order = o,
                                      !.snap = p, !.own = own])
    /\ UNCHANGED <<env, consumed, db, redeemed>>

\* Mutant of ConsumeNonce: an answer that stays out counts as ACCEPTED.
ConsumeNonceHopeful(w) ==
    LET c == call[w]
        t == TokenFor(c, c.order)
    IN
    /\ c.stage = "consume" /\ c.snap.creds
    /\ consumed' = consumed \cup {t.jti}
    /\ Become(w, [c EXCEPT !.stage = "layer2",
                           !.redeem = IF c.snap.mode = "strict"
                                      THEN @ \cup {t.jti} ELSE @])
    /\ UNCHANGED <<env, nonces, db, hist>>

(***************************************************************************)
(* nonce_consumer.consume_nonce.  The backend, outside src/, records a jti *)
(* once; a timeout may come after it has done so (INDETERMINATE either     *)
(* way), and so may an error or the lack of credentials before it.         *)
(***************************************************************************)
Consumes(p, t, outcome) ==
    \/ /\ outcome = "ACCEPTED" /\ p.creds /\ t.jti \notin consumed
       /\ consumed' = consumed \cup {t.jti}
    \/ /\ outcome = "REPLAY" /\ p.creds /\ t.jti \in consumed
       /\ UNCHANGED consumed
    \/ /\ outcome = "INDETERMINATE"
       /\ \/ UNCHANGED consumed
          \/ p.creds /\ consumed' = consumed \cup {t.jti}

\* Mutant of ConsumeNonce: an uncertain answer goes on in every mode.
ConsumeNonceLenient(w) ==
    LET c == call[w]
        t == TokenFor(c, c.order)
        next == [c EXCEPT !.stage = "layer2"]
    IN
    /\ c.stage = "consume"
    /\ \/ /\ Consumes(c.snap, t, "ACCEPTED")
          /\ Become(w, IF c.snap.mode = "strict"
                       THEN [next EXCEPT !.redeem = @ \cup {t.jti}] ELSE next)
       \/ Consumes(c.snap, t, "INDETERMINATE") /\ Become(w, next)
    /\ UNCHANGED <<env, nonces, db, hist>>

\* _consume_nonce_with_failure_mode: under strict only ACCEPTED goes on.
ConsumeNonce(w) ==
    LET c == call[w]
        t == TokenFor(c, c.order)
        next == [c EXCEPT !.stage = "layer2"]
    IN
    /\ c.stage = "consume"
    /\ \/ /\ Consumes(c.snap, t, "ACCEPTED")
          /\ Become(w, IF c.snap.mode = "strict"
                       THEN [next EXCEPT !.redeem = @ \cup {t.jti}] ELSE next)
       \/ /\ Consumes(c.snap, t, "REPLAY")
          /\ IF FallbackPasses(c.snap)
             THEN Become(w, [next EXCEPT !.replayed = TRUE]) ELSE Refuse(w)
       \/ /\ Consumes(c.snap, t, "INDETERMINATE")
          /\ IF FallbackPasses(c.snap) THEN Become(w, next) ELSE Refuse(w)
    /\ UNCHANGED <<env, nonces, db, hist>>

-----------------------------------------------------------------------------
(* The Layer-2 stage. *)

\* Mutant of Allowed: the DID is written to every order of the batch.
AllowedForBatch(c, t) ==
    [Passed(c, c.order) EXCEPT
        !.did = [o \in Order |->
                   IF o \in c.batch /\ t # NoToken THEN t.did ELSE @[o]]]

\* The order is let through; a verified agent's DID is written to it.
Allowed(c, t) ==
    [Passed(c, c.order) EXCEPT
        !.did[c.order] = IF t = NoToken THEN c.did[c.order] ELSE t.did]

\* The order is let through, the rules service being out.
AllowedOffline(c, t) == [Allowed(c, t) EXCEPT !.offline = @ \cup {c.order}]

\* Mutant of AskLayer2: the offline safety valve is not consulted.
AskLayer2NoValve(w) ==
    LET c == call[w] IN
    /\ c.stage = "layer2"
    /\ IF c.snap.mode # "strict"
       THEN Become(w, AllowedOffline(c, TokenFor(c, c.order)))
       ELSE Refuse(w)
    /\ UNCHANGED <<env, nonces, consumed, db, hist>>

\* _trusteed_cel_call_layer2 gets to its request; without the credentials it
\* returns None.
Layer2Asked(p) == p.tier2 /\ p.creds

(***************************************************************************)
(* The request and what may come of it.  The service, outside src/, never  *)
(* allows an order that it must block; "none": no usable answer.  Nothing  *)
(* is written on the way: kid_first_seen.* would be, but hashlib is a      *)
(* local of the function, imported further down, and the exception that    *)
(* its use raises is swallowed.                                            *)
(***************************************************************************)
Layer2Answers(c) ==
    {"none"}
    \cup {a \in {"ALLOW"} : Layer2Asked(c.snap) /\ c.order \notin c.snap.blocks}
    \cup {a \in {"BLOCK"} : Layer2Asked(c.snap)}

(***************************************************************************)
(* What the offline safety valve may say, which SafetyValve has in detail. *)
(* Its context lacks signals that the service has, and is cut short when   *)
(* its extraction raises: it may pass an order that the service must       *)
(* block, and block one that the service allows.  Amount and number of     *)
(* lines it has in any case: an order over a limit on these it does block. *)
(***************************************************************************)
ValveVerdicts(p, o) == {"block"} \cup {v \in {"pass"} : o \notin p.limits}

(***************************************************************************)
(* The Layer-2 stage of a gate.  Without an answer the offline safety      *)
(* valve and then the fallback mode decide.                                *)
(***************************************************************************)
AskLayer2(w) ==
    LET c == call[w]
        p == c.snap
        t == TokenFor(c, c.order)
        through == Become(w, Allowed(c, t))
    IN
    /\ c.stage = "layer2"
    /\ \/ ~p.tier2 /\ through                               \* nothing to ask
       \/ p.tier2 /\ "ALLOW" \in Layer2Answers(c) /\ through
       \/ p.tier2 /\ "BLOCK" \in Layer2Answers(c) /\ Refuse(w)
       \/ /\ p.tier2 /\ "none" \in Layer2Answers(c)
          /\ \E valve \in ValveVerdicts(p, c.order) :
                IF valve = "pass" /\ p.mode # "strict"
                THEN Become(w, AllowedOffline(c, t)) ELSE Refuse(w)
    /\ UNCHANGED <<env, nonces, consumed, db, hist>>

-----------------------------------------------------------------------------
(* The transaction, the process and the environment. *)

\* Another transaction has changed rows that this call also changes.
Conflicts(c, d) == d.op # "create" /\ c.batch \cap d.batch # {}

Commit(w) ==
    LET c == call[w] IN
    /\ Cleared(w) /\ ~c.stale
    /\ status' = [o \in Order |-> IF o \in c.batch THEN "sale" ELSE status[o]]
    /\ agentDid' = [o \in Order |->
                      IF c.did[o] # NoDid THEN c.did[o] ELSE agentDid[o]]
    /\ call' = [v \in Worker |->
                  IF v = w THEN Idle
                  ELSE IF Busy(v) /\ Conflicts(c, call[v])
                       THEN [call[v] EXCEPT !.stale = TRUE] ELSE call[v]]
    /\ redeemed' = [j \in Jti |->
                      redeemed[j] + IF j \in c.redeem THEN 1 ELSE 0]
    /\ UNCHANGED <<env, nonces, consumed, verified>>

(***************************************************************************)
(* The database aborts a stale transaction.  Odoo's RPC layer runs the     *)
(* whole call again, or gives up.                                          *)
(***************************************************************************)
Retry(w) ==
    LET c == call[w] IN
    /\ Cleared(w) /\ c.stale
    /\ IF c.tries < MaxTries
       THEN Become(w, [Opened(c.op, c.company, c.ctx, c.batch, c.tries + 1)
                         EXCEPT !.own = c.own])
       ELSE Refuse(w)
    /\ UNCHANGED <<env, nonces, consumed, db, hist>>

\* A process dies with the calls it serves, and starts with no nonces.
Crash(pr) ==
    /\ crashes < MaxCrashes
    /\ crashes' = crashes + 1
    /\ nonces' = [nonces EXCEPT ![pr] = EmptyCache]
    /\ call' = [w \in Worker |-> IF ProcessOf[w] = pr THEN Idle ELSE call[w]]
    /\ UNCHANGED <<clock, policy, started, changes, consumed, db, hist>>

\* The merchant's rules change, or the snapshot cannot be had any more.
PolicyChange(co) ==
    /\ changes < MaxChanges
    /\ changes' = changes + 1
    /\ \E p \in Policy \cup {NoSnapshot} :
          /\ policy' = [policy EXCEPT ![co] = p]
          /\ call' = [w \in Worker |->
                IF ~Busy(w) \/ call[w].company # co THEN call[w]
                ELSE [call[w] EXCEPT
                        !.killed = @ /\ p # NoSnapshot /\ p.kill,
                        !.strict = @ /\ Strict(p),
                        !.blocked = @ \cap Blocks(p),
                        !.limited = @ \cap Limits(p)]]
    /\ UNCHANGED <<clock, started, crashes, nonces, consumed, db, hist>>

Tick ==
    /\ clock < MaxTime
    /\ clock' = clock + 1
    /\ UNCHANGED <<policy, started, crashes, changes, nonces, consumed, db, call,
                   hist>>

-----------------------------------------------------------------------------
Serve(w) ==
    \/ \E o \in Order : \/ GateBlind(w, o) \/ GateKilled(w, o)
                        \/ GateOrganic(w, o) \/ GateToken(w, o)
    \/ ConsumeNonce(w)
    \/ AskLayer2(w)
    \/ SuperConfirm(w)
    \/ Commit(w)
    \/ Retry(w)

Next ==
    \/ \E w \in Worker : Start(w) \/ Serve(w)
    \/ \E pr \in Process : Crash(pr)
    \/ \E co \in Company : PolicyChange(co)
    \/ Tick

Spec == Init /\ [][Next]_vars

-----------------------------------------------------------------------------
(***************************************************************************)
(* A jti whose consumption the backend has accepted under strict goes into *)
(* at most one committed call: across workers, processes, crashes, retries *)
(* and lost answers, and although a call can be rolled back after the      *)
(* backend took its jti.  A headless create verifies its token and never   *)
(* asks the backend: the sales it commits on a jti are not among these.    *)
(***************************************************************************)
ConsumedTokenRedeemedOnce == \A j \in Jti : redeemed[j] <= 1

(***************************************************************************)
(* A kill-switch that is on from the start of a call until its end stops   *)
(* the call, in every mode and on every entry path.                        *)
(***************************************************************************)
KillSwitchHolds == \A w \in Worker : Cleared(w) => ~call[w].killed

(***************************************************************************)
(* An order that a universal rule blocks throughout a call is confirmed by *)
(* it in two cases only: its token makes the verifier raise, or the rules  *)
(* service gave no answer and the order is not one that has been over a    *)
(* limit on its size all along: those stay blocked in an outage.           *)
(* (The headless create asks for no rules, and none are asked for unless   *)
(* an enabled rule counts as one of Layer 2.)                              *)
(***************************************************************************)
UniversalRulesHold ==
    \A w \in Worker :
        (Cleared(w) /\ call[w].op # "create") =>
            \A o \in call[w].blocked :
                LET t == TokenFor(call[w], o) IN
                \/ t # NoToken /\ Raising(t)
                \/ o \in call[w].offline \ call[w].limited

(***************************************************************************)
(* The DID on an order is the DID of a token verified for that order, and  *)
(* no order that is not confirmed carries one.                             *)
(***************************************************************************)
DidOnlyOnSales ==
    \A o \in Order : agentDid[o] # NoDid =>
        /\ status[o] = "sale"
        /\ \E v \in verified : v[2] = o /\ v[1].did = agentDid[o]

-----------------------------------------------------------------------------
(* The abstract specification that checkout enforcement implements. *)

\* The jtis that a call has got under strict and may still spend.
Held == [w \in Worker |-> IF Busy(w) THEN call[w].redeem ELSE {}]

\* Those of the tokens on the orders of an existing quotation, as long as the
\* mode has been strict throughout.
Needed(c) ==
    IF c.strict /\ c.op # "create"
    THEN {TokenFor(c, o).jti : o \in {u \in c.batch : TokenFor(c, u) # NoToken}}
    ELSE {}

Needs == [w \in Worker |-> IF Busy(w) THEN Needed(call[w]) ELSE {}]

Spent == {j \in Jti : redeemed[j] # 0}

Sale == INSTANCE Redemption
            WITH Buyer <- Worker, taken <- consumed, held <- Held,
                 needs <- Needs, spent <- Spent, did <- agentDid

(***************************************************************************)
(* The consumption of a jti at the backend and the transaction of the      *)
(* confirmation, which can fail apart from each other, amount to one       *)
(* atomic sale: it is made with tokens that nobody else took or spent,     *)
(* under strict with those of all its orders, and a call that is refused,  *)
(* aborted or killed loses what it took.                                   *)
(***************************************************************************)
RedemptionRefined == Sale!Spec

-----------------------------------------------------------------------------
(***************************************************************************)
(* What the documentation says of the code, which the code does not do.    *)
(***************************************************************************)

(***************************************************************************)
(* "ALLOW decision -> proceed to super()": the confirmation of an order    *)
(* does not refuse the order's token because it presented it itself.       *)
(***************************************************************************)
NoSelfReplay ==
    \A w \in Worker, o \in Order :
        (AtGate(w, o) /\ Enabled(w) /\ TokenFor(call[w], o) # NoToken) =>
            LET p == Snapshot(w)
                t == TokenFor(call[w], o)
            IN  <<KeyOf(t), o>> \in call[w].own =>
                    ~Live(nonces[ProcessOf[w]], KeyOf(t), clock)

\* "REPLAY: nonce already seen - caller must reject token", in every mode.
ReplayRejected == \A w \in Worker : Cleared(w) => ~call[w].replayed

(***************************************************************************)
(* "If the snapshot is unavailable ... the configured fallback mode        *)
(* decides: strict blocks": a company configured strict confirms nothing   *)
(* without a snapshot.                                                     *)
(***************************************************************************)
StrictCompanyFailsClosed ==
    \A w \in Worker :
        (Cleared(w) /\ call[w].blind) => Configured[call[w].company] # "strict"
=============================================================================
