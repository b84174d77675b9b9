------------------------- MODULE EnforcementProofs -------------------------
(***************************************************************************)
(* Safety of checkout enforcement, proved for every set of orders, tokens, *)
(* workers and policies: the types, the single redemption of a token that  *)
(* the backend has accepted, the kill-switch, the universal rules, and the *)
(* agents' DIDs; and that all of it implements Redemption.                 *)
(***************************************************************************)
EXTENDS Enforcement, TLAPS

\* The digest of a token is a digest.
LEMMA KeyOfType == ASSUME NEW t \in Token PROVE KeyOf(t) \in Key
  <1>1. t.did \in Did /\ t.nonce \in Nonce
    BY TokenAssumption DEF TokenRecord
  <1>2. QED
    BY <1>1, TokenAssumption DEF KeyOf

\* A call keeps the cache a function from digests to expiry times.
LEMMA RememberType ==
    ASSUME NEW t \in Token, NEW i, NEW R, NEW now \in Nat,
           NEW c \in NonceCache
    PROVE  Remember(t, i, R, now, c) \in NonceCache
  <1>1. now + NonceTTL \in Nat
    BY TimeAssumption
  <1>2. Evict(c, now) \in NonceCache
    BY DEF Evict, NonceCache
  <1>3. QED
    BY <1>1, <1>2 DEF Remember, NonceCache

(***************************************************************************)
(* What holds of a call in progress.  A gate past its first stage knows    *)
(* its order and its snapshot; a call under a kill-switch that has been on *)
(* all the time has not got through a single gate.                         *)
(***************************************************************************)
GateOK(c) ==
    /\ c.batch # {}
    /\ c.stage \in {"consume", "layer2"} => c.order \in Order /\ c.snap \in Policy
    /\ c.stage = "consume" =>
          TokenFor(c, c.order) # NoToken /\ TokenFor(c, c.order).jti # NoJti
    /\ c.killed =>
          /\ policy[c.company] # NoSnapshot /\ policy[c.company].kill
          /\ c.stage = "gate" /\ c.todo = c.batch

(***************************************************************************)
(* A jti accepted under strict belongs to one call: the backend has        *)
(* recorded it, no other call holds it, and once the call has committed    *)
(* nobody does.                                                            *)
(***************************************************************************)
CallsOK ==
    /\ call \in [Worker -> Call \cup {Idle}]
    /\ \A w \in Worker : Busy(w) =>
          GateOK(call[w]) /\ call[w].redeem \subseteq consumed
    /\ \A v, w \in Worker : (v # w /\ Busy(v) /\ Busy(w)) =>
          call[v].redeem \cap call[w].redeem = {}
    /\ redeemed \in [Jti -> Nat]
    /\ \A j \in Jti :
          /\ redeemed[j] <= 1
          /\ redeemed[j] # 0 =>
                /\ j \in consumed
                /\ \A w \in Worker : Busy(w) => j \notin call[w].redeem

IInv == TypeOK /\ CallsOK

-----------------------------------------------------------------------------
(* Types of what the actions build. *)

LEMMA BusyIsCall ==
    ASSUME CallsOK, NEW w \in Worker, Busy(w)
    PROVE  call[w] \in Call
  BY DEF CallsOK, Busy, Idle

LEMMA TokenForType ==
    ASSUME NEW c \in Call, NEW o \in Order
    PROVE  TokenFor(c, o) \in Token \cup {NoToken}
  BY EnforcementAssumption DEF TokenFor, Call

LEMMA PassedType ==
    ASSUME NEW c \in Call, NEW o
    PROVE  /\ Passed(c, o) \in Call
           /\ Passed(c, o).stage = "gate"
           /\ Passed(c, o).batch = c.batch /\ Passed(c, o).redeem = c.redeem
           /\ Passed(c, o).killed = c.killed
  BY DEF Passed, Call, Stage

LEMMA SnapshotType ==
    ASSUME TypeOK, CallsOK, NEW w \in Worker, Busy(w)
    PROVE  Snapshot(w) \in Policy \cup {NoSnapshot}
  <1>1. call[w].company \in Company
    BY BusyIsCall DEF Call
  <1>2. QED
    BY <1>1 DEF Snapshot, TypeOK

LEMMA OpenedType ==
    ASSUME TypeOK, NEW op \in Op, NEW co \in Company,
           NEW x \in Token \cup {NoToken}, NEW b \in Batch \ {{}},
           NEW n \in 1..MaxTries
    PROVE  LET c == Opened(op, co, x, b, n) IN
           /\ c \in Call /\ GateOK(c) /\ c.redeem = {} /\ c.stage = "gate"
  <1> DEFINE c == Opened(op, co, x, b, n)
  <1>1. b \subseteq Order
    BY EnforcementAssumption
  <1>2. policy[co] \in Policy \cup {NoSnapshot}
    BY DEF TypeOK
  <1>3. (policy[co] # NoSnapshot /\ policy[co].kill) \in BOOLEAN
    OBVIOUS
  <1>4. c.blocked \subseteq Order /\ c.limited \subseteq Order /\ c.offline = {}
    BY <1>1 DEF Opened
  <1>5. (policy[co] # NoSnapshot /\ policy[co].mode = "strict") \in BOOLEAN
    OBVIOUS
  <1>6. c \in Call
    BY <1>1, <1>3, <1>4, <1>5 DEF Opened, Call, Stage, Strict
  <1>7. /\ c.stage = "gate" /\ c.todo = b /\ c.batch = b /\ c.redeem = {}
        /\ c.company = co
        /\ c.killed = (policy[co] # NoSnapshot /\ policy[co].kill)
    BY DEF Opened
  <1>8. GateOK(c)
    BY <1>7 DEF GateOK
  <1>9. QED
    BY <1>6, <1>7, <1>8

-----------------------------------------------------------------------------
(* Three kinds of step: a worker goes on, gives up, or opens a call. *)

(***************************************************************************)
(* A worker goes on with call c.  It may have gained a jti that nobody had *)
(* consumed before.                                                        *)
(***************************************************************************)
LEMMA BecomeCalls ==
    ASSUME CallsOK, NEW w \in Worker, NEW c \in Call, Become(w, c), GateOK(c),
           UNCHANGED <<policy, redeemed>>,
           consumed \subseteq consumed', c.redeem \subseteq consumed',
           c.redeem \subseteq
              (consumed' \ consumed) \cup (IF Busy(w) THEN call[w].redeem ELSE {})
    PROVE  CallsOK'
  <1>1. /\ call' \in [Worker -> Call \cup {Idle}] /\ call'[w] = c
        /\ \A v \in Worker : v # w => call'[v] = call[v]
    BY DEF CallsOK, Become
  <1>2. ASSUME NEW v \in Worker, Busy(v)'
        PROVE  GateOK(call[v])' /\ call'[v].redeem \subseteq consumed'
    <2>1. CASE v = w
      BY <1>1, <2>1 DEF GateOK, TokenFor
    <2>2. CASE v # w
      BY <1>1, <1>2, <2>2 DEF CallsOK, Busy, GateOK, TokenFor
    <2>3. QED
      BY <2>1, <2>2
  <1>3. ASSUME NEW v \in Worker, v # w, Busy(v)
        PROVE  call[v].redeem \cap c.redeem = {}
    BY <1>3 DEF CallsOK
  <1>4. ASSUME NEW u \in Worker, NEW v \in Worker, u # v, Busy(u)', Busy(v)'
        PROVE  call'[u].redeem \cap call'[v].redeem = {}
    BY <1>1, <1>3, <1>4 DEF CallsOK, Busy
  <1>5. ASSUME NEW j \in Jti, redeemed'[j] # 0
        PROVE  /\ j \in consumed'
               /\ \A v \in Worker : Busy(v)' => j \notin call'[v].redeem
    <2>1. /\ j \in consumed
          /\ \A v \in Worker : Busy(v) => j \notin call[v].redeem
      BY <1>5 DEF CallsOK
    <2>2. j \notin c.redeem
      BY <2>1
    <2>3. QED
      BY <1>1, <2>1, <2>2 DEF Busy
  <1>6. redeemed' \in [Jti -> Nat] /\ \A j \in Jti : redeemed'[j] <= 1
    BY DEF CallsOK
  <1>7. QED
    BY <1>1, <1>2, <1>4, <1>5, <1>6 DEF CallsOK

\* Some calls end and their transactions are rolled back.
LEMMA DropCalls ==
    ASSUME CallsOK, UNCHANGED <<policy, redeemed>>, consumed \subseteq consumed',
           call' \in [Worker -> Call \cup {Idle}],
           \A v \in Worker : call'[v] \in {call[v], Idle}
    PROVE  CallsOK'
  <1>1. ASSUME NEW v \in Worker, Busy(v)' PROVE Busy(v) /\ call'[v] = call[v]
    BY <1>1 DEF Busy, Idle
  <1>2. ASSUME NEW v \in Worker, Busy(v)'
        PROVE  GateOK(call[v])' /\ call'[v].redeem \subseteq consumed'
    BY <1>1, <1>2 DEF CallsOK, GateOK, TokenFor
  <1>3. ASSUME NEW u \in Worker, NEW v \in Worker, u # v, Busy(u)', Busy(v)'
        PROVE  call'[u].redeem \cap call'[v].redeem = {}
    BY <1>1, <1>3 DEF CallsOK
  <1>4. ASSUME NEW j \in Jti, redeemed'[j] # 0
        PROVE  /\ j \in consumed'
               /\ \A v \in Worker : Busy(v)' => j \notin call'[v].redeem
    BY <1>1, <1>4 DEF CallsOK
  <1>5. redeemed' \in [Jti -> Nat] /\ \A j \in Jti : redeemed'[j] <= 1
    BY DEF CallsOK
  <1>6. QED
    BY <1>2, <1>3, <1>4, <1>5 DEF CallsOK

LEMMA RefuseCalls ==
    ASSUME CallsOK, NEW w \in Worker, Refuse(w), UNCHANGED <<policy, redeemed>>,
           consumed \subseteq consumed'
    PROVE  CallsOK'
  <1>1. call' \in [Worker -> Call \cup {Idle}]
    BY DEF CallsOK, Refuse
  <1>2. \A v \in Worker : call'[v] \in {call[v], Idle}
    BY DEF CallsOK, Refuse
  <1>3. QED
    BY <1>1, <1>2, DropCalls

-----------------------------------------------------------------------------
(* One lemma per action of a worker. *)

LEMMA StartCalls ==
    ASSUME IInv, NEW w \in Worker, Start(w)
    PROVE  CallsOK'
  <1>1. PICK op \in Op, co \in Company, x \in CtxToken, b \in Batch \ {{}} :
          Become(w, Opened(op, co, x, b, 1))
    BY DEF Start
  <1>2. x \in Token \cup {NoToken} /\ 1 \in 1..MaxTries
    BY EnforcementAssumption
  <1>3. LET c == Opened(op, co, x, b, 1) IN
        c \in Call /\ GateOK(c) /\ c.redeem = {}
    BY <1>2, OpenedType DEF IInv
  <1>4. UNCHANGED <<policy, redeemed, consumed>>
    BY DEF Start, hist
  <1>5. QED
    BY <1>1, <1>3, <1>4, BecomeCalls DEF IInv

\* An order gets through its gate without the kill-switch in the way.
LEMMA PassedCalls ==
    ASSUME CallsOK, NEW w \in Worker, Busy(w), NEW o, NEW c \in Call,
           Become(w, c), ~call[w].killed,
           c.stage = "gate", c.batch = call[w].batch,
           c.redeem = call[w].redeem, c.killed = call[w].killed,
           UNCHANGED <<policy, redeemed, consumed>>
    PROVE  CallsOK'
  <1>1. GateOK(call[w]) /\ call[w].redeem \subseteq consumed
    BY DEF CallsOK
  <1>2. GateOK(c)
    BY <1>1 DEF GateOK
  <1>3. QED
    BY <1>1, <1>2, BecomeCalls

\* A call that has not been killed all along: the snapshot is live.
LEMMA EnabledNotKilled ==
    ASSUME CallsOK, NEW w \in Worker, Busy(w),
           Enabled(w) \/ Snapshot(w) = NoSnapshot \/ call[w].stage # "gate"
              \/ call[w].todo = {}
    PROVE  ~call[w].killed
  <1>1. GateOK(call[w])
    BY DEF CallsOK
  <1> SUFFICES ASSUME call[w].killed PROVE FALSE
    OBVIOUS
  <1>2. /\ call[w].batch # {} /\ call[w].stage = "gate"
        /\ call[w].todo = call[w].batch
        /\ Snapshot(w) # NoSnapshot /\ Snapshot(w).kill
    BY <1>1 DEF GateOK, Snapshot
  <1>3. QED
    BY <1>2 DEF Enabled

LEMMA GateBlindCalls ==
    ASSUME IInv, NEW w \in Worker, NEW o \in Order, GateBlind(w, o)
    PROVE  CallsOK'
  <1>1. CallsOK /\ Busy(w) /\ UNCHANGED <<policy, redeemed, consumed>>
    BY DEF IInv, GateBlind, AtGate, Busy, env, hist
  <1>2. call[w] \in Call /\ ~call[w].killed
    BY <1>1, BusyIsCall, EnabledNotKilled DEF GateBlind
  <1> DEFINE c == [Passed(call[w], o) EXCEPT !.blind = TRUE]
  <1>3. /\ c \in Call /\ c.stage = "gate" /\ c.batch = call[w].batch
        /\ c.redeem = call[w].redeem /\ c.killed = call[w].killed
    BY <1>2 DEF Passed, Call, Stage
  <1>4. CASE Become(w, c)
    BY <1>1, <1>2, <1>3, <1>4, PassedCalls
  <1>5. CASE Refuse(w)
    BY <1>1, <1>5, RefuseCalls
  <1>6. QED
    BY <1>4, <1>5 DEF GateBlind

LEMMA GateKilledCalls ==
    ASSUME IInv, NEW w \in Worker, NEW o \in Order, GateKilled(w, o)
    PROVE  CallsOK'
  BY RefuseCalls DEF IInv, GateKilled, env, hist

LEMMA GateOrganicCalls ==
    ASSUME IInv, NEW w \in Worker, NEW o \in Order, GateOrganic(w, o)
    PROVE  CallsOK'
  <1>1. CallsOK /\ Busy(w) /\ UNCHANGED <<policy, redeemed, consumed>>
    BY DEF IInv, GateOrganic, AtGate, Busy, env, hist
  <1>2. call[w] \in Call /\ ~call[w].killed
    BY <1>1, BusyIsCall, EnabledNotKilled DEF GateOrganic
  <1>3. Snapshot(w) \in Policy
    BY <1>1, SnapshotType DEF IInv, GateOrganic, Enabled
  <1> DEFINE c == [call[w] EXCEPT !.stage = "layer2", !.order = o,
                                  !.snap = Snapshot(w)]
  <1>4. CASE Become(w, c)
    <2>1. /\ c \in Call /\ c.stage = "layer2" /\ c.order = o
          /\ c.snap \in Policy /\ c.batch = call[w].batch
          /\ c.redeem = call[w].redeem /\ c.killed = call[w].killed
      BY <1>2, <1>3 DEF Call, Stage
    <2>2. GateOK(call[w]) /\ call[w].redeem \subseteq consumed
      BY <1>1 DEF CallsOK
    <2> HIDE DEF c
    <2>3. GateOK(c)
      BY <1>2, <2>1, <2>2 DEF GateOK
    <2>4. QED
      BY <1>1, <1>4, <2>1, <2>2, <2>3, BecomeCalls
  <1>5. CASE Become(w, Passed(call[w], o))
    BY <1>1, <1>2, <1>5, PassedType, PassedCalls
  <1>6. CASE Refuse(w)
    BY <1>1, <1>6, RefuseCalls
  <1>7. QED
    BY <1>4, <1>5, <1>6 DEF GateOrganic

LEMMA GateTokenCalls ==
    ASSUME IInv, NEW w \in Worker, NEW o \in Order, GateToken(w, o)
    PROVE  CallsOK' /\ nonces' \in [Process -> NonceCache]
                    /\ verified' \subseteq Token \X Order
  <1> DEFINE t == TokenFor(call[w], o)
             p == Snapshot(w)
             i == IntentFor(call[w], o, p)
             pr == ProcessOf[w]
             v == Verdict(t, i, p.resolver, clock, nonces[pr])
             own == IF v = "accept" THEN call[w].own \cup {<<KeyOf(t), o>>}
                    ELSE call[w].own
             c1 == [Passed(call[w], o) EXCEPT !.own = own]
             c2 == [call[w] EXCEPT !.stage = "consume", !.order = o,
                                   !.snap = p, !.own = own]
  <1>1. /\ AtGate(w, o) /\ Enabled(w) /\ t # NoToken
        /\ UNCHANGED <<env, consumed, db, redeemed>>
    BY Zenon DEF GateToken
  <1>2. nonces' = [nonces EXCEPT
                     ![pr] = Remember(t, i, p.resolver, clock, nonces[pr])]
    BY Zenon DEF GateToken
  <1>3. verified' = IF v = "accept" THEN verified \cup {<<t, o>>} ELSE verified
    BY Zenon DEF GateToken
  <1>4. \/ Refuse(w) \/ Become(w, Passed(call[w], o))
        \/ Become(w, c1) \/ (v = "accept" /\ Become(w, c2))
    BY Zenon DEF GateToken
  <1>5. CallsOK /\ Busy(w) /\ UNCHANGED <<policy, redeemed, consumed>>
    BY <1>1 DEF IInv, AtGate, Busy, env
  <1>6. call[w] \in Call /\ ~call[w].killed
    BY <1>1, <1>5, BusyIsCall, EnabledNotKilled
  <1>7. p \in Policy
    BY <1>1, <1>5, SnapshotType DEF IInv, Enabled
  <1>8. t \in Token
    BY <1>1, <1>6, TokenForType
  <1>9. own \subseteq Key \X Order
    <2>1. KeyOf(t) \in Key
      BY <1>8, KeyOfType
    <2>2. QED
      BY <1>6, <2>1 DEF Call
  <1>a. v = "accept" => t.jti # NoJti
    BY DEF Verdict, Identified
  <1> HIDE DEF t, p, i, v, own
  <1>10. nonces' \in [Process -> NonceCache]
    <2>1. /\ pr \in Process /\ nonces \in [Process -> NonceCache]
          /\ clock \in Nat
      BY EnforcementAssumption DEF IInv, TypeOK
    <2>2. Remember(t, i, p.resolver, clock, nonces[pr]) \in NonceCache
      BY <1>8, <2>1, RememberType
    <2>3. QED
      BY <1>2, <2>1, <2>2
  <1>11. verified' \subseteq Token \X Order
    BY <1>3, <1>8 DEF IInv, TypeOK
  <1>12. CASE Refuse(w)
    BY <1>5, <1>10, <1>11, <1>12, RefuseCalls
  <1>13. CASE Become(w, Passed(call[w], o))
    BY <1>5, <1>6, <1>10, <1>11, <1>13, PassedType, PassedCalls
  <1>14. CASE Become(w, c1)
    <2>1. /\ c1 \in Call /\ c1.stage = "gate" /\ c1.batch = call[w].batch
          /\ c1.redeem = call[w].redeem /\ c1.killed = call[w].killed
      BY <1>6, <1>9 DEF Passed, Call, Stage
    <2> HIDE DEF c1
    <2>2. QED
      BY <1>5, <1>6, <1>10, <1>11, <1>14, <2>1, PassedCalls
  <1>15. CASE v = "accept" /\ Become(w, c2)
    <2>1. /\ c2 \in Call /\ c2.stage = "consume" /\ c2.order = o
          /\ c2.snap \in Policy /\ c2.batch = call[w].batch
          /\ c2.redeem = call[w].redeem /\ c2.killed = call[w].killed
          /\ c2.ctx = call[w].ctx
      BY <1>6, <1>7, <1>9 DEF Call, Stage
    <2>2. GateOK(call[w]) /\ call[w].redeem \subseteq consumed
      BY <1>5 DEF CallsOK
    <2> HIDE DEF c2
    <2>3. TokenFor(c2, o) # NoToken /\ TokenFor(c2, o).jti # NoJti
      BY <1>1, <1>a, <1>15, <2>1 DEF TokenFor, t
    <2>4. GateOK(c2)
      BY <1>6, <2>1, <2>2, <2>3 DEF GateOK
    <2>5. QED
      BY <1>5, <1>10, <1>11, <1>15, <2>1, <2>2, <2>4, BecomeCalls
  <1>16. QED
    BY <1>4, <1>10, <1>11, <1>12, <1>13, <1>14, <1>15

LEMMA ConsumeNonceCalls ==
    ASSUME IInv, NEW w \in Worker, ConsumeNonce(w)
    PROVE  CallsOK' /\ consumed' \subseteq Jti
  <1> DEFINE c == call[w]
             t == TokenFor(c, c.order)
             next == [c EXCEPT !.stage = "layer2"]
             n1 == [next EXCEPT !.redeem = @ \cup {t.jti}]
             n2 == [next EXCEPT !.replayed = TRUE]
  <1>1. c.stage = "consume" /\ UNCHANGED <<env, nonces, db, hist>>
    BY Zenon DEF ConsumeNonce
  <1>2. \/ /\ t.jti \notin consumed /\ consumed' = consumed \cup {t.jti}
           /\ Become(w, n1) \/ Become(w, next)
        \/ /\ consumed' = consumed \/ consumed' = consumed \cup {t.jti}
           /\ Refuse(w) \/ Become(w, next) \/ Become(w, n2)
    BY Zenon DEF ConsumeNonce, Consumes
  <1>3. CallsOK /\ Busy(w) /\ UNCHANGED <<policy, redeemed>>
    BY <1>1 DEF IInv, Busy, env, hist
  <1>4. c \in Call /\ GateOK(c) /\ c.redeem \subseteq consumed
    BY <1>3, BusyIsCall DEF CallsOK
  <1>5. ~c.killed
    BY <1>1, <1>3, EnabledNotKilled
  <1>6. c.order \in Order /\ c.snap \in Policy /\ t \in Token /\ t.jti \in Jti
    <2>1. c.order \in Order /\ c.snap \in Policy /\ t # NoToken /\ t.jti # NoJti
      BY <1>1, <1>4 DEF GateOK
    <2>2. t \in Token
      BY <1>4, <2>1, TokenForType
    <2>3. QED
      BY <2>1, <2>2, TokenAssumption DEF TokenRecord
  <1> HIDE DEF t
  <1>7. consumed' \subseteq Jti /\ consumed \subseteq consumed'
    BY <1>2, <1>6 DEF IInv, TypeOK
  <1>8. /\ next \in Call /\ next.stage = "layer2" /\ next.batch = c.batch
        /\ next.order = c.order /\ next.snap = c.snap
        /\ next.killed = c.killed /\ next.redeem = c.redeem
    BY <1>4 DEF Call, Stage
  <1> HIDE DEF next
  <1>9. /\ n1 \in Call /\ n1.stage = "layer2" /\ n1.batch = c.batch
        /\ n1.order = c.order /\ n1.snap = c.snap
        /\ n1.killed = c.killed /\ n1.redeem = c.redeem \cup {t.jti}
    BY <1>6, <1>8 DEF Call
  <1>10. /\ n2 \in Call /\ n2.stage = "layer2" /\ n2.batch = c.batch
         /\ n2.order = c.order /\ n2.snap = c.snap
         /\ n2.killed = c.killed /\ n2.redeem = c.redeem
    BY <1>8 DEF Call
  <1> HIDE DEF n1, n2
  <1>11. GateOK(next) /\ GateOK(n1) /\ GateOK(n2)
    BY <1>4, <1>5, <1>6, <1>8, <1>9, <1>10 DEF GateOK
  <1>12. CASE /\ t.jti \notin consumed /\ consumed' = consumed \cup {t.jti}
              /\ Become(w, n1)
    BY <1>3, <1>4, <1>7, <1>9, <1>11, <1>12, BecomeCalls
  <1>13. CASE Become(w, next)
    BY <1>3, <1>4, <1>7, <1>8, <1>11, <1>13, BecomeCalls
  <1>14. CASE Become(w, n2)
    BY <1>3, <1>4, <1>7, <1>10, <1>11, <1>14, BecomeCalls
  <1>15. CASE Refuse(w)
    BY <1>3, <1>7, <1>15, RefuseCalls
  <1>16. QED
    BY <1>2, <1>7, <1>12, <1>13, <1>14, <1>15

LEMMA AllowedType ==
    ASSUME NEW c \in Call, c.order \in Order, NEW t \in Token \cup {NoToken},
           NEW d \in {Allowed(c, t), AllowedOffline(c, t)}
    PROVE  /\ d \in Call /\ d.stage = "gate"
           /\ d.batch = c.batch /\ d.redeem = c.redeem /\ d.killed = c.killed
           /\ d.op = c.op /\ d.company = c.company /\ d.ctx = c.ctx
           /\ d.blocked = c.blocked /\ d.limited = c.limited
           /\ d.strict = c.strict /\ c.offline \subseteq d.offline
           /\ d = AllowedOffline(c, t) => c.order \in d.offline
           /\ d.todo = c.todo \ {c.order}
           /\ \A u \in Order : d.did[u] =
                 IF u = c.order /\ t # NoToken THEN t.did ELSE c.did[u]
  <1> DEFINE o == c.order
             x == IF t = NoToken THEN c.did[o] ELSE t.did
             q == Passed(c, o)
             a == Allowed(c, t)
             s == q.offline \cup {o}
  <1>1. t \in Token => t.did \in Did
    BY TokenAssumption DEF TokenRecord
  <1>2. x \in Did \cup {NoDid}
    BY <1>1 DEF Call
  <1>3. a = [q EXCEPT !.did[o] = x]
    BY DEF Allowed
  <1>4. /\ q \in Call /\ q.stage = "gate" /\ q.batch = c.batch
        /\ q.redeem = c.redeem /\ q.killed = c.killed
    BY PassedType
  <1>5. /\ q.op = c.op /\ q.company = c.company /\ q.ctx = c.ctx
        /\ q.blocked = c.blocked /\ q.limited = c.limited
        /\ q.offline = c.offline /\ q.strict = c.strict
        /\ q.todo = c.todo \ {o} /\ q.did = c.did
    BY DEF Passed, Call
  <1>6. AllowedOffline(c, t) = [a EXCEPT !.offline = a.offline \cup {o}]
    BY DEF AllowedOffline
  <1> HIDE DEF x, q, a
  <1>7. /\ a \in Call /\ a.stage = q.stage /\ a.batch = q.batch
        /\ a.redeem = q.redeem /\ a.killed = q.killed
        /\ a.op = q.op /\ a.company = q.company /\ a.ctx = q.ctx
        /\ a.blocked = q.blocked /\ a.limited = q.limited
        /\ a.offline = q.offline /\ a.strict = q.strict
        /\ a.todo = q.todo /\ a.did = [q.did EXCEPT ![o] = x]
    BY <1>2, <1>3, <1>4 DEF Call
  <1> DEFINE b == [a EXCEPT !.offline = a.offline \cup {o}]
  <1>8. a.offline \subseteq Order /\ (a.offline \cup {o}) \subseteq Order
    BY <1>7 DEF Call
  <1>9. /\ b \in Call /\ b.stage = a.stage /\ b.batch = a.batch
        /\ b.redeem = a.redeem /\ b.killed = a.killed
        /\ b.op = a.op /\ b.company = a.company /\ b.ctx = a.ctx
        /\ b.blocked = a.blocked /\ b.limited = a.limited
        /\ b.offline = a.offline \cup {o} /\ b.strict = a.strict
        /\ b.todo = a.todo /\ b.did = a.did
    BY <1>7, <1>8 DEF Call
  <1> HIDE DEF b
  <1>10. ASSUME NEW u \in Order
         PROVE  a.did[u] = IF u = o /\ t # NoToken THEN t.did ELSE c.did[u]
    BY <1>5, <1>7 DEF x, Call
  <1>11. CASE d = AllowedOffline(c, t)
    <2>1. d = b
      BY <1>6, <1>11 DEF b
    <2>2. o \in d.offline /\ c.offline \subseteq d.offline
      BY <1>5, <1>7, <1>9, <2>1
    <2>3. QED
      BY <1>4, <1>5, <1>7, <1>9, <1>10, <2>1, <2>2
  <1>12. CASE d = Allowed(c, t) /\ d # AllowedOffline(c, t)
    BY <1>4, <1>5, <1>7, <1>10, <1>12 DEF a
  <1>13. QED
    BY <1>11, <1>12

\* Layer 2 refuses, or lets the order through, offline if it has no answer.
LEMMA AskLayer2Cases ==
    ASSUME NEW w \in Worker, AskLayer2(w)
    PROVE  LET c == call[w]
               t == TokenFor(c, c.order)
           IN
           /\ c.stage = "layer2" /\ UNCHANGED <<env, nonces, consumed, db, hist>>
           /\ \/ Refuse(w)
              \/ /\ ~c.snap.tier2 \/ c.order \notin c.snap.blocks
                 /\ Become(w, Allowed(c, t))
              \/ /\ c.snap.tier2 /\ c.order \notin c.snap.limits
                 /\ Become(w, AllowedOffline(c, t))
  BY DEF AskLayer2, Layer2Answers, ValveVerdicts

LEMMA AskLayer2Calls ==
    ASSUME IInv, NEW w \in Worker, AskLayer2(w)
    PROVE  CallsOK'
  <1> DEFINE c == call[w]
             t == TokenFor(c, c.order)
  <1>1. /\ c.stage = "layer2" /\ UNCHANGED <<env, nonces, consumed, db, hist>>
        /\ \/ Refuse(w)
           \/ \E d \in {Allowed(c, t), AllowedOffline(c, t)} : Become(w, d)
    BY AskLayer2Cases
  <1>2. CallsOK /\ Busy(w) /\ UNCHANGED <<policy, redeemed, consumed>>
    BY <1>1 DEF IInv, Busy, env, hist
  <1>3. c \in Call /\ GateOK(c) /\ ~c.killed
    BY <1>1, <1>2, BusyIsCall, EnabledNotKilled DEF CallsOK
  <1>4. c.order \in Order
    BY <1>1, <1>3 DEF GateOK
  <1>5. t \in Token \cup {NoToken}
    BY <1>3, <1>4, TokenForType
  <1> HIDE DEF t
  <1>6. CASE Refuse(w)
    BY <1>2, <1>6, RefuseCalls
  <1>7. ASSUME NEW d \in {Allowed(c, t), AllowedOffline(c, t)}, Become(w, d)
        PROVE  CallsOK'
    <2>1. /\ d \in Call /\ d.stage = "gate" /\ d.batch = c.batch
          /\ d.redeem = c.redeem /\ d.killed = c.killed
      BY <1>3, <1>4, <1>5, AllowedType
    <2>2. QED
      BY <1>2, <1>3, <1>7, <2>1, PassedCalls
  <1>8. QED
    BY <1>1, <1>6, <1>7

LEMMA SuperConfirmCalls ==
    ASSUME IInv, NEW w \in Worker, SuperConfirm(w)
    PROVE  CallsOK'
  <1> DEFINE c == call[w]
             c2 == [c EXCEPT !.round = 2, !.todo = c.batch]
  <1>1. /\ c.stage = "gate" /\ c.todo = {}
        /\ UNCHANGED <<env, nonces, consumed, db, hist>>
        /\ Refuse(w) \/ Become(w, c2)
    BY Zenon DEF SuperConfirm
  <1>2. CallsOK /\ Busy(w) /\ UNCHANGED <<policy, redeemed, consumed>>
    BY <1>1 DEF IInv, Busy, env, hist
  <1>3. c \in Call /\ ~c.killed
    BY <1>1, <1>2, BusyIsCall, EnabledNotKilled
  <1>4. CASE Refuse(w)
    BY <1>2, <1>4, RefuseCalls
  <1>5. CASE Become(w, c2)
    <2>1. c.batch \subseteq Order /\ c.stage = "gate"
      BY <1>1, <1>3, EnforcementAssumption DEF Call
    <2> DEFINE c1 == [c EXCEPT !.round = 2]
    <2>2. /\ c1 \in Call /\ c1.stage = "gate" /\ c1.batch = c.batch
          /\ c1.redeem = c.redeem /\ c1.killed = c.killed
      BY <1>3, <2>1 DEF Call
    <2> HIDE DEF c1
    <2>3. /\ c2 \in Call /\ c2.stage = "gate" /\ c2.batch = c.batch
          /\ c2.redeem = c.redeem /\ c2.killed = c.killed
      <3>1. c2 = [c1 EXCEPT !.todo = c.batch]
        BY DEF c1
      <3>2. QED
        BY <2>1, <2>2, <3>1 DEF Call
    <2> HIDE DEF c2
    <2>4. QED
      BY <1>2, <1>3, <1>5, <2>3, PassedCalls
  <1>6. QED
    BY <1>1, <1>4, <1>5

LEMMA RetryCalls ==
    ASSUME IInv, NEW w \in Worker, Retry(w)
    PROVE  CallsOK'
  <1> DEFINE c == call[w]
             n == Opened(c.op, c.company, c.ctx, c.batch, c.tries + 1)
             c2 == [n EXCEPT !.own = c.own]
  <1>1. /\ Cleared(w) /\ UNCHANGED <<env, nonces, consumed, db, hist>>
        /\ Refuse(w) \/ (c.tries < MaxTries /\ Become(w, c2))
    BY Zenon DEF Retry
  <1>2. CallsOK /\ Busy(w) /\ UNCHANGED <<policy, redeemed, consumed>>
    BY <1>1 DEF IInv, Cleared, Busy, env, hist
  <1>3. c \in Call /\ c.batch # {}
    BY <1>2, BusyIsCall DEF CallsOK, GateOK
  <1>4. CASE Refuse(w)
    BY <1>2, <1>4, RefuseCalls
  <1>5. CASE c.tries < MaxTries /\ Become(w, c2)
    <2>1. c.tries + 1 \in 1..MaxTries
      <3>1. c.tries \in 1..MaxTries /\ MaxTries \in Nat
        BY <1>3, EnforcementAssumption DEF Call
      <3>2. QED
        BY <1>5, <3>1
    <2>2. /\ c.op \in Op /\ c.company \in Company /\ c.ctx \in Token \cup {NoToken}
          /\ c.batch \in Batch \ {{}} /\ c.own \subseteq Key \X Order
      BY <1>3 DEF Call
    <2>3. n \in Call /\ GateOK(n) /\ n.redeem = {} /\ n.stage = "gate"
      BY <2>1, <2>2, OpenedType DEF IInv
    <2> HIDE DEF n
    <2>4. /\ c2 \in Call /\ c2.redeem = {} /\ c2.stage = "gate"
          /\ c2.batch = n.batch /\ c2.todo = n.todo
          /\ c2.killed = n.killed /\ c2.company = n.company
      BY <2>2, <2>3 DEF Call
    <2> HIDE DEF c2
    <2>5. GateOK(c2)
      BY <2>3, <2>4 DEF GateOK
    <2>6. QED
      BY <1>2, <1>5, <2>4, <2>5, BecomeCalls
  <1>6. QED
    BY <1>1, <1>4, <1>5

-----------------------------------------------------------------------------
(* The transaction commits: its jtis are redeemed, once and for all. *)

LEMMA CommitCalls ==
    ASSUME IInv, NEW w \in Worker, Commit(w)
    PROVE  CallsOK'
  <1> DEFINE c == call[w]
  <1>1. Cleared(w) /\ UNCHANGED <<env, nonces, consumed, verified>>
    BY DEF Commit
  <1>2. CallsOK /\ Busy(w) /\ UNCHANGED <<policy, consumed>>
    BY <1>1 DEF IInv, Cleared, Busy, env
  <1>3. c \in Call /\ c.redeem \subseteq consumed
    BY <1>2, BusyIsCall DEF CallsOK
  <1>4. ASSUME NEW v \in Worker
        PROVE  /\ call'[v] \in Call \cup {Idle}
               /\ Busy(v)' =>
                     /\ Busy(v) /\ v # w
                     /\ call'[v] \in {call[v], [call[v] EXCEPT !.stale = TRUE]}
    <2>1. call'[v] = IF v = w THEN Idle
                     ELSE IF Busy(v) /\ Conflicts(c, call[v])
                          THEN [call[v] EXCEPT !.stale = TRUE] ELSE call[v]
      BY DEF Commit
    <2>2. CASE v = w
      BY <2>1, <2>2 DEF Busy, Idle
    <2>3. CASE v # w /\ call'[v] = call[v]
      BY <1>2, <2>3 DEF CallsOK, Busy
    <2>4. CASE v # w /\ Busy(v) /\ call'[v] = [call[v] EXCEPT !.stale = TRUE]
      <3>1. call[v] \in Call
        BY <1>2, <2>4, BusyIsCall
      <3> DEFINE d == [call[v] EXCEPT !.stale = TRUE]
      <3>2. d \in Call /\ d.stage = call[v].stage
        BY <3>1 DEF Call
      <3> HIDE DEF d
      <3>3. call'[v] = d
        BY <2>4 DEF d
      <3>4. QED
        BY <2>4, <3>2, <3>3 DEF d
    <2>5. QED
      BY <2>1, <2>2, <2>3, <2>4
  <1>5. ASSUME NEW v \in Worker, Busy(v)'
        PROVE  /\ Busy(v) /\ v # w
               /\ call'[v].redeem = call[v].redeem
               /\ GateOK(call[v])'
    <2>1. /\ Busy(v) /\ v # w
          /\ call'[v] \in {call[v], [call[v] EXCEPT !.stale = TRUE]}
      BY <1>4, <1>5
    <2>2. call[v] \in Call /\ GateOK(call[v])
      BY <1>2, <2>1, BusyIsCall DEF CallsOK
    <2>3. CASE call'[v] = call[v]
      BY <1>2, <2>1, <2>2, <2>3 DEF GateOK, TokenFor
    <2>4. CASE call'[v] = [call[v] EXCEPT !.stale = TRUE]
      <3>1. /\ call'[v].stage = call[v].stage /\ call'[v].order = call[v].order
            /\ call'[v].snap = call[v].snap /\ call'[v].ctx = call[v].ctx
            /\ call'[v].killed = call[v].killed /\ call'[v].todo = call[v].todo
            /\ call'[v].batch = call[v].batch
            /\ call'[v].company = call[v].company
            /\ call'[v].redeem = call[v].redeem
        BY <2>2, <2>4 DEF Call
      <3>2. QED
        BY <1>2, <2>1, <2>2, <3>1 DEF GateOK, TokenFor
    <2>5. QED
      BY <2>1, <2>3, <2>4
  <1>6. call' \in [Worker -> Call \cup {Idle}]
    <2>1. call' = [v \in Worker |-> call'[v]]
      BY DEF Commit
    <2>2. QED
      BY <1>4, <2>1
  <1>7. /\ redeemed' \in [Jti -> Nat]
        /\ \A j \in Jti : redeemed'[j] = redeemed[j] + IF j \in c.redeem THEN 1 ELSE 0
    BY <1>2 DEF Commit, CallsOK
  <1>8. ASSUME NEW j \in Jti
        PROVE  /\ redeemed'[j] <= 1
               /\ redeemed'[j] # 0 =>
                     /\ j \in consumed'
                     /\ \A v \in Worker : Busy(v)' => j \notin call'[v].redeem
    <2>1. CASE j \in c.redeem
      <3>1. redeemed[j] = 0
        BY <1>2, <2>1 DEF CallsOK
      <3>2. \A v \in Worker : (Busy(v) /\ v # w) => j \notin call[v].redeem
        BY <1>2, <2>1 DEF CallsOK
      <3>3. QED
        BY <1>2, <1>3, <1>5, <1>7, <2>1, <3>1, <3>2
    <2>2. CASE j \notin c.redeem
      <3>1. redeemed'[j] = redeemed[j] /\ redeemed[j] \in Nat
        BY <1>2, <1>7, <2>2 DEF CallsOK
      <3>2. QED
        BY <1>2, <1>5, <3>1 DEF CallsOK
    <2>3. QED
      BY <2>1, <2>2
  <1>9. \A u, v \in Worker : (u # v /\ Busy(u)' /\ Busy(v)') =>
           call'[u].redeem \cap call'[v].redeem = {}
    BY <1>2, <1>5 DEF CallsOK
  <1>10. \A v \in Worker : Busy(v)' =>
           GateOK(call[v])' /\ call'[v].redeem \subseteq consumed'
    BY <1>2, <1>5 DEF CallsOK
  <1>11. QED
    BY <1>6, <1>7, <1>8, <1>9, <1>10 DEF CallsOK

LEMMA CrashCalls ==
    ASSUME IInv, NEW pr \in Process, Crash(pr)
    PROVE  CallsOK' /\ nonces' \in [Process -> NonceCache]
  <1>1. CallsOK /\ UNCHANGED <<policy, redeemed, consumed>>
    BY DEF IInv, Crash, hist
  <1>2. call' = [w \in Worker |-> IF ProcessOf[w] = pr THEN Idle ELSE call[w]]
    BY DEF Crash
  <1>3. call' \in [Worker -> Call \cup {Idle}]
    BY <1>1, <1>2 DEF CallsOK
  <1>4. \A v \in Worker : call'[v] \in {call[v], Idle}
    BY <1>2
  <1>5. EmptyCache \in NonceCache
    BY DEF EmptyCache, NonceCache
  <1>6. nonces' \in [Process -> NonceCache]
    BY <1>5 DEF Crash, IInv, TypeOK
  <1>7. QED
    BY <1>1, <1>3, <1>4, <1>6, DropCalls

LEMMA PolicyChangeCalls ==
    ASSUME IInv, NEW co \in Company, PolicyChange(co)
    PROVE  CallsOK' /\ policy' \in [Company -> Policy \cup {NoSnapshot}]
  <1>1. PICK p \in Policy \cup {NoSnapshot} :
          /\ policy' = [policy EXCEPT ![co] = p]
          /\ call' = [w \in Worker |->
                IF ~Busy(w) \/ call[w].company # co THEN call[w]
                ELSE [call[w] EXCEPT
                        !.killed = @ /\ p # NoSnapshot /\ p.kill,
                        !.strict = @ /\ Strict(p),
                        !.blocked = @ \cap Blocks(p),
                        !.limited = @ \cap Limits(p)]]
    BY Zenon DEF PolicyChange
  <1>2. CallsOK /\ UNCHANGED <<redeemed, consumed>>
    BY DEF IInv, PolicyChange, hist
  <1>3. policy \in [Company -> Policy \cup {NoSnapshot}]
    BY DEF IInv, TypeOK
  <1>4. policy' \in [Company -> Policy \cup {NoSnapshot}]
    BY <1>1, <1>3
  <1>5. ASSUME NEW v \in Worker
        PROVE  /\ call'[v] \in Call \cup {Idle}
               /\ Busy(v)' => Busy(v) /\ call'[v].redeem = call[v].redeem
                                       /\ GateOK(call[v])'
    <2>1. CASE ~Busy(v)
      BY <1>1, <1>2, <2>1 DEF CallsOK, Busy
    <2>2. CASE Busy(v) /\ call[v].company # co
      <3>1. call'[v] = call[v] /\ call[v] \in Call /\ GateOK(call[v])
        BY <1>1, <1>2, <2>2, BusyIsCall DEF CallsOK
      <3>2. policy'[call[v].company] = policy[call[v].company]
        BY <1>1, <1>3, <2>2, <3>1 DEF Call
      <3>3. GateOK(call[v])'
        BY <3>1, <3>2 DEF GateOK, TokenFor
      <3>4. QED
        BY <2>2, <3>1, <3>3 DEF Busy
    <2>3. CASE Busy(v) /\ call[v].company = co
      <3> DEFINE k == call[v].killed /\ p # NoSnapshot /\ p.kill
                 b == call[v].blocked \cap Blocks(p)
                 l == call[v].limited \cap Limits(p)
                 s == call[v].strict /\ Strict(p)
                 n == [call[v] EXCEPT !.killed = k, !.strict = s, !.blocked = b,
                                      !.limited = l]
      <3>1. call[v] \in Call /\ GateOK(call[v])
        BY <1>2, <2>3, BusyIsCall DEF CallsOK
      <3>2. call'[v] = n
        BY <1>1, <2>3, Zenon
      <3>3. /\ k \in BOOLEAN /\ s \in BOOLEAN
            /\ b \subseteq Order /\ l \subseteq Order
        BY <3>1 DEF Call, Strict
      <3>4. (k => call[v].killed /\ p # NoSnapshot /\ p.kill) /\ policy'[co] = p
        BY <1>1, <1>3
      <3> HIDE DEF k, s, b, l
      <3>5. /\ n \in Call /\ n.killed = k /\ n.redeem = call[v].redeem
            /\ n.stage = call[v].stage /\ n.order = call[v].order
            /\ n.snap = call[v].snap /\ n.ctx = call[v].ctx
            /\ n.todo = call[v].todo /\ n.batch = call[v].batch
            /\ n.company = call[v].company
        <4>1. n \in Call
          BY <3>1, <3>3 DEF Call
        <4>2. QED
          BY <3>1, <4>1 DEF Call
      <3> HIDE DEF n
      <3>6. GateOK(call[v])'
        BY <2>3, <3>1, <3>2, <3>4, <3>5 DEF GateOK, TokenFor
      <3>7. QED
        BY <2>3, <3>2, <3>5, <3>6
    <2>4. QED
      BY <2>1, <2>2, <2>3
  <1>6. call' \in [Worker -> Call \cup {Idle}]
    <2>1. call' = [v \in Worker |-> call'[v]]
      BY <1>1
    <2>2. QED
      BY <1>5, <2>1
  <1>7. \A v \in Worker : Busy(v)' =>
          GateOK(call[v])' /\ call'[v].redeem \subseteq consumed'
    BY <1>2, <1>5 DEF CallsOK
  <1>8. \A u, v \in Worker : (u # v /\ Busy(u)' /\ Busy(v)') =>
          call'[u].redeem \cap call'[v].redeem = {}
    BY <1>2, <1>5 DEF CallsOK
  <1>9. /\ redeemed' \in [Jti -> Nat]
        /\ \A j \in Jti : redeemed'[j] <= 1 /\ (redeemed'[j] # 0 =>
              /\ j \in consumed'
              /\ \A v \in Worker : Busy(v)' => j \notin call'[v].redeem)
    BY <1>2, <1>5 DEF CallsOK
  <1>10. QED
    BY <1>4, <1>6, <1>7, <1>8, <1>9 DEF CallsOK

\* Calls and policies stay as they are.
LEMMA SameCalls ==
    ASSUME CallsOK, UNCHANGED <<policy, consumed, call, redeemed>>
    PROVE  CallsOK'
  <1>1. CallsOK' = CallsOK
    BY DEF CallsOK, GateOK, TokenFor, Busy
  <1>2. QED
    BY <1>1

-----------------------------------------------------------------------------
LEMMA InitIInv == ASSUME Init PROVE IInv
  <1>1. clock \in 1..MaxTime /\ started \in 0..MaxCalls
        /\ crashes \in 0..MaxCrashes /\ changes \in 0..MaxChanges
    BY EnforcementAssumption DEF Init
  <1>2. /\ policy \in [Company -> Policy \cup {NoSnapshot}]
        /\ status \in [Order -> {"absent", "draft", "sale"}]
        /\ agentDid \in [Order -> Did \cup {NoDid}]
    BY EnforcementAssumption DEF Init
  <1>3. nonces \in [Process -> NonceCache]
    BY DEF Init, EmptyCache, NonceCache
  <1>4. /\ consumed = {} /\ verified = {} /\ redeemed = [j \in Jti |-> 0]
        /\ call = [w \in Worker |-> Idle]
    BY DEF Init
  <1>5. redeemed \in [Jti -> Nat] /\ \A j \in Jti : redeemed[j] = 0
    BY <1>4
  <1>6. \A w \in Worker : ~Busy(w)
    BY <1>4 DEF Busy, Idle
  <1>7. CallsOK
    BY <1>4, <1>5, <1>6 DEF CallsOK
  <1>8. QED
    BY <1>1, <1>2, <1>3, <1>4, <1>5, <1>7 DEF IInv, TypeOK

LEMMA CommitTypes ==
    ASSUME IInv, NEW w \in Worker, Commit(w)
    PROVE  /\ status' \in [Order -> {"absent", "draft", "sale"}]
           /\ agentDid' \in [Order -> Did \cup {NoDid}]
  <1>1. call[w] \in Call
    BY BusyIsCall DEF IInv, Commit, Cleared, Busy
  <1>2. /\ status \in [Order -> {"absent", "draft", "sale"}]
        /\ agentDid \in [Order -> Did \cup {NoDid}]
    BY DEF IInv, TypeOK
  <1>3. call[w].did \in [Order -> Did \cup {NoDid}]
    BY <1>1 DEF Call
  <1>4. status' \in [Order -> {"absent", "draft", "sale"}]
    BY <1>2 DEF Commit
  <1>5. agentDid' \in [Order -> Did \cup {NoDid}]
    BY <1>2, <1>3 DEF Commit
  <1>6. QED
    BY <1>4, <1>5

LEMMA NextIInv == ASSUME IInv, [Next]_vars PROVE IInv'
  <1>1. TypeOK /\ CallsOK
    BY DEF IInv
  <1>2. ASSUME CallsOK',
               UNCHANGED <<clock, policy, crashes, changes, started, db, verified>>,
               nonces' \in [Process -> NonceCache], consumed' \subseteq Jti
        PROVE  IInv'
    BY <1>1, <1>2 DEF IInv, TypeOK, CallsOK, db
  <1>3. nonces \in [Process -> NonceCache] /\ consumed \subseteq Jti
    BY <1>1 DEF TypeOK
  <1>4. ASSUME NEW w \in Worker, Start(w) PROVE IInv'
    <2>1. CallsOK'
      BY <1>4, StartCalls
    <2>2. started' \in 0..MaxCalls
      BY <1>1, <1>4, EnforcementAssumption DEF Start, TypeOK
    <2>3. QED
      BY <1>1, <1>4, <2>1, <2>2 DEF Start, IInv, TypeOK, CallsOK, db, hist
  <1>5. ASSUME NEW w \in Worker, NEW o \in Order, GateBlind(w, o) PROVE IInv'
    BY <1>2, <1>3, <1>5, GateBlindCalls DEF GateBlind, env, hist
  <1>6. ASSUME NEW w \in Worker, NEW o \in Order, GateKilled(w, o) PROVE IInv'
    BY <1>2, <1>3, <1>6, GateKilledCalls DEF GateKilled, env, hist
  <1>7. ASSUME NEW w \in Worker, NEW o \in Order, GateOrganic(w, o) PROVE IInv'
    BY <1>2, <1>3, <1>7, GateOrganicCalls DEF GateOrganic, env, hist
  <1>8. ASSUME NEW w \in Worker, NEW o \in Order, GateToken(w, o) PROVE IInv'
    <2>1. UNCHANGED <<env, consumed, db, redeemed>>
      BY <1>8, Zenon DEF GateToken
    <2>2. CallsOK' /\ nonces' \in [Process -> NonceCache]
                   /\ verified' \subseteq Token \X Order
      BY <1>8, GateTokenCalls
    <2>3. QED
      BY <1>1, <2>1, <2>2 DEF IInv, TypeOK, CallsOK, env, db
  <1>9. ASSUME NEW w \in Worker, ConsumeNonce(w) PROVE IInv'
    <2>1. UNCHANGED <<env, nonces, db, hist>>
      BY <1>9, Zenon DEF ConsumeNonce
    <2>2. QED
      BY <1>2, <1>3, <1>9, <2>1, ConsumeNonceCalls DEF env, hist
  <1>10. ASSUME NEW w \in Worker, AskLayer2(w) PROVE IInv'
    <2>1. UNCHANGED <<env, nonces, consumed, db, hist>>
      BY <1>10, Zenon DEF AskLayer2
    <2>2. QED
      BY <1>2, <1>3, <1>10, <2>1, AskLayer2Calls DEF env, hist
  <1>11. ASSUME NEW w \in Worker, SuperConfirm(w) PROVE IInv'
    <2>1. UNCHANGED <<env, nonces, consumed, db, hist>>
      BY <1>11, Zenon DEF SuperConfirm
    <2>2. QED
      BY <1>2, <1>3, <1>11, <2>1, SuperConfirmCalls DEF env, hist
  <1>12. ASSUME NEW w \in Worker, Commit(w) PROVE IInv'
    <2>1. UNCHANGED <<env, nonces, consumed, verified>>
      BY <1>12, Zenon DEF Commit
    <2>2. CallsOK'
      BY <1>12, CommitCalls
    <2>3. QED
      <3>1. /\ status' \in [Order -> {"absent", "draft", "sale"}]
            /\ agentDid' \in [Order -> Did \cup {NoDid}]
        BY <1>12, CommitTypes
      <3>2. QED
        BY <1>1, <2>1, <2>2, <3>1 DEF IInv, TypeOK, CallsOK, env
  <1>13. ASSUME NEW w \in Worker, Retry(w) PROVE IInv'
    <2>1. UNCHANGED <<env, nonces, consumed, db, hist>>
      BY <1>13, Zenon DEF Retry
    <2>2. QED
      BY <1>2, <1>3, <1>13, <2>1, RetryCalls DEF env, hist
  <1>14. ASSUME NEW pr \in Process, Crash(pr) PROVE IInv'
    <2>1. CallsOK' /\ nonces' \in [Process -> NonceCache]
      BY <1>14, CrashCalls
    <2>2. crashes' \in 0..MaxCrashes
      BY <1>1, <1>14, EnforcementAssumption DEF Crash, TypeOK
    <2>3. QED
      BY <1>1, <1>14, <2>1, <2>2 DEF Crash, IInv, TypeOK, CallsOK, db, hist
  <1>15. ASSUME NEW co \in Company, PolicyChange(co) PROVE IInv'
    <2>1. CallsOK' /\ policy' \in [Company -> Policy \cup {NoSnapshot}]
      BY <1>15, PolicyChangeCalls
    <2>2. changes' \in 0..MaxChanges
      <3>1. changes < MaxChanges /\ changes' = changes + 1
        BY <1>15, Zenon DEF PolicyChange
      <3>2. QED
        BY <1>1, <3>1, EnforcementAssumption DEF TypeOK
    <2>3. UNCHANGED <<clock, started, crashes, nonces, consumed, db, hist>>
      BY <1>15, Zenon DEF PolicyChange
    <2>4. QED
      BY <1>1, <2>1, <2>2, <2>3 DEF IInv, TypeOK, CallsOK, db, hist
  <1>16. ASSUME Tick PROVE IInv'
    <2>1. CallsOK'
      BY <1>1, <1>16, SameCalls DEF Tick, hist
    <2>2. clock' \in 1..MaxTime
      BY <1>1, <1>16, EnforcementAssumption DEF Tick, TypeOK
    <2>3. QED
      BY <1>1, <1>16, <2>1, <2>2 DEF Tick, IInv, TypeOK, CallsOK, db, hist
  <1>17. ASSUME UNCHANGED vars PROVE IInv'
    BY <1>1, <1>2, <1>3, <1>17, SameCalls DEF vars, env, hist
  <1>18. QED
    BY <1>4, <1>5, <1>6, <1>7, <1>8, <1>9, <1>10, <1>11, <1>12, <1>13, <1>14,
       <1>15, <1>16, <1>17 DEF Next, Serve

-----------------------------------------------------------------------------
\* The inductive invariant holds of every run.
THEOREM Invariance == Spec => []IInv
  <1>1. Init => IInv
    BY InitIInv
  <1>2. IInv /\ [Next]_vars => IInv'
    BY NextIInv
  <1>3. QED
    BY <1>1, <1>2, PTL DEF Spec

\* Every variable keeps its type: caches, calls, orders, history.
THEOREM TypeCorrect == Spec => []TypeOK
  <1>1. IInv => TypeOK
    BY DEF IInv
  <1>2. QED
    BY <1>1, Invariance, PTL

(***************************************************************************)
(* A jti that the backend has accepted under strict goes into at most one  *)
(* committed call, for any number of workers, processes, crashes, retries  *)
(* and lost answers: under strict only an ACCEPTED answer goes on, and the *)
(* backend gives one for each jti.  (The headless create asks for none.)   *)
(***************************************************************************)
THEOREM SingleRedemption == Spec => []ConsumedTokenRedeemedOnce
  <1>1. IInv => ConsumedTokenRedeemedOnce
    BY DEF IInv, CallsOK, ConsumedTokenRedeemedOnce
  <1>2. QED
    BY <1>1, Invariance, PTL

(***************************************************************************)
(* A kill-switch that is on for the whole of a call stops the call: the    *)
(* gate of its first order cannot be left but by refusing.                 *)
(***************************************************************************)
THEOREM KillSwitch == Spec => []KillSwitchHolds
  <1>1. ASSUME IInv, NEW w \in Worker, Cleared(w) PROVE ~call[w].killed
    BY <1>1, EnabledNotKilled DEF IInv, Cleared, Busy
  <1>2. IInv => KillSwitchHolds
    BY <1>1 DEF KillSwitchHolds
  <1>3. QED
    BY <1>2, Invariance, PTL

-----------------------------------------------------------------------------
(* The universal rules, and the DIDs on the orders. *)

\* An exception in the verifier lets the order through all rules.
Excepted(c, o) ==
    LET t == TokenFor(c, o) IN t # NoToken /\ Raising(t)

\* What a gate may let through although it is to be blocked.
Passable(c, o) == Excepted(c, o) \/ o \in c.offline \ c.limited

\* What snapshot p demands now includes what it has demanded throughout c.
Demands(c, p) == c.blocked \subseteq Blocks(p) /\ c.limited \subseteq Limits(p)

(***************************************************************************)
(* An order that has been blocked all along is still to be gated, or was   *)
(* passable; the snapshot of a gate in progress demands what has been      *)
(* demanded all along, as the present one does.                            *)
(***************************************************************************)
RuleOK(c, pol) ==
    c.op # "create" =>
        /\ c.blocked \subseteq c.batch
        /\ Demands(c, pol[c.company])
        /\ c.stage \in {"consume", "layer2"} => Demands(c, c.snap)
        /\ \A o \in c.blocked : o \in c.todo \/ Passable(c, o)

\* Calls c and d have the same demands and owe the same orders to an outage.
SameDemands(c, d) ==
    d.blocked = c.blocked /\ d.limited = c.limited /\ d.offline = c.offline

\* A gate past the verifier has verified its order's token; the open transaction
\* writes DIDs of verified tokens only, and to its own orders.
DidOK(c, ver) ==
    /\ c.todo \subseteq c.batch
    /\ c.stage \in {"consume", "layer2"} =>
          /\ c.order \in c.batch
          /\ TokenFor(c, c.order) # NoToken => <<TokenFor(c, c.order), c.order>> \in ver
    /\ \A o \in Order : c.did[o] # NoDid =>
          /\ o \in c.batch
          /\ \E v \in ver : v[2] = o /\ v[1].did = c.did[o]

Checked ==
    \A w \in Worker : Busy(w) => RuleOK(call[w], policy) /\ DidOK(call[w], verified)

\* What has been verified stays verified.
LEMMA DidMonotone ==
    ASSUME NEW c, NEW ver, NEW ver2, ver \subseteq ver2, DidOK(c, ver)
    PROVE  DidOK(c, ver2)
  BY DEF DidOK

\* A call goes on within its gates and leaves the gate of an order that is not
\* blocked, or excepted.
LEMMA RuleAdvance ==
    ASSUME NEW c \in Call, NEW d \in Call, NEW pol, RuleOK(c, pol),
           d.op = c.op, d.company = c.company, d.ctx = c.ctx,
           d.batch = c.batch, d.blocked = c.blocked, d.limited = c.limited,
           c.offline \subseteq d.offline,
           d.op # "create" =>
             /\ d.stage \in {"consume", "layer2"} => Demands(c, d.snap)
             /\ \A o \in d.blocked : o \in c.todo => o \in d.todo \/ Passable(d, o)
    PROVE  RuleOK(d, pol)
  <1>1. \A o \in d.blocked : Passable(c, o) => Passable(d, o)
    BY DEF Passable, Excepted, TokenFor
  <1> QED BY <1>1 DEF RuleOK, Demands

LEMMA PassedFields ==
    ASSUME NEW c \in Call, NEW o
    PROVE  LET d == Passed(c, o) IN
           /\ d.op = c.op /\ d.company = c.company /\ d.ctx = c.ctx
           /\ SameDemands(c, d) /\ d.did = c.did /\ d.todo = c.todo \ {o}
           /\ d.strict = c.strict
  BY DEF Passed, Call, SameDemands

\* A new or re-run call.
LEMMA OpenedChecked ==
    ASSUME TypeOK, NEW op \in Op, NEW co \in Company,
           NEW x \in Token \cup {NoToken}, NEW b \in Batch \ {{}},
           NEW n \in 1..MaxTries, NEW ver
    PROVE  LET c == Opened(op, co, x, b, n) IN RuleOK(c, policy) /\ DidOK(c, ver)
  <1> DEFINE c == Opened(op, co, x, b, n)
  <1>1. /\ c.company = co /\ c.batch = b /\ c.todo = b /\ c.stage = "gate"
        /\ c.blocked = Blocks(policy[co]) \cap b
        /\ c.limited = Limits(policy[co]) \cap b
        /\ c.did = [o \in Order |-> NoDid]
    BY DEF Opened
  <1>2. c.blocked \subseteq b /\ Demands(c, policy[co])
    BY <1>1 DEF Demands
  <1> HIDE DEF c
  <1>3. RuleOK(c, policy)
    BY <1>1, <1>2 DEF RuleOK
  <1>4. DidOK(c, ver)
    BY <1>1 DEF DidOK
  <1> QED BY <1>3, <1>4 DEF c

LEMMA BecomeChecked ==
    ASSUME CallsOK, Checked, NEW w \in Worker, NEW c, Become(w, c),
           UNCHANGED policy, verified \subseteq verified',
           RuleOK(c, policy), DidOK(c, verified')
    PROVE  Checked'
  <1>1. call'[w] = c /\ \A v \in Worker : v # w => call'[v] = call[v]
    BY DEF CallsOK, Become
  <1>2. ASSUME NEW v \in Worker, Busy(v)'
        PROVE  RuleOK(call'[v], policy') /\ DidOK(call'[v], verified')
    <2>1. CASE v = w
      BY <1>1, <2>1
    <2>2. CASE v # w
      BY <1>1, <1>2, <2>2, DidMonotone DEF Checked, Busy
    <2> QED BY <2>1, <2>2
  <1> QED BY <1>2 DEF Checked

LEMMA DropChecked ==
    ASSUME Checked, UNCHANGED policy, verified \subseteq verified',
           \A v \in Worker : call'[v] \in {call[v], Idle}
    PROVE  Checked'
  <1>1. ASSUME NEW v \in Worker, Busy(v)'
        PROVE  RuleOK(call'[v], policy') /\ DidOK(call'[v], verified')
    <2>1. Busy(v) /\ call'[v] = call[v]
      BY <1>1 DEF Busy, Idle
    <2> QED BY <2>1, DidMonotone DEF Checked
  <1> QED BY <1>1 DEF Checked

LEMMA RefuseChecked ==
    ASSUME CallsOK, Checked, NEW w \in Worker, Refuse(w), UNCHANGED policy,
           verified \subseteq verified'
    PROVE  Checked'
  <1>1. \A v \in Worker : call'[v] \in {call[v], Idle}
    BY DEF CallsOK, Refuse
  <1> QED BY <1>1, DropChecked

LEMMA StartChecked ==
    ASSUME IInv, Checked, NEW w \in Worker, Start(w)
    PROVE  Checked'
  <1>1. PICK op \in Op, co \in Company, x \in CtxToken, b \in Batch \ {{}} :
          Become(w, Opened(op, co, x, b, 1))
    BY DEF Start
  <1>2. x \in Token \cup {NoToken} /\ 1 \in 1..MaxTries
    BY EnforcementAssumption
  <1> DEFINE c == Opened(op, co, x, b, 1)
  <1>4. RuleOK(c, policy) /\ DidOK(c, verified')
    BY <1>2, OpenedChecked DEF IInv
  <1>5. UNCHANGED <<policy, verified>>
    BY DEF Start, hist
  <1> HIDE DEF c
  <1>6. Become(w, c)
    BY <1>1 DEF c
  <1> QED BY <1>4, <1>5, <1>6, BecomeChecked DEF IInv

\* An order leaves its gate by call d.
LEMMA PassedChecked ==
    ASSUME IInv, Checked, NEW w \in Worker, Busy(w), NEW o, NEW d \in Call,
           Become(w, d), UNCHANGED policy, verified \subseteq verified',
           d.op = call[w].op, d.company = call[w].company, d.ctx = call[w].ctx,
           d.batch = call[w].batch, SameDemands(call[w], d),
           d.stage = "gate", d.todo = call[w].todo \ {o},
           d.did = call[w].did,
           (d.op # "create" /\ o \in d.blocked) => Passable(d, o)
    PROVE  Checked'
  <1>1. call[w] \in Call /\ RuleOK(call[w], policy) /\ DidOK(call[w], verified)
    BY BusyIsCall DEF IInv, Checked
  <1>2. RuleOK(d, policy)
    BY <1>1, RuleAdvance DEF SameDemands
  <1>3. DidOK(d, verified')
    BY <1>1 DEF DidOK
  <1> QED BY <1>2, <1>3, BecomeChecked DEF IInv

LEMMA GateBlindChecked ==
    ASSUME IInv, Checked, NEW w \in Worker, NEW o \in Order, GateBlind(w, o)
    PROVE  Checked'
  <1> DEFINE c == call[w]
             q == Passed(c, o)
             d == [q EXCEPT !.blind = TRUE]
  <1>1. Busy(w) /\ UNCHANGED <<policy, verified>>
    BY DEF GateBlind, AtGate, Busy, env, hist
  <1>2. c \in Call
    BY <1>1, BusyIsCall DEF IInv
  <1>3. c.op # "create" => c.blocked = {}
    BY <1>1 DEF GateBlind, Snapshot, Checked, RuleOK, Demands, Blocks
  <1>4. CASE Become(w, d)
    <2>1. /\ q \in Call /\ q.op = c.op /\ q.company = c.company /\ q.ctx = c.ctx
          /\ q.batch = c.batch /\ SameDemands(c, q) /\ q.stage = "gate"
          /\ q.todo = c.todo \ {o} /\ q.did = c.did
      BY <1>2, PassedType, PassedFields
    <2> HIDE DEF q
    <2>2. /\ d \in Call /\ d.op = c.op /\ d.company = c.company /\ d.ctx = c.ctx
          /\ d.batch = c.batch /\ SameDemands(c, d) /\ d.stage = "gate"
          /\ d.todo = c.todo \ {o} /\ d.did = c.did
      BY <2>1 DEF Call, SameDemands
    <2> HIDE DEF d
    <2> QED BY <1>1, <1>3, <1>4, <2>2, PassedChecked DEF SameDemands
  <1>5. CASE Refuse(w)
    BY <1>1, <1>5, RefuseChecked DEF IInv
  <1> QED BY <1>4, <1>5 DEF GateBlind

LEMMA GateOrganicChecked ==
    ASSUME IInv, Checked, NEW w \in Worker, NEW o \in Order, GateOrganic(w, o)
    PROVE  Checked'
  <1> DEFINE c == call[w]
             d == [c EXCEPT !.stage = "layer2", !.order = o, !.snap = Snapshot(w)]
  <1>1. Busy(w) /\ UNCHANGED <<policy, verified>> /\ o \in c.todo
    BY DEF GateOrganic, AtGate, Busy, env, hist
  <1>2. c \in Call /\ RuleOK(c, policy) /\ DidOK(c, verified)
    BY <1>1, BusyIsCall DEF IInv, Checked
  <1>3. Snapshot(w) \in Policy
    BY <1>1, SnapshotType DEF IInv, GateOrganic, Enabled
  <1>4. CASE Become(w, d)
    <2>1. /\ d \in Call /\ d.op = c.op /\ d.company = c.company /\ d.ctx = c.ctx
          /\ d.batch = c.batch /\ SameDemands(c, d) /\ d.stage = "layer2"
          /\ d.todo = c.todo /\ d.did = c.did /\ d.order = o
          /\ d.snap = policy[c.company]
      BY <1>2, <1>3 DEF Call, Stage, Snapshot, SameDemands
    <2> HIDE DEF d
    <2>2. c.op # "create" => Demands(c, policy[c.company])
      BY <1>2 DEF RuleOK
    <2>3. RuleOK(d, policy)
      BY <1>2, <2>1, <2>2, RuleAdvance DEF SameDemands
    <2>4. TokenFor(d, o) = NoToken
      BY <2>1 DEF GateOrganic, TokenFor
    <2>5. DidOK(d, verified')
      BY <1>1, <1>2, <2>1, <2>4 DEF DidOK
    <2> QED BY <1>1, <1>4, <2>3, <2>5, BecomeChecked DEF IInv
  <1>5. CASE c.op = "create" /\ Become(w, Passed(c, o))
    BY <1>1, <1>2, <1>5, PassedType, PassedFields, PassedChecked
  <1>6. CASE Refuse(w)
    BY <1>1, <1>6, RefuseChecked DEF IInv
  <1> QED BY <1>4, <1>5, <1>6 DEF GateOrganic

\* The verifier raises only for a token that can make it.
LEMMA RaiseIsRaising ==
    ASSUME NEW t, NEW i, NEW res, NEW now, NEW cache,
           Verdict(t, i, res, now, cache) = "raise"
    PROVE  Raising(t)
  BY DEF Verdict, Raising, Records

LEMMA GateTokenChecked ==
    ASSUME IInv, Checked, NEW w \in Worker, NEW o \in Order, GateToken(w, o)
    PROVE  Checked'
  <1> DEFINE c == call[w]
             t == TokenFor(c, o)
             p == Snapshot(w)
             v == Verdict(t, IntentFor(c, o, p), p.resolver, clock, nonces[ProcessOf[w]])
             own == IF v = "accept" THEN c.own \cup {<<KeyOf(t), o>>} ELSE c.own
             d1 == [Passed(c, o) EXCEPT !.own = own]
             d2 == [c EXCEPT !.stage = "consume", !.order = o, !.snap = p, !.own = own]
  <1>1. /\ AtGate(w, o) /\ Enabled(w) /\ t # NoToken
        /\ UNCHANGED <<env, consumed, db, redeemed>>
        /\ verified' = IF v = "accept" THEN verified \cup {<<t, o>>} ELSE verified
    BY Zenon DEF GateToken
  <1>2. \/ Refuse(w)
        \/ v = "raise" /\ Become(w, Passed(c, o))
        \/ v = "accept" /\ c.op = "create" /\ Become(w, d1)
        \/ v = "accept" /\ Become(w, d2)
    BY Zenon DEF GateToken
  <1>3. Busy(w) /\ UNCHANGED policy /\ verified \subseteq verified' /\ o \in c.todo
    BY <1>1 DEF AtGate, Busy, env
  <1>4. c \in Call /\ RuleOK(c, policy) /\ DidOK(c, verified)
    BY <1>3, BusyIsCall DEF IInv, Checked
  <1>5. p \in Policy /\ t \in Token
    BY <1>1, <1>3, <1>4, SnapshotType, TokenForType DEF IInv, Enabled
  <1>6. own \subseteq Key \X Order
    BY <1>4, <1>5, KeyOfType DEF Call
  <1>7. v = "raise" => Excepted(c, o)
    BY <1>1, RaiseIsRaising DEF Excepted
  <1> HIDE DEF v, own
  <1>8. CASE Refuse(w)
    BY <1>3, <1>8, RefuseChecked DEF IInv
  <1>9. CASE v = "raise" /\ Become(w, Passed(c, o))
    <2>1. Passed(c, o) \in Call /\ Excepted(Passed(c, o), o)
      BY <1>4, <1>7, <1>9, PassedType, PassedFields DEF Excepted, TokenFor
    <2> QED BY <1>3, <1>4, <1>9, <2>1, PassedType, PassedFields, PassedChecked
              DEF Passable
  <1>10. CASE v = "accept" /\ c.op = "create" /\ Become(w, d1)
    <2>1. Passed(c, o) \in Call
      BY <1>4, PassedType
    <2>2. /\ d1 \in Call /\ d1.op = c.op /\ d1.company = c.company /\ d1.ctx = c.ctx
          /\ d1.batch = c.batch /\ SameDemands(c, d1) /\ d1.stage = "gate"
          /\ d1.todo = c.todo \ {o} /\ d1.did = c.did
      BY <1>4, <1>6, <2>1, PassedType, PassedFields DEF Call, SameDemands
    <2> HIDE DEF d1
    <2> QED BY <1>3, <1>10, <2>2, PassedChecked
  <1>11. CASE v = "accept" /\ Become(w, d2)
    <2>1. /\ d2 \in Call /\ d2.op = c.op /\ d2.company = c.company /\ d2.ctx = c.ctx
          /\ d2.batch = c.batch /\ SameDemands(c, d2) /\ d2.stage = "consume"
          /\ d2.todo = c.todo /\ d2.did = c.did /\ d2.order = o
          /\ d2.snap = policy[c.company]
      BY <1>4, <1>5, <1>6 DEF Call, Stage, Snapshot, SameDemands
    <2> HIDE DEF d2
    <2>2. c.op # "create" => Demands(c, policy[c.company])
      BY <1>4 DEF RuleOK
    <2>3. RuleOK(d2, policy)
      BY <1>4, <2>1, <2>2, RuleAdvance DEF SameDemands
    <2>4. TokenFor(d2, o) = t /\ <<t, o>> \in verified'
      BY <1>1, <1>11, <2>1 DEF TokenFor
    <2>5. DidOK(d2, verified')
      BY <1>3, <1>4, <2>1, <2>4 DEF DidOK
    <2> QED BY <1>3, <1>11, <2>3, <2>5, BecomeChecked DEF IInv
  <1> QED BY <1>2, <1>8, <1>9, <1>10, <1>11

LEMMA ConsumeNonceChecked ==
    ASSUME IInv, Checked, NEW w \in Worker, ConsumeNonce(w)
    PROVE  Checked'
  <1> DEFINE c == call[w]
             t == TokenFor(c, c.order)
             next == [c EXCEPT !.stage = "layer2"]
             n1 == [next EXCEPT !.redeem = @ \cup {t.jti}]
             n2 == [next EXCEPT !.replayed = TRUE]
  <1>1. /\ c.stage = "consume" /\ UNCHANGED <<env, nonces, db, hist>>
        /\ Refuse(w) \/ Become(w, next) \/ Become(w, n1) \/ Become(w, n2)
    BY Zenon DEF ConsumeNonce
  <1>2. Busy(w) /\ UNCHANGED <<policy, verified>>
    BY <1>1 DEF Busy, env, hist
  <1>3. c \in Call /\ GateOK(c) /\ RuleOK(c, policy) /\ DidOK(c, verified)
    BY <1>2, BusyIsCall DEF IInv, CallsOK, Checked
  <1>4. t.jti \in Jti
    <2>1. c.order \in Order /\ t # NoToken /\ t.jti # NoJti
      BY <1>1, <1>3 DEF GateOK
    <2>2. t \in Token
      BY <1>3, <2>1, TokenForType
    <2> QED BY <2>1, <2>2, TokenAssumption DEF TokenRecord
  <1> HIDE DEF t
  <1>5. /\ next \in Call /\ next.redeem = c.redeem /\ next.op = c.op
        /\ next.company = c.company /\ next.ctx = c.ctx /\ next.batch = c.batch
        /\ SameDemands(c, next) /\ next.stage = "layer2"
        /\ next.todo = c.todo /\ next.did = c.did /\ next.order = c.order
        /\ next.snap = c.snap
    BY <1>3 DEF Call, Stage, SameDemands
  <1> HIDE DEF next
  <1>6. ASSUME NEW n \in {next, n1, n2}
        PROVE  /\ n \in Call /\ n.op = c.op /\ n.company = c.company /\ n.ctx = c.ctx
               /\ n.batch = c.batch /\ SameDemands(c, n) /\ n.stage = "layer2"
               /\ n.todo = c.todo /\ n.did = c.did /\ n.order = c.order
               /\ n.snap = c.snap
    <2>1. CASE n = next
      BY <1>5, <2>1
    <2>2. CASE n = n1
      BY <1>4, <1>5, <2>2 DEF Call, SameDemands
    <2>3. CASE n = n2
      BY <1>5, <2>3 DEF Call, SameDemands
    <2> QED BY <1>6, <2>1, <2>2, <2>3
  <1> HIDE DEF n1, n2
  <1>7. ASSUME NEW n \in {next, n1, n2}, Become(w, n) PROVE Checked'
    <2>1. c.op # "create" => Demands(c, c.snap)
      BY <1>1, <1>3 DEF RuleOK
    <2>2. RuleOK(n, policy)
      BY <1>3, <1>6, <2>1, RuleAdvance DEF SameDemands
    <2>3. TokenFor(n, n.order) = TokenFor(c, c.order)
      BY <1>6 DEF TokenFor
    <2>4. DidOK(n, verified')
      BY <1>1, <1>2, <1>3, <1>6, <2>3 DEF DidOK
    <2> QED BY <1>2, <1>7, <2>2, <2>4, BecomeChecked DEF IInv
  <1>8. CASE Refuse(w)
    BY <1>2, <1>8, RefuseChecked DEF IInv
  <1> QED BY <1>1, <1>7, <1>8

\* The Layer-2 stage lets an order through if no rule blocks it, or in an outage
\* if it is not over a limit.
LEMMA AskLayer2Checked ==
    ASSUME IInv, Checked, NEW w \in Worker, AskLayer2(w)
    PROVE  Checked'
  <1> DEFINE c == call[w]
             o == c.order
             t == TokenFor(c, o)
  <1>1. /\ c.stage = "layer2" /\ UNCHANGED <<env, nonces, consumed, db, hist>>
        /\ \/ Refuse(w)
           \/ /\ ~c.snap.tier2 \/ o \notin c.snap.blocks
              /\ Become(w, Allowed(c, t))
           \/ /\ c.snap.tier2 /\ o \notin c.snap.limits
              /\ Become(w, AllowedOffline(c, t))
    BY AskLayer2Cases
  <1>2. Busy(w) /\ UNCHANGED <<policy, verified>>
    BY <1>1 DEF Busy, env, hist
  <1>3. c \in Call /\ GateOK(c) /\ RuleOK(c, policy) /\ DidOK(c, verified)
    BY <1>2, BusyIsCall DEF IInv, CallsOK, Checked
  <1>4. o \in Order /\ c.snap \in Policy /\ t \in Token \cup {NoToken}
    BY <1>1, <1>3, TokenForType DEF GateOK
  <1>5. c.snap # NoSnapshot /\ (c.op # "create" => Demands(c, c.snap))
    BY <1>1, <1>3, <1>4, EnforcementAssumption DEF RuleOK
  <1>6. CASE Refuse(w)
    BY <1>2, <1>6, RefuseChecked DEF IInv
  <1>7. ASSUME NEW d \in {Allowed(c, t), AllowedOffline(c, t)}, Become(w, d),
               (c.op # "create" /\ o \in c.blocked) =>
                  d = AllowedOffline(c, t) /\ o \notin c.limited
        PROVE  Checked'
    <2>1. /\ d \in Call /\ d.stage = "gate" /\ d.batch = c.batch
          /\ d.op = c.op /\ d.company = c.company /\ d.ctx = c.ctx
          /\ d.blocked = c.blocked /\ d.limited = c.limited
          /\ c.offline \subseteq d.offline /\ d.todo = c.todo \ {o}
          /\ d = AllowedOffline(c, t) => o \in d.offline
          /\ \A u \in Order : d.did[u] =
                IF u = o /\ t # NoToken THEN t.did ELSE c.did[u]
      BY <1>3, <1>4, AllowedType
    <2>2. RuleOK(d, policy)
      <3>1. (c.op # "create" /\ o \in d.blocked) => Passable(d, o)
        BY <1>7, <2>1 DEF Passable
      <3>2. d.op # "create" =>
              \A u \in d.blocked : u \in c.todo => u \in d.todo \/ Passable(d, u)
        BY <2>1, <3>1
      <3> QED BY <1>3, <2>1, <3>2, RuleAdvance
    <2>3. DidOK(d, verified')
      <3>1. /\ o \in c.batch
            /\ t # NoToken => <<t, o>> \in verified
        BY <1>1, <1>3 DEF DidOK
      <3>2. c.did \in [Order -> Did \cup {NoDid}]
        BY <1>3 DEF Call
      <3>3. ASSUME NEW u \in Order, d.did[u] # NoDid
            PROVE  u \in c.batch /\ \E x \in verified : x[2] = u /\ x[1].did = d.did[u]
        <4>1. CASE u = o /\ t # NoToken
          BY <1>4, <2>1, <3>1, <3>2, <4>1
        <4>2. CASE ~(u = o /\ t # NoToken)
          <5>1. d.did[u] = c.did[u]
            BY <1>4, <2>1, <3>2, <4>2
          <5> QED BY <1>3, <3>3, <5>1 DEF DidOK
        <4> QED BY <4>1, <4>2
      <3> QED BY <1>2, <1>3, <2>1, <3>3 DEF DidOK
    <2> QED BY <1>2, <1>7, <2>2, <2>3, BecomeChecked DEF IInv
  <1>8. CASE /\ ~c.snap.tier2 \/ o \notin c.snap.blocks
             /\ Become(w, Allowed(c, t))
    <2>1. c.op # "create" => o \notin c.blocked
      BY <1>5, <1>8 DEF Demands, Blocks
    <2> QED BY <1>7, <1>8, <2>1
  <1>9. CASE /\ c.snap.tier2 /\ o \notin c.snap.limits
             /\ Become(w, AllowedOffline(c, t))
    <2>1. c.op # "create" => o \notin c.limited
      BY <1>5, <1>9 DEF Demands, Limits
    <2> QED BY <1>7, <1>9, <2>1
  <1> QED BY <1>1, <1>6, <1>8, <1>9

LEMMA SuperConfirmChecked ==
    ASSUME IInv, Checked, NEW w \in Worker, SuperConfirm(w)
    PROVE  Checked'
  <1> DEFINE c == call[w]
             d == [c EXCEPT !.round = 2, !.todo = c.batch]
  <1>1. /\ c.stage = "gate" /\ c.todo = {}
        /\ UNCHANGED <<env, nonces, consumed, db, hist>>
        /\ Refuse(w) \/ Become(w, d)
    BY Zenon DEF SuperConfirm
  <1>2. Busy(w) /\ UNCHANGED <<policy, verified>>
    BY <1>1 DEF Busy, env, hist
  <1>3. c \in Call /\ RuleOK(c, policy) /\ DidOK(c, verified)
    BY <1>2, BusyIsCall DEF IInv, Checked
  <1>4. CASE Become(w, d)
    <2>1. c.batch \subseteq Order
      BY <1>3, EnforcementAssumption DEF Call
    <2>2. /\ d.op = c.op /\ d.company = c.company /\ d.ctx = c.ctx
          /\ d.batch = c.batch /\ SameDemands(c, d) /\ d.stage = "gate"
          /\ d.todo = c.batch /\ d.did = c.did
      BY <1>1, <1>3 DEF Call, SameDemands
    <2> HIDE DEF d
    <2>3. RuleOK(d, policy)
      BY <1>3, <2>2 DEF RuleOK, Demands, SameDemands
    <2>4. DidOK(d, verified')
      BY <1>2, <1>3, <2>2 DEF DidOK
    <2> QED BY <1>2, <1>4, <2>3, <2>4, BecomeChecked DEF IInv
  <1>5. CASE Refuse(w)
    BY <1>2, <1>5, RefuseChecked DEF IInv
  <1> QED BY <1>1, <1>4, <1>5

\* Calls that differ in none of the fields at issue.
LEMMA SameRules ==
    ASSUME NEW c, NEW d, NEW pol, NEW ver, RuleOK(c, pol), DidOK(c, ver),
           d.op = c.op, d.company = c.company, d.ctx = c.ctx,
           d.batch = c.batch, SameDemands(c, d), d.stage = c.stage,
           d.todo = c.todo, d.did = c.did, d.order = c.order, d.snap = c.snap
    PROVE  RuleOK(d, pol) /\ DidOK(d, ver)
  <1>1. \A o : TokenFor(d, o) = TokenFor(c, o)
    BY DEF TokenFor
  <1>2. \A o : Passable(c, o) => Passable(d, o)
    BY <1>1 DEF Passable, Excepted, SameDemands
  <1>3. RuleOK(d, pol)
    BY <1>2 DEF RuleOK, Demands, SameDemands
  <1>4. DidOK(d, ver)
    BY <1>1 DEF DidOK
  <1> QED BY <1>3, <1>4

LEMMA RetryChecked ==
    ASSUME IInv, Checked, NEW w \in Worker, Retry(w)
    PROVE  Checked'
  <1> DEFINE c == call[w]
             n == Opened(c.op, c.company, c.ctx, c.batch, c.tries + 1)
             d == [n EXCEPT !.own = c.own]
  <1>1. /\ Cleared(w) /\ UNCHANGED <<env, nonces, consumed, db, hist>>
        /\ Refuse(w) \/ (c.tries < MaxTries /\ Become(w, d))
    BY Zenon DEF Retry
  <1>2. Busy(w) /\ UNCHANGED <<policy, verified>>
    BY <1>1 DEF Cleared, Busy, env, hist
  <1>3. c \in Call /\ c.batch # {}
    BY <1>2, BusyIsCall DEF IInv, CallsOK, GateOK
  <1>4. CASE c.tries < MaxTries /\ Become(w, d)
    <2>1. /\ c.op \in Op /\ c.company \in Company /\ c.ctx \in Token \cup {NoToken}
          /\ c.batch \in Batch \ {{}} /\ c.own \in SUBSET (Key \X Order)
          /\ c.tries \in 1..MaxTries /\ MaxTries \in Nat
      BY <1>3, EnforcementAssumption DEF Call
    <2>2. c.tries + 1 \in 1..MaxTries
      BY <1>4, <2>1
    <2>3. n \in Call /\ RuleOK(n, policy) /\ DidOK(n, verified')
      BY <2>1, <2>2, OpenedChecked, OpenedType DEF IInv
    <2> HIDE DEF n
    <2>4. /\ d.op = n.op /\ d.company = n.company /\ d.ctx = n.ctx
          /\ d.batch = n.batch /\ SameDemands(n, d) /\ d.stage = n.stage
          /\ d.todo = n.todo /\ d.did = n.did /\ d.order = n.order
          /\ d.snap = n.snap
      BY <2>3 DEF Call, SameDemands
    <2> HIDE DEF d
    <2>5. RuleOK(d, policy) /\ DidOK(d, verified')
      BY <2>3, <2>4, SameRules
    <2> QED BY <1>2, <1>4, <2>5, BecomeChecked DEF IInv
  <1>5. CASE Refuse(w)
    BY <1>2, <1>5, RefuseChecked DEF IInv
  <1> QED BY <1>1, <1>4, <1>5

\* Marking a transaction stale changes nothing of what it has checked.
LEMMA CommitChecked ==
    ASSUME IInv, Checked, NEW w \in Worker, Commit(w)
    PROVE  Checked'
  <1>1. UNCHANGED <<policy, verified>>
    BY Zenon DEF Commit, env
  <1>2. ASSUME NEW v \in Worker, Busy(v)'
        PROVE  RuleOK(call'[v], policy') /\ DidOK(call'[v], verified')
    <2>1. /\ Busy(v)
          /\ call'[v] = call[v] \/ call'[v] = [call[v] EXCEPT !.stale = TRUE]
      BY <1>2 DEF Commit, Busy, Idle
    <2>2. call[v] \in Call /\ RuleOK(call[v], policy) /\ DidOK(call[v], verified)
      BY <2>1, BusyIsCall DEF IInv, Checked
    <2> DEFINE d == [call[v] EXCEPT !.stale = TRUE]
    <2>3. /\ d \in Call /\ d.op = call[v].op /\ d.company = call[v].company
          /\ d.ctx = call[v].ctx /\ d.batch = call[v].batch
          /\ SameDemands(call[v], d) /\ d.stage = call[v].stage
          /\ d.todo = call[v].todo /\ d.did = call[v].did
          /\ d.order = call[v].order /\ d.snap = call[v].snap
      BY <2>2 DEF Call, SameDemands
    <2> HIDE DEF d
    <2>4. RuleOK(d, policy) /\ DidOK(d, verified)
      BY <2>2, <2>3, SameRules
    <2> QED BY <1>1, <2>1, <2>2, <2>4 DEF d
  <1> QED BY <1>2 DEF Checked

LEMMA PolicyChangeChecked ==
    ASSUME IInv, Checked, NEW co \in Company, PolicyChange(co)
    PROVE  Checked'
  <1>1. PICK p \in Policy \cup {NoSnapshot} :
          /\ policy' = [policy EXCEPT ![co] = p]
          /\ call' = [w \in Worker |->
                IF ~Busy(w) \/ call[w].company # co THEN call[w]
                ELSE [call[w] EXCEPT
                        !.killed = @ /\ p # NoSnapshot /\ p.kill,
                        !.strict = @ /\ Strict(p),
                        !.blocked = @ \cap Blocks(p),
                        !.limited = @ \cap Limits(p)]]
    BY Zenon DEF PolicyChange
  <1>2. UNCHANGED verified /\ policy \in [Company -> Policy \cup {NoSnapshot}]
    BY Zenon DEF PolicyChange, hist, IInv, TypeOK
  <1>3. ASSUME NEW v \in Worker, Busy(v)'
        PROVE  RuleOK(call'[v], policy') /\ DidOK(call'[v], verified')
    <2>1. Busy(v)
      BY <1>1, <1>3 DEF Busy
    <2>2. call[v] \in Call /\ RuleOK(call[v], policy) /\ DidOK(call[v], verified)
      BY <2>1, BusyIsCall DEF IInv, Checked
    <2>3. CASE call[v].company # co
      <3>1. call'[v] = call[v] /\ policy'[call[v].company] = policy[call[v].company]
        BY <1>1, <1>2, <2>2, <2>3 DEF Call
      <3> QED BY <1>2, <2>2, <3>1 DEF RuleOK
    <2>4. CASE call[v].company = co
      <3> DEFINE k == call[v].killed /\ p # NoSnapshot /\ p.kill
                 b == call[v].blocked \cap Blocks(p)
                 l == call[v].limited \cap Limits(p)
                 s == call[v].strict /\ Strict(p)
                 n == [call[v] EXCEPT !.killed = k, !.strict = s, !.blocked = b,
                                      !.limited = l]
      <3>1. call'[v] = n /\ policy'[co] = p
        BY <1>1, <1>2, <2>1, <2>4, Zenon
      <3>2. /\ b \subseteq call[v].blocked /\ b \subseteq Blocks(p)
            /\ l \subseteq call[v].limited /\ l \subseteq Limits(p)
        OBVIOUS
      <3> HIDE DEF k, s, b, l
      <3>3. /\ n.op = call[v].op /\ n.company = call[v].company
            /\ n.ctx = call[v].ctx /\ n.batch = call[v].batch
            /\ n.blocked = b /\ n.limited = l /\ n.stage = call[v].stage
            /\ n.todo = call[v].todo /\ n.did = call[v].did
            /\ n.order = call[v].order /\ n.snap = call[v].snap
            /\ n.offline = call[v].offline
        BY <2>2 DEF Call
      <3> HIDE DEF n
      <3>4. RuleOK(n, policy')
        <4>1. \A o : Passable(call[v], o) => Passable(n, o)
          BY <3>2, <3>3 DEF Passable, Excepted, TokenFor
        <4> QED BY <2>2, <2>4, <3>1, <3>2, <3>3, <4>1 DEF RuleOK, Demands
      <3>5. DidOK(n, verified')
        BY <1>2, <2>2, <3>3 DEF DidOK, TokenFor
      <3> QED BY <3>1, <3>4, <3>5
    <2> QED BY <2>3, <2>4
  <1> QED BY <1>3 DEF Checked

LEMMA NextChecked == ASSUME IInv, Checked, [Next]_vars PROVE Checked'
  <1>1. ASSUME NEW pr \in Process, Crash(pr) PROVE Checked'
    <2>1. UNCHANGED <<policy, verified>> /\ \A v \in Worker : call'[v] \in {call[v], Idle}
      BY <1>1 DEF Crash, hist
    <2> QED BY <2>1, DropChecked
  <1>2. ASSUME NEW w \in Worker, NEW o \in Order, GateKilled(w, o) PROVE Checked'
    BY <1>2, RefuseChecked DEF GateKilled, env, hist, IInv
  <1>3. CASE UNCHANGED <<call, policy, verified>>
    BY <1>3 DEF Checked, Busy
  <1> QED BY <1>1, <1>2, <1>3, StartChecked, GateBlindChecked, GateOrganicChecked,
             GateTokenChecked, ConsumeNonceChecked, AskLayer2Checked,
             SuperConfirmChecked, RetryChecked, CommitChecked, PolicyChangeChecked
          DEF Next, Serve, Tick, vars, env, hist

LEMMA InitChecked == Init => Checked
  BY DEF Init, Checked, Busy, Idle

THEOREM EverythingChecked == Spec => []Checked
  <1>1. IInv /\ Checked /\ [Next]_vars => Checked'
    BY NextChecked
  <1> QED BY <1>1, InitChecked, Invariance, PTL DEF Spec

(***************************************************************************)
(* An order that a universal rule blocks throughout a call is confirmed by *)
(* it only if its token makes the verifier raise or, in an outage of the   *)
(* rules service, if it is not over a limit: its gate is left on no other  *)
(* way.                                                                    *)
(***************************************************************************)
THEOREM UniversalRules == Spec => []UniversalRulesHold
  <1>1. ASSUME Checked, NEW w \in Worker, Cleared(w), call[w].op # "create",
               NEW o \in call[w].blocked
        PROVE  Passable(call[w], o)
    BY <1>1 DEF Checked, Cleared, Busy, RuleOK
  <1>2. Checked => UniversalRulesHold
    BY <1>1 DEF UniversalRulesHold, Passable, Excepted
  <1> QED BY <1>2, EverythingChecked, PTL

\* Commits write verified DIDs, to orders they confirm, which stay confirmed.
LEMMA DidStep == IInv /\ Checked /\ DidOnlyOnSales /\ [Next]_vars => DidOnlyOnSales'
  <1> SUFFICES ASSUME IInv, Checked, DidOnlyOnSales, [Next]_vars
               PROVE  DidOnlyOnSales'
    OBVIOUS
  <1>1. ASSUME NEW w \in Worker, Commit(w) PROVE DidOnlyOnSales'
    <2> DEFINE c == call[w]
    <2>1. /\ status' = [o \in Order |-> IF o \in c.batch THEN "sale" ELSE status[o]]
          /\ agentDid' = [o \in Order |->
                            IF c.did[o] # NoDid THEN c.did[o] ELSE agentDid[o]]
          /\ UNCHANGED verified
      BY <1>1, Zenon DEF Commit
    <2>2. DidOK(c, verified)
      BY <1>1 DEF Commit, Cleared, Busy, Checked
    <2>3. ASSUME NEW o \in Order, agentDid'[o] # NoDid
          PROVE  /\ status'[o] = "sale"
                 /\ \E v \in verified' : v[2] = o /\ v[1].did = agentDid'[o]
      <3>1. CASE c.did[o] # NoDid
        BY <2>1, <2>2, <3>1 DEF DidOK
      <3>2. CASE c.did[o] = NoDid
        <4>1. agentDid'[o] = agentDid[o]
          BY <2>1, <3>2
        <4> QED BY <2>1, <2>3, <4>1 DEF DidOnlyOnSales
      <3> QED BY <3>1, <3>2
    <2> QED BY <2>3 DEF DidOnlyOnSales
  <1>2. ASSUME UNCHANGED db, verified \subseteq verified' PROVE DidOnlyOnSales'
    BY <1>2 DEF db, DidOnlyOnSales
  <1>3. ASSUME NEW w \in Worker, NEW o \in Order, GateToken(w, o)
        PROVE  UNCHANGED db /\ verified \subseteq verified'
    BY <1>3, Zenon DEF GateToken
  <1>4. CASE \E w \in Worker : \/ Start(w) \/ ConsumeNonce(w) \/ AskLayer2(w)
                               \/ SuperConfirm(w) \/ Retry(w)
                               \/ \E o \in Order : \/ GateBlind(w, o)
                                                   \/ GateKilled(w, o)
                                                   \/ GateOrganic(w, o)
    <2>1. UNCHANGED <<db, hist>>
      BY <1>4, Zenon DEF Start, ConsumeNonce, AskLayer2, SuperConfirm, Retry,
                         GateBlind, GateKilled, GateOrganic
    <2> QED BY <1>2, <2>1 DEF hist
  <1>5. CASE \/ \E pr \in Process : Crash(pr)
             \/ \E co \in Company : PolicyChange(co)
             \/ Tick \/ UNCHANGED vars
    <2>1. UNCHANGED <<db, hist>>
      BY <1>5, Zenon DEF Crash, PolicyChange, Tick, vars
    <2> QED BY <1>2, <2>1 DEF hist
  <1> QED BY <1>1, <1>2, <1>3, <1>4, <1>5 DEF Next, Serve

\* The DID on an order is one of a token verified for it, and only sales carry
\* one, whatever is refused, aborted or run again on the way.
THEOREM DidsOnSales == Spec => []DidOnlyOnSales
  <1>1. Init => DidOnlyOnSales
    BY DEF Init, DidOnlyOnSales
  <1> QED BY <1>1, DidStep, EverythingChecked, Invariance, PTL DEF Spec
-----------------------------------------------------------------------------
(* Under strict no order leaves its gate without its token. *)

\* If the order has a token, the call has got its jti.
Paid(c, o) == TokenFor(c, o) # NoToken => TokenFor(c, o).jti \in c.redeem

(***************************************************************************)
(* A call of an existing quotation under a mode that has been strict all   *)
(* along: a gate in progress works with a strict snapshot, and an order is *)
(* paid for when its gate has come to the Layer-2 stage.                   *)
(***************************************************************************)
StrictOK(c, pol) ==
    (c.strict /\ c.op # "create") =>
        /\ Strict(pol[c.company])
        /\ c.stage \in {"consume", "layer2"} => c.snap.mode = "strict"
        /\ c.stage = "layer2" => Paid(c, c.order)
        /\ \A o \in c.batch : o \in c.todo \/ Paid(c, o)

Paying == \A w \in Worker : Busy(w) => StrictOK(call[w], policy)

\* A call goes on within its gates and leaves those of orders paid for.
LEMMA StrictAdvance ==
    ASSUME NEW c \in Call, NEW d \in Call, NEW pol, StrictOK(c, pol),
           d.op = c.op, d.company = c.company, d.ctx = c.ctx,
           d.batch = c.batch, d.strict = c.strict, c.redeem \subseteq d.redeem,
           (d.strict /\ d.op # "create") =>
             /\ d.stage \in {"consume", "layer2"} => d.snap.mode = "strict"
             /\ d.stage = "layer2" => Paid(d, d.order)
             /\ \A o \in c.batch : o \in c.todo => o \in d.todo \/ Paid(c, o)
    PROVE  StrictOK(d, pol)
  <1>1. \A o : Paid(c, o) => Paid(d, o)
    BY DEF Paid, TokenFor
  <1> QED BY <1>1 DEF StrictOK

\* Nothing that StrictOK speaks of has changed.
LEMMA StrictSame ==
    ASSUME NEW c \in Call, NEW d \in Call, NEW pol, StrictOK(c, pol),
           d.op = c.op, d.company = c.company, d.ctx = c.ctx,
           d.batch = c.batch, d.strict = c.strict, d.redeem = c.redeem,
           d.stage = c.stage, d.order = c.order, d.snap = c.snap, d.todo = c.todo
    PROVE  StrictOK(d, pol)
  BY DEF StrictOK, Paid, TokenFor

\* A new or re-run call.
LEMMA OpenedStrict ==
    ASSUME NEW op, NEW co, NEW x, NEW b, NEW n
    PROVE  StrictOK(Opened(op, co, x, b, n), policy)
  <1> DEFINE c == Opened(op, co, x, b, n)
  <1>1. /\ c.company = co /\ c.batch = b /\ c.todo = b /\ c.stage = "gate"
        /\ c.strict = Strict(policy[co])
    BY DEF Opened
  <1> HIDE DEF c
  <1>2. StrictOK(c, policy)
    BY <1>1 DEF StrictOK
  <1> QED BY <1>2 DEF c

LEMMA BecomePaying ==
    ASSUME CallsOK, Paying, NEW w \in Worker, NEW c, Become(w, c),
           UNCHANGED policy, StrictOK(c, policy)
    PROVE  Paying'
  <1>1. call'[w] = c /\ \A v \in Worker : v # w => call'[v] = call[v]
    BY DEF CallsOK, Become
  <1> QED BY <1>1 DEF Paying, Busy

LEMMA DropPaying ==
    ASSUME Paying, UNCHANGED policy, \A v \in Worker : call'[v] \in {call[v], Idle}
    PROVE  Paying'
  BY DEF Paying, Busy, Idle

LEMMA RefusePaying ==
    ASSUME CallsOK, Paying, NEW w \in Worker, Refuse(w), UNCHANGED policy
    PROVE  Paying'
  <1>1. \A v \in Worker : call'[v] \in {call[v], Idle}
    BY DEF CallsOK, Refuse
  <1> QED BY <1>1, DropPaying

LEMMA StartPaying ==
    ASSUME IInv, Paying, NEW w \in Worker, Start(w)
    PROVE  Paying'
  BY OpenedStrict, BecomePaying DEF IInv, Start

\* An order leaves its gate by call d.
LEMMA PassedPaying ==
    ASSUME IInv, Paying, NEW w \in Worker, Busy(w), NEW o, NEW d \in Call,
           Become(w, d), UNCHANGED policy,
           d.op = call[w].op, d.company = call[w].company, d.ctx = call[w].ctx,
           d.batch = call[w].batch, d.strict = call[w].strict,
           d.redeem = call[w].redeem,
           d.stage = "gate", d.todo = call[w].todo \ {o},
           (d.strict /\ d.op # "create") => Paid(call[w], o)
    PROVE  Paying'
  <1>1. call[w] \in Call /\ StrictOK(call[w], policy)
    BY BusyIsCall DEF IInv, Paying
  <1>2. StrictOK(d, policy)
    BY <1>1, StrictAdvance
  <1> QED BY <1>2, BecomePaying DEF IInv

\* Without a snapshot the mode has not been strict all along.
LEMMA GateBlindPaying ==
    ASSUME IInv, Paying, NEW w \in Worker, NEW o \in Order, GateBlind(w, o)
    PROVE  Paying'
  <1> DEFINE c == call[w]
             q == Passed(c, o)
             d == [q EXCEPT !.blind = TRUE]
  <1>1. Busy(w) /\ UNCHANGED policy /\ policy[c.company] = NoSnapshot
    BY DEF GateBlind, AtGate, Busy, env, Snapshot
  <1>2. c \in Call
    BY <1>1, BusyIsCall DEF IInv
  <1>3. ~(c.strict /\ c.op # "create")
    BY <1>1 DEF Paying, StrictOK, Strict
  <1>4. CASE Become(w, d)
    <2>1. /\ q \in Call /\ q.op = c.op /\ q.company = c.company /\ q.ctx = c.ctx
          /\ q.batch = c.batch /\ q.strict = c.strict /\ q.redeem = c.redeem
          /\ q.stage = "gate" /\ q.todo = c.todo \ {o}
      BY <1>2, PassedType, PassedFields
    <2> HIDE DEF q
    <2>2. /\ d \in Call /\ d.op = c.op /\ d.company = c.company /\ d.ctx = c.ctx
          /\ d.batch = c.batch /\ d.strict = c.strict /\ d.redeem = c.redeem
          /\ d.stage = "gate" /\ d.todo = c.todo \ {o}
      BY <2>1 DEF Call
    <2> HIDE DEF d
    <2> QED BY <1>1, <1>3, <1>4, <2>2, PassedPaying
  <1>5. CASE Refuse(w)
    BY <1>1, <1>5, RefusePaying DEF IInv
  <1> QED BY <1>4, <1>5 DEF GateBlind

\* The snapshot that a gate reads is strict, if all have been.
LEMMA GateIsStrict ==
    ASSUME IInv, Paying, NEW w \in Worker, Busy(w),
           call[w].strict, call[w].op # "create"
    PROVE  Snapshot(w).mode = "strict" /\ ~FallbackPasses(Snapshot(w))
  BY DEF Paying, StrictOK, Strict, Snapshot, FallbackPasses, FallbackMode

\* Without a token an order is paid for.
LEMMA GateOrganicPaying ==
    ASSUME IInv, Paying, NEW w \in Worker, NEW o \in Order, GateOrganic(w, o)
    PROVE  Paying'
  <1> DEFINE c == call[w]
             d == [c EXCEPT !.stage = "layer2", !.order = o, !.snap = Snapshot(w)]
  <1>1. Busy(w) /\ UNCHANGED policy /\ TokenFor(c, o) = NoToken
    BY DEF GateOrganic, AtGate, Busy, env
  <1>2. c \in Call /\ StrictOK(c, policy)
    BY <1>1, BusyIsCall DEF IInv, Paying
  <1>3. Snapshot(w) \in Policy
    BY <1>1, SnapshotType DEF IInv, GateOrganic, Enabled
  <1>4. CASE Become(w, d)
    <2>1. /\ d \in Call /\ d.op = c.op /\ d.company = c.company /\ d.ctx = c.ctx
          /\ d.batch = c.batch /\ d.strict = c.strict /\ d.redeem = c.redeem
          /\ d.stage = "layer2" /\ d.todo = c.todo /\ d.order = o
          /\ d.snap = Snapshot(w)
      BY <1>2, <1>3 DEF Call, Stage
    <2> HIDE DEF d
    <2>2. Paid(d, o)
      BY <1>1, <2>1 DEF Paid, TokenFor
    <2>3. StrictOK(d, policy)
      BY <1>1, <1>2, <2>1, <2>2, GateIsStrict, StrictAdvance
    <2> QED BY <1>1, <1>4, <2>3, BecomePaying DEF IInv
  <1>5. CASE c.op = "create" /\ Become(w, Passed(c, o))
    BY <1>1, <1>2, <1>5, PassedType, PassedFields, PassedPaying
  <1>6. CASE Refuse(w)
    BY <1>1, <1>6, RefusePaying DEF IInv
  <1> QED BY <1>4, <1>5, <1>6 DEF GateOrganic

\* Strict refuses when the verifier raises.
LEMMA GateTokenPaying ==
    ASSUME IInv, Paying, NEW w \in Worker, NEW o \in Order, GateToken(w, o)
    PROVE  Paying'
  <1> DEFINE c == call[w]
             t == TokenFor(c, o)
             p == Snapshot(w)
             v == Verdict(t, IntentFor(c, o, p), p.resolver, clock, nonces[ProcessOf[w]])
             own == IF v = "accept" THEN c.own \cup {<<KeyOf(t), o>>} ELSE c.own
             d1 == [Passed(c, o) EXCEPT !.own = own]
             d2 == [c EXCEPT !.stage = "consume", !.order = o, !.snap = p, !.own = own]
  <1>1. /\ AtGate(w, o) /\ Enabled(w) /\ t # NoToken
        /\ UNCHANGED <<env, consumed, db, redeemed>>
    BY Zenon DEF GateToken
  <1>2. \/ Refuse(w)
        \/ FallbackPasses(p) /\ Become(w, Passed(c, o))
        \/ c.op = "create" /\ Become(w, d1)
        \/ Become(w, d2)
    BY Zenon DEF GateToken
  <1>3. Busy(w) /\ UNCHANGED policy
    BY <1>1 DEF AtGate, Busy, env
  <1>4. c \in Call /\ StrictOK(c, policy)
    BY <1>3, BusyIsCall DEF IInv, Paying
  <1>5. p \in Policy /\ t \in Token
    BY <1>1, <1>3, <1>4, SnapshotType, TokenForType DEF IInv, Enabled
  <1>6. own \subseteq Key \X Order
    BY <1>4, <1>5, KeyOfType DEF Call
  <1>7. (c.strict /\ c.op # "create") => p.mode = "strict" /\ ~FallbackPasses(p)
    BY <1>3, GateIsStrict
  <1> HIDE DEF v, own, p
  <1>8. CASE Refuse(w)
    BY <1>3, <1>8, RefusePaying DEF IInv
  <1>9. CASE FallbackPasses(p) /\ Become(w, Passed(c, o))
    BY <1>3, <1>4, <1>7, <1>9, PassedType, PassedFields, PassedPaying
  <1>10. CASE c.op = "create" /\ Become(w, d1)
    <2>1. /\ d1 \in Call /\ d1.op = c.op /\ d1.company = c.company /\ d1.ctx = c.ctx
          /\ d1.batch = c.batch /\ d1.strict = c.strict /\ d1.redeem = c.redeem
          /\ d1.stage = "gate" /\ d1.todo = c.todo \ {o}
      BY <1>4, <1>6, PassedType, PassedFields DEF Call
    <2> HIDE DEF d1
    <2> QED BY <1>3, <1>10, <2>1, PassedPaying
  <1>11. CASE Become(w, d2)
    <2>1. /\ d2 \in Call /\ d2.op = c.op /\ d2.company = c.company /\ d2.ctx = c.ctx
          /\ d2.batch = c.batch /\ d2.strict = c.strict /\ d2.redeem = c.redeem
          /\ d2.stage = "consume" /\ d2.todo = c.todo /\ d2.snap = p
      BY <1>4, <1>5, <1>6 DEF Call, Stage
    <2> HIDE DEF d2
    <2>2. StrictOK(d2, policy)
      BY <1>4, <1>7, <2>1, StrictAdvance
    <2> QED BY <1>3, <1>11, <2>2, BecomePaying DEF IInv
  <1> QED BY <1>2, <1>8, <1>9, <1>10, <1>11

(***************************************************************************)
(* The Layer-2 stage is reached under strict by an ACCEPTED answer only.   *)
(***************************************************************************)
LEMMA ConsumeNoncePaying ==
    ASSUME IInv, Paying, NEW w \in Worker, ConsumeNonce(w)
    PROVE  Paying'
  <1> DEFINE c == call[w]
             o == c.order
             t == TokenFor(c, o)
             next == [c EXCEPT !.stage = "layer2"]
             n1 == [next EXCEPT !.redeem = @ \cup {t.jti}]
             n2 == [next EXCEPT !.replayed = TRUE]
  <1>1. /\ c.stage = "consume" /\ UNCHANGED <<env, nonces, db, hist>>
        /\ \/ Refuse(w) \/ Become(w, n1)
           \/ /\ FallbackPasses(c.snap) \/ c.snap.mode # "strict"
              /\ Become(w, next) \/ Become(w, n2)
    BY Zenon DEF ConsumeNonce
  <1>2. Busy(w) /\ UNCHANGED policy
    BY <1>1 DEF Busy, env
  <1>3. c \in Call /\ GateOK(c) /\ StrictOK(c, policy)
    BY <1>2, BusyIsCall DEF IInv, CallsOK, Paying
  <1>4. t.jti \in Jti /\ c.snap \in Policy
    <2>1. o \in Order /\ c.snap \in Policy /\ t # NoToken /\ t.jti # NoJti
      BY <1>1, <1>3 DEF GateOK
    <2>2. t \in Token
      BY <1>3, <2>1, TokenForType
    <2> QED BY <2>1, <2>2, TokenAssumption DEF TokenRecord
  <1> HIDE DEF t
  <1>5. /\ next \in Call /\ next.redeem = c.redeem /\ next.op = c.op
        /\ next.company = c.company /\ next.ctx = c.ctx /\ next.batch = c.batch
        /\ next.strict = c.strict /\ next.stage = "layer2"
        /\ next.todo = c.todo /\ next.order = o /\ next.snap = c.snap
    BY <1>3 DEF Call, Stage
  <1> HIDE DEF next
  <1>6. /\ n1 \in Call /\ n1.redeem = c.redeem \cup {t.jti} /\ n1.op = c.op
        /\ n1.company = c.company /\ n1.ctx = c.ctx /\ n1.batch = c.batch
        /\ n1.strict = c.strict /\ n1.stage = "layer2"
        /\ n1.todo = c.todo /\ n1.order = o /\ n1.snap = c.snap
    BY <1>4, <1>5 DEF Call
  <1>7. /\ n2 \in Call /\ n2.redeem = c.redeem /\ n2.op = c.op
        /\ n2.company = c.company /\ n2.ctx = c.ctx /\ n2.batch = c.batch
        /\ n2.strict = c.strict /\ n2.stage = "layer2"
        /\ n2.todo = c.todo /\ n2.order = o /\ n2.snap = c.snap
    BY <1>5 DEF Call
  <1> HIDE DEF n1, n2
  <1>8. CASE Become(w, n1)
    <2>1. Paid(n1, o)
      BY <1>6 DEF Paid, TokenFor, t
    <2>2. (c.strict /\ c.op # "create") => c.snap.mode = "strict"
      BY <1>1, <1>3 DEF StrictOK
    <2>3. StrictOK(n1, policy)
      BY <1>3, <1>6, <2>1, <2>2, StrictAdvance
    <2> QED BY <1>2, <1>8, <2>3, BecomePaying DEF IInv
  <1>9. ASSUME FallbackPasses(c.snap) \/ c.snap.mode # "strict",
               NEW n \in {next, n2}, Become(w, n)
        PROVE  Paying'
    <2>1. ~(c.strict /\ c.op # "create")
      <3>1. c.snap.mode # "strict"
        BY <1>4, <1>9, EnforcementAssumption DEF FallbackPasses, FallbackMode
      <3> QED BY <1>1, <1>3, <3>1 DEF StrictOK
    <2>2. StrictOK(n, policy)
      BY <1>5, <1>7, <2>1 DEF StrictOK
    <2> QED BY <1>2, <1>9, <2>2, BecomePaying DEF IInv
  <1>10. CASE Refuse(w)
    BY <1>2, <1>10, RefusePaying DEF IInv
  <1> QED BY <1>1, <1>8, <1>9, <1>10

LEMMA AskLayer2Paying ==
    ASSUME IInv, Paying, NEW w \in Worker, AskLayer2(w)
    PROVE  Paying'
  <1> DEFINE c == call[w]
             o == c.order
             t == TokenFor(c, o)
  <1>1. /\ c.stage = "layer2" /\ UNCHANGED <<env, nonces, consumed, db, hist>>
        /\ \/ Refuse(w)
           \/ \E d \in {Allowed(c, t), AllowedOffline(c, t)} : Become(w, d)
    BY AskLayer2Cases
  <1>2. Busy(w) /\ UNCHANGED policy
    BY <1>1 DEF Busy, env
  <1>3. c \in Call /\ GateOK(c) /\ StrictOK(c, policy)
    BY <1>2, BusyIsCall DEF IInv, CallsOK, Paying
  <1>4. o \in Order /\ t \in Token \cup {NoToken}
    BY <1>1, <1>3, TokenForType DEF GateOK
  <1>5. (c.strict /\ c.op # "create") => Paid(c, o)
    BY <1>1, <1>3 DEF StrictOK
  <1>6. CASE Refuse(w)
    BY <1>2, <1>6, RefusePaying DEF IInv
  <1>7. ASSUME NEW d \in {Allowed(c, t), AllowedOffline(c, t)}, Become(w, d)
        PROVE  Paying'
    <2>1. /\ d \in Call /\ d.stage = "gate" /\ d.batch = c.batch
          /\ d.redeem = c.redeem
          /\ d.op = c.op /\ d.company = c.company /\ d.ctx = c.ctx
          /\ d.strict = c.strict /\ d.todo = c.todo \ {o}
      BY <1>3, <1>4, AllowedType
    <2> QED BY <1>2, <1>5, <1>7, <2>1, PassedPaying
  <1> QED BY <1>1, <1>6, <1>7

\* The second round gates every order again.
LEMMA SuperConfirmPaying ==
    ASSUME IInv, Paying, NEW w \in Worker, SuperConfirm(w)
    PROVE  Paying'
  <1> DEFINE c == call[w]
             d == [c EXCEPT !.round = 2, !.todo = c.batch]
  <1>1. /\ c.stage = "gate" /\ UNCHANGED <<env, nonces, consumed, db, hist>>
        /\ Refuse(w) \/ Become(w, d)
    BY Zenon DEF SuperConfirm
  <1>2. Busy(w) /\ UNCHANGED policy
    BY <1>1 DEF Busy, env
  <1>3. c \in Call /\ StrictOK(c, policy)
    BY <1>2, BusyIsCall DEF IInv, Paying
  <1>4. CASE Become(w, d)
    <2>1. /\ d.op = c.op /\ d.company = c.company /\ d.strict = c.strict
          /\ d.batch = c.batch /\ d.stage = "gate" /\ d.todo = c.batch
      BY <1>1, <1>3 DEF Call
    <2> HIDE DEF d
    <2>2. StrictOK(d, policy)
      BY <1>3, <2>1 DEF StrictOK
    <2> QED BY <1>2, <1>4, <2>2, BecomePaying DEF IInv
  <1>5. CASE Refuse(w)
    BY <1>2, <1>5, RefusePaying DEF IInv
  <1> QED BY <1>1, <1>4, <1>5

LEMMA RetryPaying ==
    ASSUME IInv, Paying, NEW w \in Worker, Retry(w)
    PROVE  Paying'
  <1> DEFINE c == call[w]
             n == Opened(c.op, c.company, c.ctx, c.batch, c.tries + 1)
             d == [n EXCEPT !.own = c.own]
  <1>1. /\ UNCHANGED <<env, nonces, consumed, db, hist>>
        /\ Refuse(w) \/ Become(w, d)
    BY Zenon DEF Retry
  <1>2. UNCHANGED policy
    BY <1>1 DEF env
  <1>3. CASE Become(w, d)
    <2>1. /\ d.batch = c.batch /\ d.todo = c.batch /\ d.stage = "gate"
          /\ d.company = c.company /\ d.strict = Strict(policy[c.company])
      BY DEF Opened
    <2> HIDE DEF d
    <2>2. StrictOK(d, policy)
      BY <2>1 DEF StrictOK
    <2> QED BY <1>2, <1>3, <2>2, BecomePaying DEF IInv
  <1>4. CASE Refuse(w)
    BY <1>2, <1>4, RefusePaying DEF IInv
  <1> QED BY <1>1, <1>3, <1>4

LEMMA CommitPaying ==
    ASSUME IInv, Paying, NEW w \in Worker, Commit(w)
    PROVE  Paying'
  <1>1. UNCHANGED policy
    BY Zenon DEF Commit, env
  <1>2. ASSUME NEW v \in Worker, Busy(v)' PROVE StrictOK(call'[v], policy')
    <2>1. /\ Busy(v)
          /\ call'[v] = call[v] \/ call'[v] = [call[v] EXCEPT !.stale = TRUE]
      BY <1>2 DEF Commit, Busy, Idle
    <2>2. call[v] \in Call /\ StrictOK(call[v], policy)
      BY <2>1, BusyIsCall DEF IInv, Paying
    <2> DEFINE d == [call[v] EXCEPT !.stale = TRUE]
    <2>3. /\ d \in Call /\ d.op = call[v].op /\ d.company = call[v].company
          /\ d.ctx = call[v].ctx /\ d.batch = call[v].batch
          /\ d.strict = call[v].strict /\ d.redeem = call[v].redeem
          /\ d.stage = call[v].stage /\ d.order = call[v].order
          /\ d.snap = call[v].snap /\ d.todo = call[v].todo
      BY <2>2 DEF Call
    <2> HIDE DEF d
    <2>4. StrictOK(d, policy)
      BY <2>2, <2>3, StrictSame
    <2> QED BY <1>1, <2>1, <2>2, <2>4 DEF d
  <1> QED BY <1>2 DEF Paying

LEMMA PolicyChangePaying ==
    ASSUME IInv, Paying, NEW co \in Company, PolicyChange(co)
    PROVE  Paying'
  <1>1. PICK p \in Policy \cup {NoSnapshot} :
          /\ policy' = [policy EXCEPT ![co] = p]
          /\ call' = [w \in Worker |->
                IF ~Busy(w) \/ call[w].company # co THEN call[w]
                ELSE [call[w] EXCEPT
                        !.killed = @ /\ p # NoSnapshot /\ p.kill,
                        !.strict = @ /\ Strict(p),
                        !.blocked = @ \cap Blocks(p),
                        !.limited = @ \cap Limits(p)]]
    BY Zenon DEF PolicyChange
  <1>2. policy \in [Company -> Policy \cup {NoSnapshot}]
    BY DEF IInv, TypeOK
  <1>3. ASSUME NEW v \in Worker, Busy(v)' PROVE StrictOK(call'[v], policy')
    <2>1. Busy(v)
      BY <1>1, <1>3 DEF Busy
    <2>2. call[v] \in Call /\ StrictOK(call[v], policy)
      BY <2>1, BusyIsCall DEF IInv, Paying
    <2>3. CASE call[v].company # co
      <3>1. call'[v] = call[v] /\ policy'[call[v].company] = policy[call[v].company]
        BY <1>1, <1>2, <2>2, <2>3 DEF Call
      <3> QED BY <2>2, <3>1 DEF StrictOK
    <2>4. CASE call[v].company = co
      <3> DEFINE k == call[v].killed /\ p # NoSnapshot /\ p.kill
                 s == call[v].strict /\ Strict(p)
                 b == call[v].blocked \cap Blocks(p)
                 l == call[v].limited \cap Limits(p)
                 n == [call[v] EXCEPT !.killed = k, !.strict = s, !.blocked = b,
                                      !.limited = l]
      <3>1. call'[v] = n /\ policy'[co] = p
        BY <1>1, <1>2, <2>1, <2>4, Zenon
      <3>2. s => call[v].strict /\ Strict(p)
        OBVIOUS
      <3> HIDE DEF k, s, b, l
      <3>3. /\ n.op = call[v].op /\ n.company = call[v].company
            /\ n.ctx = call[v].ctx /\ n.batch = call[v].batch
            /\ n.strict = s /\ n.redeem = call[v].redeem
            /\ n.stage = call[v].stage /\ n.order = call[v].order
            /\ n.snap = call[v].snap /\ n.todo = call[v].todo
        BY <2>2 DEF Call
      <3> HIDE DEF n
      <3>4. StrictOK(n, policy')
        BY <2>2, <2>4, <3>1, <3>2, <3>3 DEF StrictOK, Paid, TokenFor
      <3> QED BY <3>1, <3>4
    <2> QED BY <2>3, <2>4
  <1> QED BY <1>3 DEF Paying

LEMMA NextPaying == ASSUME IInv, Paying, [Next]_vars PROVE Paying'
  <1>1. ASSUME NEW pr \in Process, Crash(pr) PROVE Paying'
    <2>1. UNCHANGED policy /\ \A v \in Worker : call'[v] \in {call[v], Idle}
      BY <1>1 DEF Crash
    <2> QED BY <2>1, DropPaying
  <1>2. ASSUME NEW w \in Worker, NEW o \in Order, GateKilled(w, o) PROVE Paying'
    BY <1>2, RefusePaying DEF GateKilled, env, IInv
  <1>3. CASE UNCHANGED <<call, policy>>
    BY <1>3 DEF Paying, Busy
  <1> QED BY <1>1, <1>2, <1>3, StartPaying, GateBlindPaying, GateOrganicPaying,
             GateTokenPaying, ConsumeNoncePaying, AskLayer2Paying,
             SuperConfirmPaying, RetryPaying, CommitPaying, PolicyChangePaying
          DEF Next, Serve, Tick, vars, env

(***************************************************************************)
(* What the gates of one call have taken for each other, kept by every     *)
(* step: a call that commits after the mode was strict throughout has got  *)
(* an ACCEPTED answer for the token of each of its orders.                 *)
(***************************************************************************)
THEOREM StrictTokensPaid == Spec => []Paying
  <1>1. Init => Paying
    BY DEF Init, Paying, Busy, Idle
  <1>2. IInv /\ Paying /\ [Next]_vars => Paying'
    BY NextPaying
  <1> QED BY <1>1, <1>2, Invariance, PTL DEF Spec

-----------------------------------------------------------------------------
(* Enforcement implements Redemption. *)

\* What a call needs are jtis, or the jti that is missing.
LEMMA NeedsType == ASSUME IInv PROVE Needs \in Sale!Demands
  <1>1. ASSUME NEW w \in Worker, Busy(w)
        PROVE  Needed(call[w]) \subseteq Jti \cup {NoJti}
    <2>1. call[w] \in Call /\ call[w].batch \subseteq Order
      BY <1>1, BusyIsCall, EnforcementAssumption DEF IInv, Call
    <2>2. \A o \in call[w].batch : TokenFor(call[w], o) # NoToken =>
             TokenFor(call[w], o).jti \in Jti \cup {NoJti}
      BY <2>1, TokenForType, TokenAssumption DEF TokenRecord
    <2> QED BY <2>2 DEF Needed
  <1>2. \A w \in Worker : Needs[w] \in SUBSET (Jti \cup {NoJti})
    BY <1>1 DEF Needs
  <1>3. Needs = [w \in Worker |-> Needs[w]]
    BY DEF Needs
  <1> QED BY <1>2, <1>3 DEF Sale!Demands

\* The initial states map to initial states.
LEMMA SaleInitially == Init => Sale!Init
  <1> SUFFICES ASSUME Init PROVE Sale!Init
    OBVIOUS
  <1>1. \A w \in Worker : ~Busy(w)
    BY DEF Init, Busy, Idle
  <1>2. Held = [w \in Worker |-> {}]
    BY <1>1 DEF Held
  <1>3. Spent = {} /\ consumed = {}
    BY DEF Init, Spent
  <1>4. /\ status \in [Order -> {"absent", "draft"}]
        /\ agentDid = [o \in Order |-> NoDid]
    BY EnforcementAssumption DEF Init
  <1>5. Needs \in Sale!Demands
    BY InitIInv, NeedsType
  <1> QED BY <1>2, <1>3, <1>4, <1>5 DEF Sale!Init

\* A step that sells nothing and takes nothing: some calls lose what they hold.
LEMMA LoseStep ==
    ASSUME UNCHANGED <<consumed, db, redeemed>>,
           \A w \in Worker : Held'[w] \in {Held[w], {}}
    PROVE  \E ws \in SUBSET Worker : Sale!Lose(ws)
  <1> DEFINE ws == {w \in Worker : Held'[w] = {}}
  <1>1. Held' = [w \in Worker |-> Held'[w]]
    BY DEF Held
  <1>2. Held' = [w \in Worker |-> IF w \in ws THEN {} ELSE Held[w]]
    BY <1>1
  <1>3. UNCHANGED Spent
    BY DEF Spent
  <1>4. UNCHANGED Sale!orders
    BY DEF Sale!orders, db
  <1>5. Sale!Lose(ws)
    BY <1>2, <1>3, <1>4 DEF Sale!Lose
  <1> QED BY <1>5

\* One worker goes on with the tokens it holds, or loses them.
LEMMA WorkerHolds ==
    ASSUME CallsOK, NEW w \in Worker, NEW c, Become(w, c),
           c.redeem = {} \/ (Busy(w) /\ c.redeem = call[w].redeem)
    PROVE  \A v \in Worker : Held'[v] \in {Held[v], {}}
  <1>1. call'[w] = c /\ \A v \in Worker : v # w => call'[v] = call[v]
    BY DEF CallsOK, Become
  <1> QED BY <1>1 DEF Held, Busy

LEMMA CallsEnd ==
    ASSUME \A v \in Worker : call'[v] \in {call[v], Idle}
    PROVE  \A v \in Worker : Held'[v] \in {Held[v], {}}
  BY DEF Held, Busy, Idle

LEMMA WorkerEnds ==
    ASSUME CallsOK, NEW w \in Worker, Refuse(w)
    PROVE  \A v \in Worker : Held'[v] \in {Held[v], {}}
  <1>1. \A v \in Worker : call'[v] \in {call[v], Idle}
    BY DEF CallsOK, Refuse
  <1> QED BY <1>1, CallsEnd

\* The gates before and after the consumption take nothing.
LEMMA GatesLose ==
    ASSUME IInv, NEW w \in Worker,
           \/ Start(w) \/ AskLayer2(w) \/ SuperConfirm(w) \/ Retry(w)
           \/ \E o \in Order : \/ GateBlind(w, o) \/ GateKilled(w, o)
                               \/ GateOrganic(w, o) \/ GateToken(w, o)
    PROVE  /\ UNCHANGED <<consumed, db, redeemed>>
           /\ \A v \in Worker : Held'[v] \in {Held[v], {}}
  <1> USE DEF IInv
  <1>1. ASSUME NEW c, Become(w, c),
               c.redeem = {} \/ (Busy(w) /\ c.redeem = call[w].redeem)
        PROVE  \A v \in Worker : Held'[v] \in {Held[v], {}}
    BY <1>1, WorkerHolds
  <1>2. Refuse(w) => \A v \in Worker : Held'[v] \in {Held[v], {}}
    BY WorkerEnds
  <1>3. CASE Start(w)
    <2>1. PICK op, co, x, b : Become(w, Opened(op, co, x, b, 1))
      BY <1>3 DEF Start
    <2>2. Opened(op, co, x, b, 1).redeem = {}
      BY DEF Opened
    <2> QED BY <1>1, <1>3, <2>1, <2>2 DEF Start, hist
  <1>4. CASE AskLayer2(w)
    <2> DEFINE c == call[w]
               t == TokenFor(c, c.order)
    <2>1. /\ c.stage = "layer2" /\ UNCHANGED <<env, nonces, consumed, db, hist>>
          /\ \/ Refuse(w)
             \/ \E d \in {Allowed(c, t), AllowedOffline(c, t)} : Become(w, d)
      BY <1>4, AskLayer2Cases
    <2>2. Busy(w) /\ c \in Call /\ GateOK(c)
      BY <2>1, BusyIsCall DEF Busy, CallsOK
    <2>3. c.order \in Order /\ t \in Token \cup {NoToken}
      BY <2>1, <2>2, TokenForType DEF GateOK
    <2>4. \A d \in {Allowed(c, t), AllowedOffline(c, t)} : d.redeem = c.redeem
      BY <2>2, <2>3, AllowedType
    <2> QED BY <1>1, <1>2, <2>1, <2>2, <2>4 DEF hist
  <1>5. CASE SuperConfirm(w)
    <2> DEFINE d == [call[w] EXCEPT !.round = 2, !.todo = call[w].batch]
    <2>1. /\ call[w].stage = "gate" /\ UNCHANGED <<env, nonces, consumed, db, hist>>
          /\ Refuse(w) \/ Become(w, d)
      BY <1>5, Zenon DEF SuperConfirm
    <2>2. Busy(w) /\ call[w] \in Call
      BY <2>1, BusyIsCall DEF Busy
    <2>3. d.redeem = call[w].redeem
      BY <2>2 DEF Call
    <2> QED BY <1>1, <1>2, <2>1, <2>2, <2>3 DEF hist
  <1>6. CASE Retry(w)
    <2> DEFINE c == call[w]
               d == [Opened(c.op, c.company, c.ctx, c.batch, c.tries + 1)
                       EXCEPT !.own = c.own]
    <2>1. /\ UNCHANGED <<env, nonces, consumed, db, hist>>
          /\ Refuse(w) \/ Become(w, d)
      BY <1>6, Zenon DEF Retry
    <2>2. d.redeem = {}
      BY DEF Opened
    <2> QED BY <1>1, <1>2, <2>1, <2>2 DEF hist
  <1>7. ASSUME NEW o \in Order, AtGate(w, o)
        PROVE  /\ Busy(w) /\ call[w] \in Call
               /\ Passed(call[w], o) \in Call
               /\ Passed(call[w], o).redeem = call[w].redeem
    BY <1>7, BusyIsCall, PassedType DEF AtGate, Busy
  <1>8. ASSUME NEW o \in Order, GateBlind(w, o) \/ GateKilled(w, o)
        PROVE  /\ UNCHANGED <<consumed, db, redeemed>>
               /\ \A v \in Worker : Held'[v] \in {Held[v], {}}
    <2> DEFINE d == [Passed(call[w], o) EXCEPT !.blind = TRUE]
    <2>1. /\ AtGate(w, o) /\ UNCHANGED <<env, nonces, consumed, db, hist>>
          /\ Refuse(w) \/ Become(w, d)
      BY <1>8, Zenon DEF GateBlind, GateKilled
    <2>2. d.redeem = call[w].redeem
      BY <1>7, <2>1 DEF Passed, Call
    <2> QED BY <1>1, <1>2, <1>7, <2>1, <2>2 DEF hist
  <1>9. ASSUME NEW o \in Order, GateOrganic(w, o)
        PROVE  /\ UNCHANGED <<consumed, db, redeemed>>
               /\ \A v \in Worker : Held'[v] \in {Held[v], {}}
    <2> DEFINE d == [call[w] EXCEPT !.stage = "layer2", !.order = o,
                                    !.snap = Snapshot(w)]
    <2>1. /\ AtGate(w, o) /\ UNCHANGED <<env, nonces, consumed, db, hist>>
          /\ Refuse(w) \/ Become(w, d) \/ Become(w, Passed(call[w], o))
      BY <1>9, Zenon DEF GateOrganic
    <2>2. d.redeem = call[w].redeem
      BY <1>7, <2>1 DEF Call
    <2> QED BY <1>1, <1>2, <1>7, <2>1, <2>2 DEF hist
  <1>10. ASSUME NEW o \in Order, GateToken(w, o)
         PROVE  /\ UNCHANGED <<consumed, db, redeemed>>
                /\ \A v \in Worker : Held'[v] \in {Held[v], {}}
    <2>1. /\ AtGate(w, o) /\ UNCHANGED <<env, consumed, db, redeemed>>
          /\ \/ Refuse(w) \/ Become(w, Passed(call[w], o))
             \/ \E own : \/ Become(w, [Passed(call[w], o) EXCEPT !.own = own])
                         \/ Become(w, [call[w] EXCEPT !.stage = "consume", !.order = o,
                                                  !.snap = Snapshot(w), !.own = own])
      BY <1>10, Zenon DEF GateToken
    <2>2. ASSUME NEW own
          PROVE  /\ [Passed(call[w], o) EXCEPT !.own = own].redeem = call[w].redeem
                 /\ [call[w] EXCEPT !.stage = "consume", !.order = o,
                                    !.snap = Snapshot(w), !.own = own].redeem
                      = call[w].redeem
      BY <1>7, <2>1 DEF Passed, Call
    <2> QED BY <1>1, <1>2, <1>7, <2>1, <2>2
  <1> QED BY <1>3, <1>4, <1>5, <1>6, <1>8, <1>9, <1>10 DEF GateKilled

(***************************************************************************)
(* The nonce-consume request takes the jti, if nobody has, and whatever    *)
(* the caller comes to know of it.                                         *)
(***************************************************************************)
LEMMA ConsumeTakes ==
    ASSUME IInv, NEW w \in Worker, ConsumeNonce(w)
    PROVE  \/ \E j \in Jti : Sale!Take(w, j)
           \/ \E ws \in SUBSET Worker : Sale!Lose(ws)
  <1> DEFINE c == call[w]
             t == TokenFor(c, c.order)
             j == t.jti
             next == [c EXCEPT !.stage = "layer2"]
             n1 == [next EXCEPT !.redeem = @ \cup {j}]
             n2 == [next EXCEPT !.replayed = TRUE]
  <1>1. c.stage = "consume" /\ UNCHANGED <<env, nonces, db, hist>>
    BY Zenon DEF ConsumeNonce
  <1>2. \/ /\ j \notin consumed /\ consumed' = consumed \cup {j}
           /\ Become(w, n1)
        \/ /\ consumed' = consumed \/ consumed' = consumed \cup {j}
           /\ Refuse(w) \/ Become(w, next) \/ Become(w, n2)
    BY Zenon DEF ConsumeNonce, Consumes
  <1>3. Busy(w) /\ c \in Call /\ GateOK(c)
    BY <1>1, BusyIsCall DEF Busy, IInv, CallsOK
  <1>4. j \in Jti
    <2>1. c.order \in Order /\ t # NoToken /\ t.jti # NoJti
      BY <1>1, <1>3 DEF GateOK
    <2>2. t \in Token
      BY <1>3, <2>1, TokenForType
    <2> QED BY <2>1, <2>2, TokenAssumption DEF TokenRecord
  <1> HIDE DEF j, t
  <1>5. /\ next.redeem = c.redeem /\ n2.redeem = c.redeem
        /\ n1.redeem = c.redeem \cup {j} /\ n1.stage = "layer2"
    BY <1>3 DEF Call
  <1> HIDE DEF next, n1, n2
  <1>6. /\ UNCHANGED <<Spent, Sale!orders>>
        /\ Held = [v \in Worker |-> Held[v]] /\ Held' = [v \in Worker |-> Held'[v]]
    BY <1>1 DEF Spent, Sale!orders, db, hist, Held
  <1>7. CASE /\ j \notin consumed /\ consumed' = consumed \cup {j}
             /\ Become(w, n1)
    <2>1. /\ call'[w] = n1 /\ \A v \in Worker : v # w => call'[v] = call[v]
      BY <1>7 DEF IInv, CallsOK, Become
    <2>2. Held' = [Held EXCEPT ![w] = @ \cup {j}]
      BY <1>3, <1>5, <2>1 DEF Held, Busy
    <2>3. Sale!Take(w, j)
      BY <1>6, <1>7, <2>2 DEF Sale!Take
    <2> QED BY <1>4, <2>3
  <1>8. CASE /\ consumed' = consumed \/ consumed' = consumed \cup {j}
             /\ Refuse(w) \/ Become(w, next) \/ Become(w, n2)
    <2>1. CASE Refuse(w)
      <3>1. /\ call'[w] = Idle /\ \A v \in Worker : v # w => call'[v] = call[v]
        BY <2>1 DEF IInv, CallsOK, Refuse
      <3>2. Held' = [Held EXCEPT ![w] = {}]
        <4>1. ~Busy(w)' /\ \A v \in Worker : v # w => (Busy(v)' <=> Busy(v))
          BY <3>1 DEF Busy, Idle
        <4>2. Held' = [v \in Worker |-> IF v = w THEN {} ELSE Held[v]]
          BY <3>1, <4>1 DEF Held
        <4> QED BY <1>6, <4>2
      <3>3. CASE j \notin consumed /\ consumed' = consumed \cup {j}
        <4>1. Sale!Take(w, j)
          BY <1>6, <3>2, <3>3 DEF Sale!Take
        <4> QED BY <1>4, <4>1
      <3>4. CASE consumed' = consumed
        BY <1>1, <2>1, <3>4, WorkerEnds, LoseStep DEF IInv, hist
      <3> QED BY <1>8, <3>3, <3>4
    <2>2. ASSUME NEW n \in {next, n2}, Become(w, n)
          PROVE  \/ \E i \in Jti : Sale!Take(w, i)
                 \/ \E ws \in SUBSET Worker : Sale!Lose(ws)
      <3>1. n.redeem = c.redeem
        BY <1>5
      <3>2. CASE j \notin consumed /\ consumed' = consumed \cup {j}
        <4>0. /\ call'[w] = n /\ \A v \in Worker : v # w => call'[v] = call[v]
          BY <2>2 DEF IInv, CallsOK, Become
        <4>1. n.stage = "layer2"
          BY <1>3 DEF Call, next, n2
        <4>2. Held' = Held
          BY <1>3, <3>1, <4>0, <4>1 DEF Held, Busy
        <4>3. Sale!Take(w, j)
          BY <1>6, <3>2, <4>2 DEF Sale!Take
        <4> QED BY <1>4, <4>3
      <3>3. CASE consumed' = consumed
        BY <1>1, <1>3, <2>2, <3>1, <3>3, WorkerHolds, LoseStep DEF IInv, hist
      <3> QED BY <1>8, <3>2, <3>3
    <2> QED BY <1>8, <2>1, <2>2
  <1> QED BY <1>2, <1>7, <1>8

\* A commit spends what the call holds, all that it needs among it, and changes
\* its own orders only.
LEMMA CommitSells ==
    ASSUME IInv, IInv', Checked, Paying, NEW w \in Worker, Commit(w)
    PROVE  \E os \in SUBSET Order : Sale!Sell(w, os)
  <1> DEFINE c == call[w]
  <1>1. /\ Cleared(w) /\ UNCHANGED consumed
        /\ status' = [o \in Order |-> IF o \in c.batch THEN "sale" ELSE status[o]]
        /\ agentDid' = [o \in Order |-> IF c.did[o] # NoDid THEN c.did[o]
                                        ELSE agentDid[o]]
        /\ redeemed' = [j \in Jti |-> redeemed[j] + IF j \in c.redeem THEN 1 ELSE 0]
    BY Zenon DEF Commit
  <1>2. Busy(w) /\ c \in Call /\ c.stage = "gate" /\ c.todo = {}
    BY <1>1, BusyIsCall DEF Cleared, Busy, IInv
  <1>3. c.batch \in SUBSET Order /\ c.redeem \subseteq Jti
    BY <1>2, EnforcementAssumption DEF Call
  <1>4. Needs[w] \subseteq Held[w]
    <2>1. StrictOK(c, policy)
      BY <1>2 DEF Paying
    <2>2. Needed(c) \subseteq c.redeem
      BY <1>2, <2>1 DEF Needed, StrictOK, Paid
    <2> QED BY <1>2, <2>2 DEF Needs, Held
  <1>5. Held[w] = c.redeem
    BY <1>2 DEF Held
  <1>6. Held[w] \cap Spent = {}
    BY <1>2, <1>5 DEF Spent, IInv, CallsOK
  <1>7. Spent' = Spent \cup Held[w]
    <2>1. ASSUME NEW j \in Jti
          PROVE  redeemed'[j] # 0 <=> redeemed[j] # 0 \/ j \in c.redeem
      <3>1. redeemed[j] \in Nat
        BY DEF IInv, TypeOK
      <3>2. redeemed'[j] = redeemed[j] + IF j \in c.redeem THEN 1 ELSE 0
        BY <1>1
      <3> QED BY <3>1, <3>2
    <2> QED BY <1>3, <1>5, <2>1 DEF Spent
  <1>8. Held' = [Held EXCEPT ![w] = {}]
    <2>1. ASSUME NEW v \in Worker PROVE Held'[v] = IF v = w THEN {} ELSE Held[v]
      <3>1. call'[v] = IF v = w THEN Idle
                       ELSE IF Busy(v) /\ Conflicts(c, call[v])
                            THEN [call[v] EXCEPT !.stale = TRUE] ELSE call[v]
        BY Zenon DEF Commit
      <3>2. CASE v = w
        BY <3>1, <3>2 DEF Held, Busy, Idle
      <3>3. CASE v # w /\ call'[v] = call[v]
        BY <3>3 DEF Held, Busy
      <3>4. CASE v # w /\ Busy(v) /\ call'[v] = [call[v] EXCEPT !.stale = TRUE]
        <4>1. call[v] \in Call
          BY <3>4, BusyIsCall DEF IInv
        <4>2. call'[v].redeem = call[v].redeem /\ call'[v].stage = call[v].stage
          BY <3>4, <4>1 DEF Call
        <4> QED BY <3>4, <4>2 DEF Held, Busy
      <3> QED BY <3>1, <3>2, <3>3, <3>4
    <2>2. /\ Held = [v \in Worker |-> Held[v]]
          /\ Held' = [v \in Worker |-> Held'[v]]
      BY DEF Held
    <2> QED BY <2>1, <2>2
  <1>9. agentDid' \in [Order -> Did \cup {NoDid}]
    BY DEF IInv, TypeOK
  <1>10. \A o \in Order \ c.batch : agentDid'[o] = agentDid[o]
    <2>1. DidOK(c, verified)
      BY <1>2 DEF Checked
    <2> QED BY <1>1, <2>1 DEF DidOK
  <1>11. Sale!Sell(w, c.batch)
    BY <1>1, <1>4, <1>6, <1>7, <1>8, <1>9, <1>10 DEF Sale!Sell
  <1> QED BY <1>3, <1>11

\* Every step maps to a step of Redemption.
LEMMA SaleStep ==
    IInv /\ Checked /\ Paying /\ [Next]_vars => [Sale!Next]_(Sale!vars)
  <1> SUFFICES ASSUME IInv, Checked, Paying, [Next]_vars
               PROVE  [Sale!Next]_(Sale!vars)
    OBVIOUS
  <1>1. IInv' /\ Needs' \in Sale!Demands
    <2>1. IInv'
      BY NextIInv
    <2>2. (Needs \in Sale!Demands)'
      BY <2>1, NeedsType, PTL
    <2>3. UNCHANGED Sale!Demands
      BY DEF Sale!Demands
    <2> QED BY <2>1, <2>2, <2>3
  <1>2. ASSUME UNCHANGED <<consumed, db, redeemed>>,
               \A v \in Worker : Held'[v] \in {Held[v], {}}
        PROVE  Sale!Next
    BY <1>1, <1>2, LoseStep DEF Sale!Next
  <1>3. ASSUME NEW w \in Worker,
               \/ Start(w) \/ AskLayer2(w) \/ SuperConfirm(w) \/ Retry(w)
               \/ \E o \in Order : \/ GateBlind(w, o) \/ GateKilled(w, o)
                                   \/ GateOrganic(w, o) \/ GateToken(w, o)
        PROVE  Sale!Next
    BY <1>2, <1>3, GatesLose
  <1>4. ASSUME NEW w \in Worker, ConsumeNonce(w) PROVE Sale!Next
    BY <1>1, <1>4, ConsumeTakes DEF Sale!Next
  <1>5. ASSUME NEW w \in Worker, Commit(w) PROVE Sale!Next
    BY <1>1, <1>5, CommitSells DEF Sale!Next
  <1>6. ASSUME NEW pr \in Process, Crash(pr) PROVE Sale!Next
    <2>1. /\ UNCHANGED <<consumed, db, redeemed>>
          /\ \A v \in Worker : call'[v] \in {call[v], Idle}
      BY <1>6 DEF Crash, hist
    <2> QED BY <1>2, <2>1, CallsEnd
  <1>7. ASSUME NEW co \in Company, PolicyChange(co) PROVE Sale!Next
    <2>1. UNCHANGED <<consumed, db, redeemed>>
      BY <1>7, Zenon DEF PolicyChange, hist
    <2>2. ASSUME NEW v \in Worker PROVE Held'[v] = Held[v]
      <3>1. CASE call'[v] = call[v]
        BY <3>1 DEF Held, Busy
      <3>2. CASE Busy(v) /\ call'[v] # call[v]
        <4>1. PICK k, s, b, l :
                call'[v] = [call[v] EXCEPT !.killed = k, !.strict = s,
                                           !.blocked = b, !.limited = l]
          <5>1. PICK p : call' = [u \in Worker |->
                  IF ~Busy(u) \/ call[u].company # co THEN call[u]
                  ELSE [call[u] EXCEPT
                          !.killed = @ /\ p # NoSnapshot /\ p.kill,
                          !.strict = @ /\ Strict(p),
                          !.blocked = @ \cap Blocks(p),
                          !.limited = @ \cap Limits(p)]]
            BY <1>7, Zenon DEF PolicyChange
          <5> QED BY <3>2, <5>1, Zenon
        <4>2. call[v] \in Call
          BY <3>2, BusyIsCall DEF IInv
        <4>3. call'[v].redeem = call[v].redeem /\ call'[v].stage = call[v].stage
          BY <4>1, <4>2 DEF Call
        <4> QED BY <3>2, <4>3 DEF Held, Busy
      <3>3. Busy(v) \/ call'[v] = call[v]
        BY <1>7, Zenon DEF PolicyChange
      <3> QED BY <3>1, <3>2, <3>3
    <2> QED BY <1>2, <2>1, <2>2
  <1>8. CASE Tick \/ UNCHANGED vars
    <2>1. UNCHANGED <<consumed, db, redeemed, call>>
      BY <1>8, Zenon DEF Tick, vars, hist
    <2> QED BY <1>2, <2>1, CallsEnd
  <1> QED BY <1>3, <1>4, <1>5, <1>6, <1>7, <1>8 DEF Next, Serve

(***************************************************************************)
(* Checkout enforcement implements Redemption: requests that may be lost,  *)
(* transactions that may be run again and processes that may die between   *)
(* the consumption of a token and the commit look like atomic sales.       *)
(***************************************************************************)
THEOREM Implementation == Spec => RedemptionRefined
  <1> QED BY SaleInitially, SaleStep, Invariance, EverythingChecked,
             StrictTokensPaid, PTL DEF Spec, RedemptionRefined, Sale!Spec
=============================================================================
