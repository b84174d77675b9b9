---------------------------- MODULE SafetyValve ----------------------------
(***************************************************************************)
(* The offline safety valve: models/offline_safety_valve_evaluator.py and  *)
(* its caller in models/sale_order_enforcement.py, which builds the order  *)
(* context (_trusteed_offline_context).  One behaviour is the gate of one  *)
(* order whose Layer-2 request went unanswered: the context is extracted   *)
(* field by field, any step of which may raise and end the extraction, and *)
(* the enabled rules of the snapshot are tried in their order.             *)
(* Enforcement sees of all this only whether a universal rule blocks.      *)
(***************************************************************************)
EXTENDS Integers, Sequences

CONSTANTS
    Country, None,      \* countries; a missing value
    HighRisk,           \* DEFAULT_HIGH_RISK_COUNTRIES
    Tier2,              \* tier2_codes, the rules that call for Layer 2
    Order,              \* the orders of this instance
    Rule,               \* the rules that snapshots may hold
    MaxRules            \* bound on the length of a snapshot's rules[]

Hour == 0..23

\* A sale order as it is, with the evidence that no field of it carries.
OrderRecord ==
    [ ship  : Country \cup {None}, bill : Country \cup {None},  \* partners'
      total : Nat, items : Nat,      \* amount in cents, number of lines
      qtys  : SUBSET Nat,            \* line quantities in half units
      gift  : Nat,                   \* cents of gift lines
      b2b   : BOOLEAN, poBox : BOOLEAN,
      po    : BOOLEAN ]              \* the token carries a purchaseOrderHash

\* Parameters of a rule, defaults filled in; a rule reads its own ones.
ParamRecord ==
    [ highRisk : SUBSET Country,          \* {} when absent
      blocked  : SUBSET Country, allowed : SUBSET Country,
      avg      : Nat \cup {None}, mult : Nat,
      items    : Nat \cup {None}, qty : Nat \cup {None},
      amount   : Nat \cup {None}, stored : Nat,
      start    : (0..24) \cup {None}, end : (0..24) \cup {None},
      zone     : Hour \cup {None},        \* UTC offset; None: unknown zone
      poBox    : BOOLEAN, freight : BOOLEAN, needPo : BOOLEAN,
      preset : {"abierto", "equilibrado", "regulado", "estricto"} ]

\* A `dotted` ruleCode is one like R030.simple-controls.
RuleRecord ==
    [code : STRING, dotted : BOOLEAN, enabled : BOOLEAN, params : ParamRecord]

ASSUME ValveAssumption ==
    /\ Order \subseteq OrderRecord /\ Rule \subseteq RuleRecord
    /\ None \notin Country /\ None \notin Int
    /\ HighRisk \subseteq Country /\ MaxRules \in Nat

VARIABLES
    order, rules, strict,   \* the order, rules[], fallbackMode = "strict"
    hour,       \* the hour in UTC
    stage,      \* where the gate is
    ctx,        \* order_context and cart_attributes
    next,       \* index of the rule to be tried
    outcome,    \* what the gate decides
    hit         \* index of the rule that blocks, 0 if none

input == <<order, rules, strict, hour>>
vars  == <<input, stage, ctx, next, outcome, hit>>

\* No step provides freight, poHash, regulated or the merchant's hour.
Context ==
    [ total : Nat, items : Nat,
      ship  : Country \cup {None}, bill : Country \cup {None},
      qtys  : SUBSET Nat, stored : Nat \cup {None},
      b2b   : BOOLEAN, poBox : BOOLEAN, freight : BOOLEAN,
      poHash : BOOLEAN, regulated : BOOLEAN ]

Extraction == {"ship", "bill", "lines", "b2b", "poBox"}

TypeOK ==
    /\ order \in Order /\ rules \in Seq(Rule) /\ Len(rules) <= MaxRules
    /\ strict \in BOOLEAN /\ hour \in Hour
    /\ stage \in Extraction \cup {"gate", "eval", "done"}
    /\ ctx \in Context
    /\ next \in 1..Len(rules) + 1
    /\ outcome \in {"pending", "block", "timeout", "allow"}
    /\ hit \in 0..Len(rules)

\* The context before the try block: amount and line count.
Bare(o) ==
    [ total |-> o.total, items |-> o.items, ship |-> None, bill |-> None,
      qtys |-> {}, stored |-> None, b2b |-> FALSE, poBox |-> FALSE,
      freight |-> FALSE, poHash |-> FALSE, regulated |-> FALSE ]

\* int() cuts a fractional quantity off.
Units(q) == q \div 2

Init ==
    /\ order \in Order
    /\ rules \in UNION {[1..n -> Rule] : n \in 0..MaxRules}
    /\ strict \in BOOLEAN /\ hour \in Hour
    /\ stage = "gate"
    /\ ctx = Bare(order)
    /\ next = 1 /\ outcome = "pending" /\ hit = 0

-----------------------------------------------------------------------------
(* The evaluators: TRUE when the rule gives a reason to block. *)

CountryOf(c) == IF c.bill # None THEN c.bill ELSE c.ship

R014(p, c) ==
    CountryOf(c) \in IF p.highRisk = {} THEN HighRisk ELSE p.highRisk

R018(p, c) ==
    \/ p.avg # None /\ p.avg > 0 /\ c.total > p.mult * p.avg
    \/ p.items # None /\ c.items > p.items
    \/ p.qty # None /\ \E q \in c.qtys : q > p.qty

R019(p, c) ==
    /\ CountryOf(c) # None
    /\ \/ CountryOf(c) \in p.blocked
       \/ p.allowed # {} /\ CountryOf(c) \notin p.allowed

\* Mutant of Open: the closing hour is open.
OpenTooLong(start, end, h) ==
    IF start <= end THEN start <= h /\ h <= end ELSE h >= start \/ h <= end

\* Business hours; from 22 to 6 they span midnight.
Open(start, end, h) ==
    IF start <= end THEN start <= h /\ h < end ELSE h >= start \/ h < end

R020(p, h) ==
    /\ None \notin {p.start, p.end, p.zone}
    /\ ~Open(p.start, p.end, (h + p.zone) % 24)

R025(p, c) == (p.poBox /\ c.poBox) \/ (p.freight /\ c.freight)

R027(p, c) == c.stored # None /\ c.stored > p.stored

R028(p, c) == p.needPo /\ c.b2b /\ ~c.poHash

R029(p, c) ==
    \/ p.preset = "regulado" /\ ~c.regulated
    \/ p.preset = "estricto"

R030(p, c) ==
    \/ p.amount # None /\ c.total > p.amount
    \/ CountryOf(c) # None /\ p.allowed # {} /\ CountryOf(c) \notin p.allowed

\* _DISPATCH: a rule without an evaluator here never fires.
Fires(r, c, h) ==
    /\ r.enabled
    /\ \/ r.code = "R014" /\ R014(r.params, c)
       \/ r.code = "R018" /\ R018(r.params, c)
       \/ r.code = "R019" /\ R019(r.params, c)
       \/ r.code = "R020" /\ R020(r.params, h)
       \/ r.code = "R025" /\ R025(r.params, c)
       \/ r.code = "R027" /\ R027(r.params, c)
       \/ r.code = "R028" /\ R028(r.params, c)
       \/ r.code = "R029" /\ R029(r.params, c)
       \/ r.code = "R030" /\ R030(r.params, c)

-----------------------------------------------------------------------------
(***************************************************************************)
(* has_tier2 compares whole rule codes, while the evaluator shortens them: *)
(* a dotted code is known to the evaluator but does not lead to it.        *)
(***************************************************************************)
HasTier2 ==
    \E i \in DOMAIN rules :
        rules[i].enabled /\ ~rules[i].dotted /\ rules[i].code \in Tier2

\* Layer 2 is not called for, or it is called and does not answer.
Gate ==
    /\ stage = "gate"
    /\ IF HasTier2 THEN stage' = "ship" /\ UNCHANGED outcome
       ELSE stage' = "done" /\ outcome' = "allow"
    /\ UNCHANGED <<input, ctx, next, hit>>

Extract(from, to, c) ==
    /\ stage = from /\ stage' = to
    /\ ctx' = c
    /\ UNCHANGED <<input, next, outcome, hit>>

ExtractShip == Extract("ship", "bill", [ctx EXCEPT !.ship = order.ship])

ExtractBill == Extract("bill", "lines", [ctx EXCEPT !.bill = order.bill])

ExtractLines ==
    Extract("lines", "b2b",
            [ctx EXCEPT !.qtys = {Units(q) : q \in order.qtys},
                        !.stored = IF order.gift > 0 THEN order.gift ELSE None])

ExtractB2b == Extract("b2b", "poBox", [ctx EXCEPT !.b2b = order.b2b])

ExtractPoBox == Extract("poBox", "eval", [ctx EXCEPT !.poBox = order.poBox])

\* Mutant of Raise: the handler starts again from an empty context.
RaiseEmpty ==
    /\ stage \in Extraction
    /\ stage' = "eval"
    /\ ctx' = [Bare(order) EXCEPT !.total = 0, !.items = 0]
    /\ UNCHANGED <<input, next, outcome, hit>>

\* Mutant of Raise: what could not be read is assumed.
RaiseSuspicious ==
    /\ stage \in Extraction
    /\ stage' = "eval"
    /\ ctx' = [ctx EXCEPT !.poBox = TRUE]
    /\ UNCHANGED <<input, next, outcome, hit>>

\* A field cannot be read: the extraction ends with what it has got.
Raise ==
    /\ stage \in Extraction
    /\ stage' = "eval"
    /\ UNCHANGED <<input, ctx, next, outcome, hit>>

\* Mutant of TryRule: the rule after one that passes is left out.
TryRuleByTwo ==
    /\ stage = "eval" /\ next <= Len(rules)
    /\ next' = next + 2
    /\ UNCHANGED <<input, ctx, stage, outcome, hit>>

\* Mutant of TryRule: the last rule that fires wins.
TryRuleLast ==
    /\ stage = "eval" /\ next <= Len(rules)
    /\ next' = next + 1
    /\ hit' = IF Fires(rules[next], ctx, hour) THEN next ELSE hit
    /\ IF next = Len(rules) /\ hit' # 0
       THEN stage' = "done" /\ outcome' = "block"
       ELSE UNCHANGED <<stage, outcome>>
    /\ UNCHANGED <<input, ctx>>

\* One turn of the loop of evaluate().
TryRule ==
    /\ stage = "eval" /\ next <= Len(rules)
    /\ IF Fires(rules[next], ctx, hour)
       THEN /\ stage' = "done" /\ outcome' = "block" /\ hit' = next
            /\ UNCHANGED next
       ELSE /\ next' = next + 1
            /\ UNCHANGED <<stage, outcome, hit>>
    /\ UNCHANGED <<input, ctx>>

\* No rule blocks: the fallback mode decides.
Conclude ==
    /\ stage = "eval" /\ next > Len(rules)
    /\ stage' = "done"
    /\ outcome' = IF strict THEN "timeout" ELSE "allow"
    /\ UNCHANGED <<input, ctx, next, hit>>

Next ==
    \/ Gate
    \/ ExtractShip \/ ExtractBill \/ ExtractLines \/ ExtractB2b \/ ExtractPoBox
    \/ Raise
    \/ TryRule
    \/ Conclude

Spec == Init /\ [][Next]_vars

-----------------------------------------------------------------------------
(***************************************************************************)
(* evaluate() returns the first rule of the snapshot that fires on the     *)
(* context the gate ended up with, and none only if no rule does.          *)
(***************************************************************************)
FirstBlockerWins ==
    (stage = "done" /\ HasTier2) =>
        IF hit = 0 THEN \A i \in DOMAIN rules : ~Fires(rules[i], ctx, hour)
        ELSE /\ outcome = "block"
             /\ Fires(rules[hit], ctx, hour)
             /\ \A i \in 1..hit - 1 : ~Fires(rules[i], ctx, hour)

\* The context when no step of the extraction raises.
Full ==
    [Bare(order) EXCEPT
        !.ship = order.ship, !.bill = order.bill,
        !.qtys = {Units(q) : q \in order.qtys},
        !.stored = IF order.gift > 0 THEN order.gift ELSE None,
        !.b2b = order.b2b, !.poBox = order.poBox]

(***************************************************************************)
(* A field that cannot be read never makes the valve block: the rule that  *)
(* blocks would block on the full context, too.  The exception is the      *)
(* country: with the billing country lost, the shipping country decides.   *)
(***************************************************************************)
LostSignalsOnlyLoosen ==
    (hit # 0 /\ CountryOf(ctx) \in {None, CountryOf(Full)}) =>
        Fires(rules[hit], Full, hour)

(***************************************************************************)
(* An order over the merchant's maximum amount, spike limit or number of   *)
(* lines does not pass during an outage, however little of its context can *)
(* be read.                                                                *)
(***************************************************************************)
SizeRulesHold ==
    (outcome = "allow" /\ HasTier2) =>
        \A i \in DOMAIN rules :
            LET r == rules[i]  p == r.params IN
            r.enabled =>
                /\ (r.code = "R030" /\ p.amount # None) => order.total <= p.amount
                /\ (r.code = "R018" /\ p.items # None) => order.items <= p.items
                /\ (r.code = "R018" /\ p.avg \notin {None, 0}) =>
                      order.total <= p.mult * p.avg

\* The hours from start to end, walking forward through midnight.
HoursFrom(start, end) ==
    {(start + k) % 24 : k \in 0..(IF start <= end THEN end - start
                                  ELSE end + 24 - start) - 1}

(***************************************************************************)
(* During an outage no order passes outside the merchant's business hours, *)
(* also where they span midnight or end with the day.                      *)
(***************************************************************************)
OpenHoursRespected ==
    (outcome = "allow" /\ HasTier2) =>
        \A i \in DOMAIN rules :
            LET p == rules[i].params IN
            (/\ rules[i].enabled /\ rules[i].code = "R020"
             /\ None \notin {p.start, p.end, p.zone}) =>
                 (hour + p.zone) % 24 \in HoursFrom(p.start, p.end)

-----------------------------------------------------------------------------
(***************************************************************************)
(* "The offline evaluator already treats missing signal as no match, never *)
(* as a block": a business order whose agent token carries the hash of the *)
(* purchase order is not blocked for want of one.  The code reads the hash *)
(* for the Layer-2 request only.                                           *)
(***************************************************************************)
MissingSignalNeverBlocks ==
    (hit # 0 /\ rules[hit].code = "R028") => ~order.po
=============================================================================
