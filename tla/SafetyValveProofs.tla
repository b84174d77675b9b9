------------------------- MODULE SafetyValveProofs -------------------------
(***************************************************************************)
(* The offline safety valve, proved for every order, every list of rules   *)
(* and every point at which the extraction of the context may end.         *)
(***************************************************************************)
EXTENDS SafetyValve, TLAPS

\* The context holds nothing but what the order says.
CtxOK ==
    /\ ctx.total = order.total /\ ctx.items = order.items
    /\ ctx.ship \in {None, order.ship} /\ ctx.bill \in {None, order.bill}
    /\ ctx.qtys \in {{}, Full.qtys} /\ ctx.stored \in {None, Full.stored}
    /\ ctx.b2b => order.b2b
    /\ ctx.poBox => order.poBox
    /\ ctx.freight = FALSE /\ ctx.poHash = FALSE /\ ctx.regulated = FALSE

\* The loop: every rule tried so far has passed.
LoopOK ==
    /\ stage # "done" => hit = 0 /\ outcome = "pending"
    /\ stage \in Extraction \cup {"eval"} => HasTier2
    /\ stage \in Extraction \cup {"gate"} => next = 1
    /\ stage = "eval" => \A i \in 1..next - 1 : ~Fires(rules[i], ctx, hour)
    /\ hit # 0 => /\ outcome = "block" /\ Fires(rules[hit], ctx, hour)
                  /\ \A i \in 1..hit - 1 : ~Fires(rules[i], ctx, hour)
    /\ (stage = "done" /\ HasTier2 /\ hit = 0) =>
          \A i \in DOMAIN rules : ~Fires(rules[i], ctx, hour)

IInv == TypeOK /\ CtxOK /\ LoopOK

-----------------------------------------------------------------------------
LEMMA OrderType ==
    ASSUME order \in Order
    PROVE  /\ order.ship \in Country \cup {None}
           /\ order.bill \in Country \cup {None}
           /\ order.total \in Nat /\ order.items \in Nat
           /\ order.gift \in Nat /\ order.qtys \subseteq Nat
           /\ order.b2b \in BOOLEAN /\ order.poBox \in BOOLEAN
  BY ValveAssumption DEF OrderRecord

\* The context of an order nothing of which is lost.
LEMMA FullFields ==
    /\ Full.total = order.total /\ Full.items = order.items
    /\ Full.ship = order.ship /\ Full.bill = order.bill
    /\ Full.qtys = {Units(q) : q \in order.qtys}
    /\ Full.stored = IF order.gift > 0 THEN order.gift ELSE None
    /\ Full.b2b = order.b2b /\ Full.poBox = order.poBox
    /\ Full.freight = FALSE /\ Full.poHash = FALSE /\ Full.regulated = FALSE
  BY DEF Full, Bare

LEMMA FullType ==
    ASSUME order \in Order
    PROVE  Full.qtys \subseteq Nat /\ Full.stored \in Nat \cup {None}
  <1>1. \A q \in order.qtys : Units(q) \in Nat
    BY OrderType DEF Units
  <1>2. QED
    BY <1>1, OrderType, FullFields

LEMMA InitIInv == ASSUME Init PROVE IInv
  <1>1. PICK n \in 0..MaxRules : rules \in [1..n -> Rule]
    BY DEF Init
  <1>2. rules \in Seq(Rule) /\ Len(rules) = n /\ n \in Nat /\ n <= MaxRules
    BY <1>1, ValveAssumption
  <1>3. /\ order \in Order /\ stage = "gate" /\ ctx = Bare(order)
        /\ next = 1 /\ outcome = "pending" /\ hit = 0
        /\ strict \in BOOLEAN /\ hour \in Hour
    BY DEF Init
  <1>4. ctx \in Context
    BY <1>3, OrderType DEF Bare, Context
  <1>5. TypeOK
    BY <1>2, <1>3, <1>4 DEF TypeOK
  <1>6. CtxOK
    BY <1>3 DEF CtxOK, Bare
  <1>7. LoopOK
    BY <1>3 DEF LoopOK, Extraction
  <1>8. QED
    BY <1>5, <1>6, <1>7 DEF IInv

-----------------------------------------------------------------------------
\* A step of the extraction: a field more, or the end.
LEMMA ExtractStep ==
    ASSUME IInv, NEW from \in Extraction, NEW to \in Extraction \cup {"eval"},
           NEW c \in Context, stage = from, stage' = to, ctx' = c,
           UNCHANGED <<input, next, outcome, hit>>, CtxOK'
    PROVE  IInv'
  <1>1. TypeOK'
    BY DEF IInv, TypeOK, input
  <1>2. HasTier2' /\ next = 1 /\ hit = 0
    BY DEF IInv, LoopOK, Extraction, HasTier2, input
  <1>3. LoopOK'
    BY <1>2 DEF IInv, LoopOK, Extraction, input
  <1>4. QED
    BY <1>1, <1>3 DEF IInv

LEMMA NextIInv == ASSUME IInv, [Next]_vars PROVE IInv'
  <1> USE DEF IInv
  <1>1. /\ order \in Order /\ ctx \in Context /\ rules \in Seq(Rule)
        /\ Len(rules) \in Nat /\ next \in 1..Len(rules) + 1
    BY DEF TypeOK
  <1>2. CASE Gate
    <2>1. TypeOK'
      BY <1>2 DEF Gate, TypeOK, input, Extraction
    <2>2. CtxOK'
      BY <1>2 DEF Gate, CtxOK, Full, Bare, input
    <2>3. HasTier2' = HasTier2 /\ next' = 1 /\ hit' = 0
      BY <1>2 DEF Gate, HasTier2, LoopOK, input
    <2>4. LoopOK'
      BY <1>2, <2>3 DEF Gate, LoopOK, Extraction
    <2>5. QED
      BY <2>1, <2>2, <2>4
  <1>3. CASE ExtractShip
    <2> DEFINE c == [ctx EXCEPT !.ship = order.ship]
    <2>1. c \in Context
      BY <1>1, OrderType DEF Context
    <2>2. CtxOK'
      BY <1>1, <1>3 DEF ExtractShip, Extract, CtxOK, Context, Full, Bare, input
    <2>3. QED
      BY <1>3, <2>1, <2>2, ExtractStep DEF ExtractShip, Extract, Extraction
  <1>4. CASE ExtractBill
    <2> DEFINE c == [ctx EXCEPT !.bill = order.bill]
    <2>1. c \in Context
      BY <1>1, OrderType DEF Context
    <2>2. CtxOK'
      BY <1>1, <1>4 DEF ExtractBill, Extract, CtxOK, Context, Full, Bare, input
    <2>3. QED
      BY <1>4, <2>1, <2>2, ExtractStep DEF ExtractBill, Extract, Extraction
  <1>5. CASE ExtractLines
    <2> DEFINE c == [ctx EXCEPT !.qtys = Full.qtys, !.stored = Full.stored]
    <2>1. c \in Context
      BY <1>1, FullType DEF Context
    <2>2. ctx' = c /\ UNCHANGED order
      BY <1>5, FullFields DEF ExtractLines, Extract, input
    <2>3. Full' = Full
      BY <2>2 DEF Full, Bare
    <2>4. CtxOK'
      BY <1>1, <2>2, <2>3 DEF CtxOK, Context
    <2>5. QED
      BY <1>5, <2>1, <2>2, <2>4, ExtractStep DEF ExtractLines, Extract, Extraction
  <1>6. CASE ExtractB2b
    <2> DEFINE c == [ctx EXCEPT !.b2b = order.b2b]
    <2>1. c \in Context
      BY <1>1, OrderType DEF Context
    <2>2. CtxOK'
      BY <1>1, <1>6 DEF ExtractB2b, Extract, CtxOK, Context, Full, Bare, input
    <2>3. QED
      BY <1>6, <2>1, <2>2, ExtractStep DEF ExtractB2b, Extract, Extraction
  <1>7. CASE ExtractPoBox
    <2> DEFINE c == [ctx EXCEPT !.poBox = order.poBox]
    <2>1. c \in Context
      BY <1>1, OrderType DEF Context
    <2>2. CtxOK'
      BY <1>1, <1>7 DEF ExtractPoBox, Extract, CtxOK, Context, Full, Bare, input
    <2>3. QED
      BY <1>7, <2>1, <2>2, ExtractStep DEF ExtractPoBox, Extract, Extraction
  <1>8. CASE Raise
    <2>1. CtxOK'
      BY <1>8 DEF Raise, CtxOK, Full, Bare, input
    <2>2. QED
      BY <1>1, <1>8, <2>1, ExtractStep DEF Raise
  <1>9. CASE TryRule
    <2>1. /\ stage = "eval" /\ next \in 1..Len(rules) /\ UNCHANGED <<input, ctx>>
          /\ hit = 0 /\ outcome = "pending" /\ HasTier2
      BY <1>1, <1>9 DEF TryRule, LoopOK
    <2>2. CtxOK' /\ HasTier2'
      BY <2>1 DEF CtxOK, Full, Bare, HasTier2, input
    <2>3. CASE Fires(rules[next], ctx, hour)
      <3>1. /\ stage' = "done" /\ outcome' = "block" /\ hit' = next
            /\ UNCHANGED next
        BY <1>9, <2>3 DEF TryRule
      <3>2. TypeOK'
        BY <1>1, <2>1, <3>1 DEF TypeOK, input
      <3>3. LoopOK'
        BY <2>1, <2>3, <3>1 DEF LoopOK, Extraction, input
      <3>4. QED
        BY <2>2, <3>2, <3>3
    <2>4. CASE ~Fires(rules[next], ctx, hour)
      <3>1. next' = next + 1 /\ UNCHANGED <<stage, outcome, hit>>
        BY <1>9, <2>4 DEF TryRule
      <3>2. TypeOK'
        BY <1>1, <2>1, <3>1 DEF TypeOK, input
      <3>3. \A i \in 1..next' - 1 : i = next \/ i \in 1..next - 1
        BY <1>1, <3>1
      <3>4. LoopOK'
        BY <2>1, <2>2, <2>4, <3>1, <3>3 DEF LoopOK, Extraction, input
      <3>5. QED
        BY <2>2, <3>2, <3>4
    <2>5. QED
      BY <2>3, <2>4
  <1>10. CASE Conclude
    <2>1. /\ stage = "eval" /\ next = Len(rules) + 1 /\ hit = 0
          /\ stage' = "done" /\ UNCHANGED <<input, ctx, next, hit>>
          /\ outcome' \in {"timeout", "allow"}
      BY <1>1, <1>10 DEF Conclude, LoopOK
    <2>2. TypeOK' /\ CtxOK'
      BY <2>1 DEF TypeOK, CtxOK, Full, Bare, input
    <2>3. DOMAIN rules = 1..next - 1
      BY <1>1, <2>1
    <2>4. LoopOK'
      BY <2>1, <2>3 DEF LoopOK, Extraction, input
    <2>5. QED
      BY <2>2, <2>4
  <1>11. CASE UNCHANGED vars
    BY <1>11 DEF vars, input, TypeOK, CtxOK, LoopOK, Full, Bare, HasTier2
  <1>12. QED
    BY <1>2, <1>3, <1>4, <1>5, <1>6, <1>7, <1>8, <1>9, <1>10, <1>11 DEF Next

-----------------------------------------------------------------------------
\* The inductive invariant holds of every run.
THEOREM Invariance == Spec => []IInv
  <1>1. Init => IInv
    BY InitIInv
  <1>2. IInv /\ [Next]_vars => IInv'
    BY NextIInv
  <1>3. QED
    BY <1>1, <1>2, PTL DEF Spec

\* The gate's data keep their types, the loop its bounds.
THEOREM TypeCorrect == Spec => []TypeOK
  <1>1. IInv => TypeOK
    BY DEF IInv
  <1>2. QED
    BY <1>1, Invariance, PTL

\* The loop of evaluate() returns the first rule that fires, and only then none.
THEOREM FirstMatch == Spec => []FirstBlockerWins
  <1>1. IInv => FirstBlockerWins
    BY DEF IInv, LoopOK, FirstBlockerWins
  <1>2. QED
    BY <1>1, Invariance, PTL

-----------------------------------------------------------------------------
\* A rule that fires on what could be read of an order fires on all of it.
LEMMA FiresOnFull ==
    ASSUME IInv, NEW r \in Rule, Fires(r, ctx, hour),
           CountryOf(ctx) \in {None, CountryOf(Full)}
    PROVE  Fires(r, Full, hour)
  <1> DEFINE p == r.params
  <1>1. p \in ParamRecord
    BY ValveAssumption DEF RuleRecord
  <1>2. CtxOK /\ order \in Order
    BY DEF IInv, TypeOK
  <1>3. /\ None \notin HighRisk /\ None \notin p.highRisk
        /\ None \notin p.blocked
    BY <1>1, ValveAssumption DEF ParamRecord
  <1>4. CountryOf(ctx) # None => CountryOf(Full) = CountryOf(ctx)
    OBVIOUS
  <1>5. /\ ctx.total = Full.total /\ ctx.items = Full.items
        /\ ctx.qtys \subseteq Full.qtys
        /\ ctx.stored # None => ctx.stored = Full.stored
        /\ ctx.b2b => Full.b2b
        /\ ctx.poBox => Full.poBox
        /\ ctx.freight = FALSE /\ Full.freight = FALSE
        /\ Full.poHash = FALSE /\ Full.regulated = FALSE
        /\ ctx.poHash = FALSE /\ ctx.regulated = FALSE
    BY <1>2, FullFields DEF CtxOK
  <1>6. R014(p, ctx) => R014(p, Full)
    BY <1>3, <1>4 DEF R014
  <1>7. R018(p, ctx) => R018(p, Full)
    BY <1>5 DEF R018
  <1>8. R019(p, ctx) => R019(p, Full)
    BY <1>4 DEF R019
  <1>9. R025(p, ctx) => R025(p, Full)
    BY <1>5 DEF R025
  <1>10. R027(p, ctx) => R027(p, Full)
    BY <1>5 DEF R027
  <1>11. R028(p, ctx) => R028(p, Full)
    BY <1>5 DEF R028
  <1>12. R029(p, ctx) => R029(p, Full)
    BY <1>5 DEF R029
  <1>13. R030(p, ctx) => R030(p, Full)
    BY <1>4, <1>5 DEF R030
  <1> HIDE DEF p
  <1>14. QED
    BY <1>6, <1>7, <1>8, <1>9, <1>10, <1>11, <1>12, <1>13 DEF Fires, p

(***************************************************************************)
(* Whatever part of an order's context is lost, the valve blocks for       *)
(* nothing but what it would block for with the whole context, unless the  *)
(* loss of the billing country puts the shipping country in its place.     *)
(***************************************************************************)
THEOREM LossLoosens == Spec => []LostSignalsOnlyLoosen
  <1>1. ASSUME IInv, hit # 0, CountryOf(ctx) \in {None, CountryOf(Full)}
        PROVE  Fires(rules[hit], Full, hour)
    <2>1. hit \in DOMAIN rules /\ rules \in Seq(Rule)
      BY <1>1 DEF IInv, TypeOK
    <2>2. rules[hit] \in Rule
      BY <2>1
    <2>3. Fires(rules[hit], ctx, hour)
      BY <1>1 DEF IInv, LoopOK
    <2>4. QED
      BY <1>1, <2>2, <2>3, FiresOnFull
  <1>2. IInv => LostSignalsOnlyLoosen
    BY <1>1 DEF LostSignalsOnlyLoosen
  <1>3. QED
    BY <1>2, Invariance, PTL

\* An order that passes during an outage has passed every rule.
LEMMA PassedRules ==
    ASSUME IInv, outcome = "allow", HasTier2, NEW i \in DOMAIN rules
    PROVE  /\ ~Fires(rules[i], ctx, hour)
           /\ rules[i].params \in ParamRecord
  <1>1. hit = 0 /\ stage = "done"
    BY DEF IInv, LoopOK
  <1>2. rules[i] \in Rule
    BY DEF IInv, TypeOK
  <1>3. QED
    BY <1>1, <1>2, ValveAssumption DEF IInv, LoopOK, RuleRecord

(***************************************************************************)
(* Amount, spike and line-count limits survive every partial extraction:   *)
(* the context has both numbers before anything can raise.                 *)
(***************************************************************************)
THEOREM SizesHold == Spec => []SizeRulesHold
  <1>1. ASSUME IInv, outcome = "allow", HasTier2, NEW i \in DOMAIN rules,
               rules[i].enabled
        PROVE  LET r == rules[i]  p == r.params IN
               /\ (r.code = "R030" /\ p.amount # None) => order.total <= p.amount
               /\ (r.code = "R018" /\ p.items # None) => order.items <= p.items
               /\ (r.code = "R018" /\ p.avg \notin {None, 0}) =>
                     order.total <= p.mult * p.avg
    <2> DEFINE r == rules[i]
               p == r.params
    <2>1. ~Fires(r, ctx, hour) /\ p \in ParamRecord
      BY <1>1, PassedRules
    <2>2. /\ p.amount \in Nat \cup {None} /\ p.items \in Nat \cup {None}
          /\ p.avg \in Nat \cup {None} /\ p.mult \in Nat
      BY <2>1 DEF ParamRecord
    <2>3. order.total \in Nat /\ order.items \in Nat
      BY <1>1, OrderType DEF IInv, TypeOK
    <2>4. ctx.total = order.total /\ ctx.items = order.items
      BY <1>1 DEF IInv, CtxOK
    <2>5. r.code = "R030" => ~R030(p, ctx)
      BY <1>1, <2>1 DEF Fires
    <2>6. r.code = "R018" => ~R018(p, ctx)
      BY <1>1, <2>1 DEF Fires
    <2>7. p.avg \in Nat => p.mult * p.avg \in Nat
      BY <2>2
    <2> HIDE DEF r, p
    <2>8. (r.code = "R030" /\ p.amount # None) => order.total <= p.amount
      BY <2>2, <2>3, <2>4, <2>5 DEF R030
    <2>9. (r.code = "R018" /\ p.items # None) => order.items <= p.items
      BY <2>2, <2>3, <2>4, <2>6 DEF R018
    <2>10. ASSUME r.code = "R018", p.avg \notin {None, 0}
           PROVE  order.total <= p.mult * p.avg
      <3>1. p.avg > 0 /\ p.avg # None /\ p.mult * p.avg \in Nat
        BY <2>2, <2>7, <2>10
      <3>2. ~(order.total > p.mult * p.avg)
        BY <2>4, <2>6, <2>10, <3>1 DEF R018
      <3>3. QED
        BY <2>3, <3>1, <3>2
    <2>11. QED
      BY <2>8, <2>9, <2>10 DEF r, p
  <1>2. IInv => SizeRulesHold
    BY <1>1 DEF SizeRulesHold
  <1>3. QED
    BY <1>2, Invariance, PTL

-----------------------------------------------------------------------------
\* The comparison of hours in R020 is membership in a circular interval.
LEMMA OpenIsInterval ==
    ASSUME NEW s \in 0..24, NEW e \in 0..24, NEW h \in Hour, Open(s, e, h)
    PROVE  h \in HoursFrom(s, e)
  <1> DEFINE n == IF s <= e THEN e - s ELSE e + 24 - s
             k == IF h >= s THEN h - s ELSE h + 24 - s
  <1>1. n \in Int /\ k \in Int /\ 0 <= k /\ k < n
    BY DEF Open, Hour
  <1>2. k \in 0..n - 1
    BY <1>1
  <1>3. (s + k) % 24 = h
    <2>1. s \in Int /\ h \in Int
      BY DEF Hour
    <2>2. s + k = h \/ s + k = h + 24
      BY <2>1
    <2>3. h % 24 = h /\ (h + 24) % 24 = h
      BY DEF Hour
    <2>4. QED
      BY <2>2, <2>3
  <1> HIDE DEF n, k
  <1>4. QED
    BY <1>2, <1>3 DEF HoursFrom, n

\* During an outage no order passes outside the merchant's business hours.
THEOREM HoursHold == Spec => []OpenHoursRespected
  <1>1. ASSUME IInv, outcome = "allow", HasTier2, NEW i \in DOMAIN rules,
               rules[i].enabled, rules[i].code = "R020",
               None \notin {rules[i].params.start, rules[i].params.end,
                            rules[i].params.zone}
        PROVE  LET p == rules[i].params IN
               (hour + p.zone) % 24 \in HoursFrom(p.start, p.end)
    <2> DEFINE p == rules[i].params
    <2>1. ~Fires(rules[i], ctx, hour) /\ p \in ParamRecord
      BY <1>1, PassedRules
    <2>2. p.start \in 0..24 /\ p.end \in 0..24 /\ p.zone \in Hour
      BY <1>1, <2>1 DEF ParamRecord
    <2>3. hour \in Hour
      BY <1>1 DEF IInv, TypeOK
    <2>4. (hour + p.zone) % 24 \in Hour
      BY <2>2, <2>3 DEF Hour
    <2>5. ~R020(p, hour)
      BY <1>1, <2>1 DEF Fires
    <2>6. Open(p.start, p.end, (hour + p.zone) % 24)
      BY <1>1, <2>5 DEF R020
    <2> HIDE DEF p
    <2>7. QED
      BY <2>2, <2>4, <2>6, OpenIsInterval DEF p
  <1>2. IInv => OpenHoursRespected
    BY <1>1 DEF OpenHoursRespected
  <1>3. QED
    BY <1>2, Invariance, PTL
=============================================================================
