--------------------------- MODULE MCSafetyValve ---------------------------
(* An instance of SafetyValve: orders and rules around every threshold. *)
EXTENDS SafetyValve

CONSTANTS es, kp

MCCountry  == {es, kp}
MCHighRisk == {kp}
MCTier2    == {"R003", "R014", "R018", "R019", "R020", "R025", "R027", "R028",
               "R029", "R030"}

Plain ==
    [ ship |-> es, bill |-> es, total |-> 2, items |-> 1, qtys |-> {2},
      gift |-> 0, b2b |-> FALSE, poBox |-> FALSE, po |-> FALSE ]

MCOrder ==
    { Plain,
      [Plain EXCEPT !.bill = None],
      [Plain EXCEPT !.ship = kp],
      [Plain EXCEPT !.ship = None, !.bill = None, !.total = 3],
      [Plain EXCEPT !.items = 2, !.qtys = {2, 5}],
      [Plain EXCEPT !.gift = 2, !.qtys = {6}],
      [Plain EXCEPT !.b2b = TRUE, !.po = TRUE],
      [Plain EXCEPT !.poBox = TRUE, !.bill = kp] }

Defaults ==
    [ highRisk |-> {}, blocked |-> {}, allowed |-> {},
      avg |-> None, items |-> None, qty |-> None, amount |-> None,
      mult |-> 5, stored |-> 0, start |-> None, end |-> None, zone |-> 0,
      poBox |-> TRUE, freight |-> TRUE, needPo |-> TRUE,
      preset |-> "equilibrado" ]

Plainly(code, p) ==
    [code |-> code, dotted |-> FALSE, enabled |-> TRUE, params |-> p]

R030Max == Plainly("R030", [Defaults EXCEPT !.amount = 2])

MCRule ==
    { Plainly("R003", Defaults),
      Plainly("R014", Defaults),
      Plainly("R018", [Defaults EXCEPT !.avg = 1, !.mult = 2, !.items = 1]),
      Plainly("R018", [Defaults EXCEPT !.qty = 2]),
      Plainly("R019", [Defaults EXCEPT !.blocked = {kp}]),
      Plainly("R019", [Defaults EXCEPT !.allowed = {es}]),
      Plainly("R020", [Defaults EXCEPT !.start = 9, !.end = 18]),
      Plainly("R020", [Defaults EXCEPT !.start = 22, !.end = 6, !.zone = 2]),
      Plainly("R020", [Defaults EXCEPT !.start = 8, !.end = 24, !.zone = None]),
      Plainly("R025", Defaults),
      Plainly("R027", [Defaults EXCEPT !.stored = 1]),
      Plainly("R028", Defaults),
      Plainly("R029", [Defaults EXCEPT !.preset = "regulado"]),
      Plainly("R029", [Defaults EXCEPT !.preset = "abierto"]),
      R030Max,
      [R030Max EXCEPT !.enabled = FALSE],
      [R030Max EXCEPT !.dotted = TRUE],
      Plainly("R030", [Defaults EXCEPT !.allowed = {es}]) }
=============================================================================
