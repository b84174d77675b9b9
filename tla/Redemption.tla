----------------------------- MODULE Redemption -----------------------------
(***************************************************************************)
(* What checkout enforcement promises about single-use tokens, without     *)
(* gates, caches, requests and transactions: a buyer takes tokens, which   *)
(* nobody else can take afterwards, and makes a sale with them, or loses   *)
(* them.  A sale spends all its tokens at once, each for the only time,    *)
(* has every token it needs, and is the only thing that changes orders.    *)
(*                                                                         *)
(* Enforcement implements this specification.                              *)
(***************************************************************************)
CONSTANTS Order, Jti, NoJti, Buyer, Did, NoDid

VARIABLES
    taken,      \* the tokens that have been taken
    held,       \* held[b]: those that b has taken for its sale
    needs,      \* needs[b]: those that b's sale needs, as its rules have it
    spent,      \* those that a sale has been made with
    status,     \* status[o]: "absent", "draft" or "sale"
    did         \* did[o]: the agent an order was sold to

orders == <<status, did>>
vars   == <<taken, held, needs, spent, orders>>

\* What a buyer needs is not its own choice, and may change at any time.
Demands == [Buyer -> SUBSET (Jti \cup {NoJti})]

Init ==
    /\ taken = {} /\ spent = {}
    /\ held = [b \in Buyer |-> {}]
    /\ needs \in Demands
    /\ status \in [Order -> {"absent", "draft"}]
    /\ did = [o \in Order |-> NoDid]

\* A token is taken: its buyer holds it, does not come to know, or gives up.
Take(b, j) ==
    /\ j \notin taken
    /\ taken' = taken \cup {j}
    /\ held' \in { [held EXCEPT ![b] = @ \cup {j}], held,
                   [held EXCEPT ![b] = {}] }
    /\ UNCHANGED <<spent, orders>>

\* Buyers lose what they hold; with no buyer, only demands change.
Lose(bs) ==
    /\ UNCHANGED <<taken, spent, orders>>
    /\ held' = [b \in Buyer |-> IF b \in bs THEN {} ELSE held[b]]

\* Buyer b makes its sale of the orders os.
Sell(b, os) ==
    /\ needs[b] \subseteq held[b]
    /\ held[b] \cap spent = {}
    /\ spent' = spent \cup held[b]
    /\ held' = [held EXCEPT ![b] = {}]
    /\ status' = [o \in Order |-> IF o \in os THEN "sale" ELSE status[o]]
    /\ did' \in [Order -> Did \cup {NoDid}]
    /\ \A o \in Order \ os : did'[o] = did[o]
    /\ UNCHANGED taken

Next ==
    /\ needs' \in Demands
    /\ \/ \E bs \in SUBSET Buyer : Lose(bs)
       \/ \E b \in Buyer, j \in Jti : Take(b, j)
       \/ \E b \in Buyer, os \in SUBSET Order : Sell(b, os)

Spec == Init /\ [][Next]_vars
=============================================================================
