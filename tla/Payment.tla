------------------------------- MODULE Payment -------------------------------
(***************************************************************************)
(* What the agentic tools promise to those who pay by them, without        *)
(* requests, retries and time-outs: a call that owes a cart is refused at  *)
(* once or opened; a cart is taken one payment, for a call that was opened *)
(* and has not succeeded; a call that owes it succeeds only when it is     *)
(* paid for.  A call that was told of a failure may still be paid for:     *)
(* that is what its idempotency key is for.                                *)
(*                                                                         *)
(* AgenticTools implements this specification.                             *)
(***************************************************************************)
CONSTANTS Call, Cart, Receipt

VARIABLES
    owes,    \* owes[i]: the carts that call i is to pay for, one or none
    state,   \* state[i]: how call i stands
    taken    \* taken[c]: the receipts of the payments for cart c

vars == <<owes, state, taken>>

Init ==
    /\ owes \in [Call -> {{}} \cup {{c} : c \in Cart}]
    /\ state = [i \in Call |-> "idle"]
    /\ taken = [c \in Cart |-> {}]

Begin(i) ==
    /\ state[i] = "idle"
    /\ \E s \in {"open", "refused"} : state' = [state EXCEPT ![i] = s]
    /\ UNCHANGED <<owes, taken>>

\* A payment for call i is taken, and perhaps the call ends by it.
Take(i) ==
    /\ state[i] \in {"open", "failed"}
    /\ \E c \in owes[i], r \in Receipt :
        /\ taken[c] = {}
        /\ taken' = [taken EXCEPT ![c] = {r}]
    /\ \/ UNCHANGED state
       \/ /\ state[i] = "open"
          /\ \E s \in {"ok", "failed"} : state' = [state EXCEPT ![i] = s]
    /\ UNCHANGED owes

\* Call i ends, with success only if what it owes is paid for.
End(i) ==
    /\ state[i] = "open"
    /\ \/ /\ \A c \in owes[i] : taken[c] # {}
          /\ state' = [state EXCEPT ![i] = "ok"]
       \/ state' = [state EXCEPT ![i] = "failed"]
    /\ UNCHANGED <<owes, taken>>

Next == \E i \in Call : Begin(i) \/ Take(i) \/ End(i)

Spec == Init /\ [][Next]_vars
=============================================================================
