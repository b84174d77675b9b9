--------------------------- MODULE MCAgenticTools ---------------------------
(***************************************************************************)
(* A small instance of AgenticTools: two calls at the same time or one     *)
(* after the other, two admins.                                            *)
(***************************************************************************)
EXTENDS AgenticTools

CONSTANTS call1, call2, cart1, admin1, admin2
=============================================================================
