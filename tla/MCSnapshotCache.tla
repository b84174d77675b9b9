-------------------------- MODULE MCSnapshotCache --------------------------
(***************************************************************************)
(* A small instance of SnapshotCache: the cron and an order thread, two    *)
(* signing keys.                                                           *)
(***************************************************************************)
EXTENDS SnapshotCache

CONSTANTS cron, order, k1, k2, nokid

(***************************************************************************)
(* The liveness run keeps both threads and bounds the backend instead: it  *)
(* publishes k2 beside k1 once, and signs the next snapshot with k2.       *)
(***************************************************************************)
MCHandover ==
    /\ keys' # keys => keys' = {k1, k2}
    /\ cur' # cur => signer'[cur'] = k2

MCSpec == Init /\ keys = {k1} /\ [][Next /\ MCHandover]_vars /\ Fairness
=============================================================================
