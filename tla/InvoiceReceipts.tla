--------------------------- MODULE InvoiceReceipts ---------------------------
(***************************************************************************)
(* Trust receipts on invoices (models/account_move_jws.py): action_post    *)
(* posts a batch of account moves, then fetches and attaches a receipt for *)
(* each customer invoice and refund in it that has none.  Users post the   *)
(* same invoices at the same time, and reset posted ones to draft.         *)
(*                                                                         *)
(* A call is a transaction under REPEATABLE READ: it sees what was         *)
(* committed when it began.  Posting writes the row of each move, which    *)
(* waits for a transaction that has written it, and fails if that one      *)
(* commits; Odoo then runs the call again.  The requests for the receipts  *)
(* come after the write and before the commit.  The note in the chatter    *)
(* goes with the attachment, in the same transaction, and nothing reads    *)
(* it: it is left out.                                                     *)
(***************************************************************************)
CONSTANTS
    Move,        \* the account moves
    Customer,    \* those that are customer invoices or refunds
    Call         \* the calls of action_post

ASSUME MoveAssumption == Customer \subseteq Move

VARIABLES
    posted,      \* the moves that are posted, as committed
    receipts,    \* receipts[m]: the calls that attached one to m, as committed
    call         \* call[c]: a call of action_post

vars == <<posted, receipts, call>>

\* `left` are the moves whose receipts are still to be looked for, `made` those
\* that got one; `stale`: another transaction has committed a write to a move
\* of the batch since this one began.
PostCall ==
    [ stage : {"idle", "begun", "posting", "done", "refused", "failed"},
      batch : SUBSET Move, left : SUBSET Move, made : SUBSET Move,
      stale : BOOLEAN ]

\* A call at a stage in which it has no receipts to look for.
At(stage, batch) ==
    [stage |-> stage, batch |-> batch, left |-> {}, made |-> {}, stale |-> FALSE]

TypeOK ==
    /\ posted \in SUBSET Move
    /\ receipts \in [Move -> SUBSET Call]
    /\ \A m \in Move \ Customer : receipts[m] = {}
    /\ call \in [Call -> PostCall]

Init ==
    /\ posted = {}
    /\ receipts = [m \in Move |-> {}]
    /\ call = [c \in Call |-> At("idle", {})]

\* Another transaction has written move m and not yet ended.
Locked(m) == \E c \in Call : call[c].stage = "posting" /\ m \in call[c].batch

\* The calls as they stand after a transaction has committed the moves ms.
Outdated(ms) ==
    [c \in Call |->
        [call[c] EXCEPT !.stale = @ \/ (call[c].stage = "begun"
                                          /\ call[c].batch \cap ms # {})]]

(***************************************************************************)
(* A transaction begins; Odoo's action_post raises a UserError if a move   *)
(* of the batch is not a draft.                                            *)
(***************************************************************************)
Snapshot(c, batch) ==
    /\ call' = [call EXCEPT ![c] = IF batch \cap posted = {}
                                   THEN At("begun", batch) ELSE At("refused", {})]
    /\ UNCHANGED <<posted, receipts>>

Begin(c) ==
    /\ call[c].stage = "idle"
    /\ \E batch \in SUBSET Move \ {{}} : Snapshot(c, batch)

\* The write of super().action_post() meets a newer version of a row: the call
\* is run again.
Conflict(c) ==
    /\ call[c].stage = "begun" /\ call[c].stale
    /\ \A m \in call[c].batch : ~Locked(m)
    /\ Snapshot(c, call[c].batch)

\* Mutant of HasReceipts: vendor bills get a receipt, too.
AnyMove(ms) == ms

\* Those for which a receipt is looked for, by their move_type.
HasReceipts(ms) == ms \cap Customer

\* super().action_post() writes the rows.
SuperPost(c) ==
    /\ call[c].stage = "begun" /\ ~call[c].stale
    /\ \A m \in call[c].batch : ~Locked(m)
    /\ call' = [call EXCEPT ![c].stage = "posting",
                            ![c].left = HasReceipts(call[c].batch)]
    /\ UNCHANGED <<posted, receipts>>

\* What _fetch_jws_for_move returns: a receipt or None, which stands for every
\* error, time-out and missing configuration.
Fetched == {TRUE, FALSE}

\* Mutant of AttachReceipt: the existing attachment is not looked for.
AttachAlways(c) ==
    /\ call[c].stage = "posting"
    /\ \E m \in call[c].left, jws \in Fetched :
        call' = [call EXCEPT
                   ![c].left = @ \ {m},
                   ![c].made = IF jws THEN @ \cup {m} ELSE @]
    /\ UNCHANGED <<posted, receipts>>

\* Mutant of AttachReceipt: without a time-out the worker hangs in its request.
AttachUntimed(c) ==
    /\ call[c].stage = "posting"
    /\ \E m \in call[c].left, jws \in Fetched :
        call' = IF receipts[m] = {} /\ ~jws
                THEN [call EXCEPT ![c].stage = "hung"]
                ELSE [call EXCEPT
                        ![c].left = @ \ {m},
                        ![c].made = IF receipts[m] = {} THEN @ \cup {m} ELSE @]
    /\ UNCHANGED <<posted, receipts>>

(***************************************************************************)
(* _attach_trusteed_jws for one move: nothing is fetched if the            *)
(* transaction sees an attachment, and nothing raises out of it.           *)
(***************************************************************************)
AttachReceipt(c) ==
    /\ call[c].stage = "posting"
    /\ \E m \in call[c].left, jws \in Fetched :
        call' = [call EXCEPT
                   ![c].left = @ \ {m},
                   ![c].made = IF receipts[m] = {} /\ jws THEN @ \cup {m} ELSE @]
    /\ UNCHANGED <<posted, receipts>>

Commit(c) ==
    /\ call[c].stage = "posting" /\ call[c].left = {}
    /\ posted' = posted \cup call[c].batch
    /\ receipts' = [m \in Move |->
                      IF m \in call[c].made THEN receipts[m] \cup {c}
                      ELSE receipts[m]]
    /\ call' = [Outdated(call[c].batch) EXCEPT ![c] = At("done", {})]

\* The worker dies, or is killed by its time limit: all is rolled back.
Crash(c) ==
    /\ call[c].stage \in {"begun", "posting"}
    /\ call' = [call EXCEPT ![c] = At("failed", {})]
    /\ UNCHANGED <<posted, receipts>>

\* button_draft of another user: the attachment stays.
ResetToDraft(m) ==
    /\ m \in posted /\ ~Locked(m)
    /\ posted' = posted \ {m}
    /\ call' = Outdated({m})
    /\ UNCHANGED receipts

Proceed(c) == Conflict(c) \/ SuperPost(c) \/ AttachReceipt(c) \/ Commit(c)

Next ==
    \/ \E c \in Call : Begin(c) \/ Proceed(c) \/ Crash(c)
    \/ \E m \in Move : ResetToDraft(m)

\* A worker goes on with its call: every request has a time-out.
Fairness == \A c \in Call : WF_vars(Proceed(c))

Spec == Init /\ [][Next]_vars /\ Fairness

-----------------------------------------------------------------------------
(***************************************************************************)
(* A move has one receipt at most: although the test for an attachment and *)
(* its creation are apart, with requests in between, when two users post   *)
(* the same moves, in overlapping batches, or post them again after a      *)
(* reset to draft.                                                         *)
(***************************************************************************)
OneReceipt == \A m \in Move : \A c, d \in receipts[m] : c = d

(***************************************************************************)
(* Every posting ends, whatever the relay answers, also when it waits for  *)
(* another one to finish its requests or has to be run again.              *)
(***************************************************************************)
EveryPostEnds ==
    \A c \in Call :
        call[c].stage = "begun" ~> call[c].stage \in {"done", "refused", "failed"}
=============================================================================
