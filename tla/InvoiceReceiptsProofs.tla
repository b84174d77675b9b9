----------------------- MODULE InvoiceReceiptsProofs -----------------------
(***************************************************************************)
(* The types of InvoiceReceipts and the single receipt of a move, proved   *)
(* for every set of moves and every number of concurrent calls.            *)
(***************************************************************************)
EXTENDS InvoiceReceipts, TLAPS

(***************************************************************************)
(* Receipts are made only by a transaction that has written the moves and  *)
(* therefore holds their rows.  So no two such transactions share a move,  *)
(* and what one of them saw of a receipt is still so when it commits.      *)
(***************************************************************************)
Posting(c) == call[c].stage = "posting"

OnlyHolderMakes ==
    \A c \in Call :
        /\ call[c].left \cup call[c].made \subseteq call[c].batch \cap Customer
        /\ call[c].made # {} => Posting(c)

HoldersDisjoint ==
    \A c, d \in Call : (c # d /\ Posting(c) /\ Posting(d)) =>
        call[c].batch \cap call[d].batch = {}

SeenStillSo == \A c \in Call : \A m \in call[c].made : receipts[m] = {}

IInv == TypeOK /\ OnlyHolderMakes /\ HoldersDisjoint /\ SeenStillSo /\ OneReceipt

\* A call at a stage without receipts is one, and holds nothing.
LEMMA AtType ==
    ASSUME NEW s \in {"idle", "begun", "done", "refused", "failed"},
           NEW b \in SUBSET Move
    PROVE  /\ At(s, b) \in PostCall
           /\ At(s, b).stage = s /\ At(s, b).batch = b
           /\ At(s, b).left = {} /\ At(s, b).made = {}
  BY DEF At, PostCall

LEMMA InitIInv == Init => IInv
  <1> SUFFICES ASSUME Init PROVE IInv
    OBVIOUS
  <1>1. \A c \in Call : call[c] = At("idle", {})
    BY DEF Init
  <1>2. TypeOK
    BY AtType DEF Init, TypeOK
  <1>3. OnlyHolderMakes /\ HoldersDisjoint /\ SeenStillSo
    BY <1>1, AtType DEF OnlyHolderMakes, HoldersDisjoint, SeenStillSo, Posting
  <1>4. OneReceipt
    BY DEF Init, OneReceipt
  <1> QED BY <1>2, <1>3, <1>4 DEF IInv

(***************************************************************************)
(* Call c ends, begins or is run again: it holds nothing afterwards.  The  *)
(* others keep everything but their marks of being stale, and receipts are *)
(* added, if at all, to moves that nobody else holds.                      *)
(***************************************************************************)
LEMMA LetGo ==
    ASSUME IInv, NEW c \in Call, call' \in [Call -> PostCall],
           ~Posting(c)', call'[c].left = {}, call'[c].made = {},
           \A d \in Call \ {c} :
               /\ call'[d].stage = call[d].stage /\ call'[d].batch = call[d].batch
               /\ call'[d].left = call[d].left /\ call'[d].made = call[d].made,
           \A d \in Call \ {c} : \A m \in call[d].made : receipts'[m] = receipts[m]
    PROVE  OnlyHolderMakes' /\ HoldersDisjoint' /\ SeenStillSo'
  <1>1. OnlyHolderMakes'
    BY DEF IInv, OnlyHolderMakes, Posting
  <1>2. HoldersDisjoint'
    BY DEF IInv, HoldersDisjoint, Posting
  <1>3. SeenStillSo'
    BY DEF IInv, SeenStillSo
  <1> QED BY <1>1, <1>2, <1>3

LEMMA OutdatedCalls ==
    ASSUME TypeOK, NEW ms, NEW d \in Call
    PROVE  LET e == Outdated(ms)[d] IN
           /\ e \in PostCall
           /\ e.stage = call[d].stage /\ e.batch = call[d].batch
           /\ e.left = call[d].left /\ e.made = call[d].made
  <1> DEFINE s == call[d].stale \/ (call[d].stage = "begun"
                                     /\ call[d].batch \cap ms # {})
             e == [call[d] EXCEPT !.stale = s]
  <1>1. Outdated(ms)[d] = e
    BY DEF Outdated
  <1>2. call[d] \in PostCall
    BY DEF TypeOK
  <1>3. s \in BOOLEAN
    BY <1>2 DEF PostCall
  <1> HIDE DEF s
  <1>4. /\ e \in PostCall
        /\ e.stage = call[d].stage /\ e.batch = call[d].batch
        /\ e.left = call[d].left /\ e.made = call[d].made
    BY <1>2, <1>3 DEF PostCall
  <1> QED BY <1>1, <1>4

LEMMA SnapshotIInv ==
    ASSUME IInv, NEW c \in Call, NEW b \in SUBSET Move, Snapshot(c, b)
    PROVE  IInv'
  <1> DEFINE n == IF b \cap posted = {} THEN At("begun", b) ELSE At("refused", {})
  <1>1. call' = [call EXCEPT ![c] = n] /\ UNCHANGED <<posted, receipts>>
    BY DEF Snapshot
  <1>2. /\ n \in PostCall /\ n.stage # "posting"
        /\ n.left = {} /\ n.made = {}
    BY AtType
  <1> HIDE DEF n
  <1>3. TypeOK'
    BY <1>1, <1>2 DEF IInv, TypeOK
  <1>4. /\ call' \in [Call -> PostCall] /\ call'[c] = n
        /\ \A d \in Call \ {c} : call'[d] = call[d]
    BY <1>1, <1>2 DEF IInv, TypeOK
  <1>5. OnlyHolderMakes' /\ HoldersDisjoint' /\ SeenStillSo'
    BY <1>1, <1>2, <1>4, LetGo DEF Posting
  <1>6. OneReceipt'
    BY <1>1 DEF IInv, OneReceipt
  <1> QED BY <1>3, <1>5, <1>6 DEF IInv

\* The rows are written: no other transaction holds one of them.
LEMMA SuperPostIInv ==
    ASSUME IInv, NEW c \in Call, SuperPost(c)
    PROVE  IInv'
  <1> DEFINE l == HasReceipts(call[c].batch)
             n == [call[c] EXCEPT !.stage = "posting", !.left = l]
  <1>1. /\ call' = [call EXCEPT ![c] = n] /\ UNCHANGED <<posted, receipts>>
        /\ call[c].stage = "begun"
        /\ \A m \in call[c].batch : ~Locked(m)
    BY DEF SuperPost
  <1>2. /\ call[c] \in PostCall /\ call[c].made = {}
    BY <1>1 DEF IInv, TypeOK, OnlyHolderMakes, Posting
  <1>3. l = call[c].batch \cap Customer
    BY DEF HasReceipts
  <1>4. /\ n \in PostCall /\ n.stage = "posting" /\ n.batch = call[c].batch
        /\ n.left = l /\ n.made = {}
    BY <1>2, <1>3 DEF PostCall
  <1> HIDE DEF n, l
  <1>5. /\ call'[c] = n /\ \A d \in Call \ {c} : call'[d] = call[d]
    BY <1>1 DEF IInv, TypeOK
  <1>6. TypeOK'
    BY <1>1, <1>4 DEF IInv, TypeOK
  <1>7. OnlyHolderMakes' /\ SeenStillSo'
    BY <1>1, <1>3, <1>4, <1>5 DEF IInv, OnlyHolderMakes, SeenStillSo, Posting
  <1>8. HoldersDisjoint'
    <2>1. \A d \in Call : Posting(d) => call[d].batch \cap call[c].batch = {}
      BY <1>1 DEF Locked, Posting
    <2> QED BY <1>4, <1>5, <2>1 DEF IInv, HoldersDisjoint, Posting
  <1>9. OneReceipt'
    BY <1>1 DEF IInv, OneReceipt
  <1> QED BY <1>6, <1>7, <1>8, <1>9 DEF IInv

LEMMA AttachReceiptIInv ==
    ASSUME IInv, NEW c \in Call, AttachReceipt(c)
    PROVE  IInv'
  <1>1. PICK m \in call[c].left, jws \in Fetched :
          call' = [call EXCEPT
                     ![c].left = @ \ {m},
                     ![c].made = IF receipts[m] = {} /\ jws THEN @ \cup {m} ELSE @]
    BY DEF AttachReceipt
  <1>2. Posting(c) /\ UNCHANGED <<posted, receipts>>
    BY DEF AttachReceipt, Posting
  <1> DEFINE k == IF receipts[m] = {} /\ jws THEN call[c].made \cup {m}
                  ELSE call[c].made
             n == [call[c] EXCEPT !.left = @ \ {m}, !.made = k]
  <1>3. call[c] \in PostCall /\ m \in call[c].batch \cap Customer /\ m \in Move
    BY DEF IInv, TypeOK, OnlyHolderMakes, PostCall
  <1>4. /\ k \subseteq call[c].made \cup {m}
        /\ \A u \in k : u \in call[c].made \/ (u = m /\ receipts[m] = {})
    OBVIOUS
  <1>5. call' = [call EXCEPT ![c] = n]
    BY <1>1
  <1> HIDE DEF k
  <1>6. /\ n \in PostCall /\ n.stage = call[c].stage /\ n.batch = call[c].batch
        /\ n.left = call[c].left \ {m} /\ n.made = k
    BY <1>3, <1>4 DEF PostCall
  <1> HIDE DEF n
  <1>7. call'[c] = n /\ \A d \in Call \ {c} : call'[d] = call[d]
    BY <1>5 DEF IInv, TypeOK
  <1>8. TypeOK'
    BY <1>2, <1>5, <1>6 DEF IInv, TypeOK
  <1>9. OnlyHolderMakes'
    BY <1>2, <1>3, <1>4, <1>6, <1>7 DEF IInv, OnlyHolderMakes, Posting
  <1>10. HoldersDisjoint'
    BY <1>6, <1>7 DEF IInv, HoldersDisjoint, Posting
  <1>11. SeenStillSo'
    BY <1>2, <1>4, <1>6, <1>7 DEF IInv, SeenStillSo
  <1>12. OneReceipt'
    BY <1>2 DEF IInv, OneReceipt
  <1> QED BY <1>8, <1>9, <1>10, <1>11, <1>12 DEF IInv

\* The receipts a transaction commits go to moves that had none.
LEMMA CommitIInv ==
    ASSUME IInv, NEW c \in Call, Commit(c)
    PROVE  IInv'
  <1> DEFINE n == At("done", {})
             e == Outdated(call[c].batch)
  <1>1. /\ Posting(c) /\ posted' = posted \cup call[c].batch
        /\ receipts' = [m \in Move |-> IF m \in call[c].made
                                       THEN receipts[m] \cup {c} ELSE receipts[m]]
        /\ call' = [e EXCEPT ![c] = n]
    BY DEF Commit, Posting
  <1>2. TypeOK /\ call[c] \in PostCall
        /\ call[c].made \subseteq call[c].batch \cap Customer
    BY DEF IInv, TypeOK, OnlyHolderMakes
  <1>3. /\ n \in PostCall /\ n.stage = "done" /\ n.left = {} /\ n.made = {}
    BY AtType
  <1>4. e = [d \in Call |-> e[d]]
    BY DEF Outdated
  <1>5. \A d \in Call : /\ e[d] \in PostCall
                        /\ e[d].stage = call[d].stage /\ e[d].batch = call[d].batch
                        /\ e[d].left = call[d].left /\ e[d].made = call[d].made
    BY <1>2, OutdatedCalls
  <1> HIDE DEF n, e
  <1>6. /\ call' \in [Call -> PostCall] /\ call'[c] = n
        /\ \A d \in Call \ {c} : call'[d] = e[d]
    BY <1>1, <1>3, <1>4, <1>5
  <1>7. \A m \in Move : receipts'[m] = IF m \in call[c].made
                                       THEN receipts[m] \cup {c} ELSE receipts[m]
    BY <1>1
  <1>8. TypeOK'
    <2>1. posted' \in SUBSET Move
      BY <1>1, <1>2 DEF TypeOK, PostCall
    <2>2. receipts' \in [Move -> SUBSET Call]
      BY <1>1, <1>2 DEF TypeOK
    <2>3. \A m \in Move \ Customer : receipts'[m] = {}
      BY <1>2, <1>7 DEF TypeOK
    <2> QED BY <1>6, <2>1, <2>2, <2>3 DEF TypeOK
  <1>9. OnlyHolderMakes' /\ HoldersDisjoint' /\ SeenStillSo'
    <2>1. ASSUME NEW d \in Call \ {c}, NEW m \in call[d].made
          PROVE  receipts'[m] = receipts[m]
      <3>1. Posting(d) /\ m \in call[d].batch /\ m \in Move
        BY <2>1 DEF IInv, TypeOK, OnlyHolderMakes, PostCall
      <3>2. m \notin call[c].made
        BY <1>1, <1>2, <3>1 DEF IInv, HoldersDisjoint
      <3> QED BY <1>7, <3>1, <3>2
    <2> QED BY <1>3, <1>5, <1>6, <2>1, LetGo DEF Posting
  <1>10. OneReceipt'
    BY <1>7 DEF IInv, OneReceipt, SeenStillSo
  <1> QED BY <1>8, <1>9, <1>10 DEF IInv

LEMMA CrashIInv == ASSUME IInv, NEW c \in Call, Crash(c) PROVE IInv'
  <1> DEFINE n == At("failed", {})
  <1>1. call' = [call EXCEPT ![c] = n] /\ UNCHANGED <<posted, receipts>>
    BY DEF Crash
  <1>2. n \in PostCall /\ n.stage = "failed" /\ n.left = {} /\ n.made = {}
    BY AtType
  <1> HIDE DEF n
  <1>3. /\ call' \in [Call -> PostCall] /\ call'[c] = n
        /\ \A d \in Call \ {c} : call'[d] = call[d]
    BY <1>1, <1>2 DEF IInv, TypeOK
  <1>4. OnlyHolderMakes' /\ HoldersDisjoint' /\ SeenStillSo'
    BY <1>1, <1>2, <1>3, LetGo DEF Posting
  <1>5. TypeOK' /\ OneReceipt'
    BY <1>1, <1>3 DEF IInv, TypeOK, OneReceipt
  <1> QED BY <1>4, <1>5 DEF IInv

LEMMA ResetIInv == ASSUME IInv, NEW m \in Move, ResetToDraft(m) PROVE IInv'
  <1> DEFINE e == Outdated({m})
  <1>1. posted' = posted \ {m} /\ call' = e /\ UNCHANGED receipts
    BY DEF ResetToDraft
  <1>2. \A d \in Call : /\ e[d] \in PostCall
                        /\ e[d].stage = call[d].stage /\ e[d].batch = call[d].batch
                        /\ e[d].left = call[d].left /\ e[d].made = call[d].made
    BY OutdatedCalls DEF IInv
  <1>3. e = [d \in Call |-> e[d]]
    BY DEF Outdated
  <1> HIDE DEF e
  <1>4. TypeOK' /\ OneReceipt'
    BY <1>1, <1>2, <1>3 DEF IInv, TypeOK, OneReceipt
  <1>5. OnlyHolderMakes' /\ HoldersDisjoint' /\ SeenStillSo'
    BY <1>1, <1>2 DEF IInv, OnlyHolderMakes, HoldersDisjoint, SeenStillSo, Posting
  <1> QED BY <1>4, <1>5 DEF IInv

LEMMA NextIInv == IInv /\ [Next]_vars => IInv'
  <1> SUFFICES ASSUME IInv, [Next]_vars PROVE IInv'
    OBVIOUS
  <1>1. ASSUME NEW c \in Call, Begin(c) PROVE IInv'
    BY <1>1, SnapshotIInv DEF Begin
  <1>2. ASSUME NEW c \in Call, Conflict(c) PROVE IInv'
    <2>1. call[c].batch \in SUBSET Move
      BY DEF IInv, TypeOK, PostCall
    <2> QED BY <1>2, <2>1, SnapshotIInv DEF Conflict
  <1>3. CASE UNCHANGED vars
    BY <1>3 DEF vars, IInv, TypeOK, OnlyHolderMakes, HoldersDisjoint,
                SeenStillSo, OneReceipt, Posting
  <1> QED BY <1>1, <1>2, <1>3, SuperPostIInv, AttachReceiptIInv, CommitIInv,
             CrashIInv, ResetIInv DEF Next, Proceed

THEOREM Invariance == Spec => []IInv
  BY InitIInv, NextIInv, PTL DEF Spec

-----------------------------------------------------------------------------
\* The database and the calls stay well typed; a vendor bill gets no receipt.
THEOREM TypeCorrect == Spec => []TypeOK
  <1>1. IInv => TypeOK
    BY DEF IInv
  <1> QED BY <1>1, Invariance, PTL

(***************************************************************************)
(* A move has one receipt at most, however many users post it at once and  *)
(* however often it is reset to draft and posted again.                    *)
(***************************************************************************)
THEOREM SingleReceipt == Spec => []OneReceipt
  <1>1. IInv => OneReceipt
    BY DEF IInv
  <1> QED BY <1>1, Invariance, PTL
=============================================================================
