--------------------------- MODULE MCEnforcement ---------------------------
(***************************************************************************)
(* Small instances of Enforcement: two workers in two processes, an order  *)
(* with an agent token (oa), one without (oo), one that is created with a  *)
(* token (oc).                                                             *)
(***************************************************************************)
EXTENDS Enforcement, TLC

CONSTANTS oa, oo, oc, c1, m1, pend, w1, w2, p1, alice,
          na, nc, nx, ja, jc, nojti, nan, inf, huge, notoken, nodid, nosnap, noorder

MCOrder == {oa, oo, oc}
MCBatch == {{oa}, {oa, oo}, {oc}}
MCIntent == (MCOrder \cup {pend}) \X {m1}
MCNonce == {na, nc, nx}
MCNonceKey == [p \in {alice} \X MCNonce |-> p[2]]

Base == [ text |-> TRUE, did |-> alice, iss |-> alice, wellFormed |-> TRUE,
          signed |-> TRUE, iat |-> 1, exp |-> 3, intent |-> <<oa, m1>>,
          nonce |-> na, jti |-> ja ]
OnCreate == [Base EXCEPT !.intent = <<pend, m1>>, !.nonce = nc, !.jti = jc]
Raises   == [Base EXCEPT !.intent = <<oo, m1>>, !.nonce = nx, !.exp = nan]
JtiLess  == [Base EXCEPT !.intent = <<oo, m1>>, !.nonce = nx, !.jti = nojti]

MCToken == {Base, OnCreate, Raises, JtiLess}
MCTokenOn == [o \in MCOrder |->
                CASE o = oa -> Base [] o = oo -> notoken [] o = oc -> OnCreate]
MCCtxToken == {notoken, Raises, JtiLess}

\* Each worker in a process of its own, which bears its name: they are
\* interchangeable.
MCProcessOf == [w \in {w1, w2} |-> w]
Interchangeable == Permutations({w1, w2})
OneProcess == [w \in {w1} |-> p1]
MCConfigured == [c \in {c1} |-> "strict"]

Plain == [ merchant |-> m1, kill |-> FALSE, mode |-> "strict",
           creds |-> TRUE, tier2 |-> FALSE, resolver |-> {alice},
           blocks |-> {}, limits |-> {} ]

\* Under balanced, oa passes in an outage although it is to be blocked, and
\* oo, which is over a limit, does not.
MCPolicy ==
    { [Plain EXCEPT !.tier2 = TRUE, !.blocks = {oo}],
      [Plain EXCEPT !.mode = "balanced", !.tier2 = TRUE, !.blocks = {oa, oo},
                    !.limits = {oo}],
      [Plain EXCEPT !.mode = "balanced", !.kill = TRUE],
      [Plain EXCEPT !.creds = FALSE, !.mode = "permissive", !.tier2 = TRUE] }
\* The rules begin strict; the other policies come by a change.
MCInitPolicy == [{c1} -> {p \in MCPolicy : p.mode = "strict"}]
MCInitStatus == [o \in MCOrder |-> IF o = oc THEN "absent" ELSE "draft"]

\* One policy that lets everything through, for the documented claims.
OnePolicy == {[Plain EXCEPT !.mode = "balanced"]}
OneInitPolicy == [{c1} -> OnePolicy]

\* The snapshot cannot be had.
NoInitPolicy == [{c1} -> {nosnap}]
=============================================================================
