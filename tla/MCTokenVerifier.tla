-------------------------- MODULE MCTokenVerifier --------------------------
(***************************************************************************)
(* A small instance of TokenVerifier.  One time unit is a minute: the      *)
(* nonce lives for 5, a token is acceptable for at most 5 + 1 after iat.   *)
(***************************************************************************)
EXTENDS TokenVerifier

CONSTANTS alice, bob, n1, n2, short, lone, order, other, shop, j1, nojti,
          nan, inf, huge, k1, k2

MCDid == {alice, bob}
MCNonce == {n1, n2, short, lone}
MCIntent == {order, other} \X {shop}

\* alice's n1 and bob's n1 share a digest; n2 is used by alice's tokens only.
MCNonceKey == [p \in MCDid \X MCNonce |-> IF p[2] = n1 THEN k1 ELSE k2]

Good == [ text |-> TRUE, did |-> alice, iss |-> alice, wellFormed |-> TRUE,
          signed |-> TRUE, iat |-> 1, exp |-> 6, intent |-> <<order, shop>>,
          nonce |-> n1, jti |-> j1 ]

(***************************************************************************)
(* A good token; one of another agent with the same digest; and tokens     *)
(* that fail one check each (window, signature, nonce, iss, jti) or make   *)
(* the verifier raise: no string, a lone surrogate in the nonce, iat or    *)
(* exp that is too large, not a number or infinite.                        *)
(***************************************************************************)
MCToken ==
    { Good,
      [Good EXCEPT !.did = bob, !.iss = bob],
      [Good EXCEPT !.nonce = n2, !.iat = 0],
      [Good EXCEPT !.nonce = n2, !.iat = 0, !.exp = 7],
      [Good EXCEPT !.nonce = n2, !.signed = FALSE],
      [Good EXCEPT !.iss = bob, !.iat = 2],
      [Good EXCEPT !.nonce = n2, !.jti = nojti],
      [Good EXCEPT !.exp = nan, !.iat = 3],
      [Good EXCEPT !.exp = inf, !.iat = nan],
      [Good EXCEPT !.text = FALSE],
      [Good EXCEPT !.nonce = short],
      [Good EXCEPT !.nonce = lone],
      [Good EXCEPT !.iat = huge] }
=============================================================================
