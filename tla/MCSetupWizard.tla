--------------------------- MODULE MCSetupWizard ---------------------------
(***************************************************************************)
(* A small instance of SetupWizard: two wizards and the Settings form, one *)
(* merchant whose secret s1 has been replaced by s2.                       *)
(***************************************************************************)
EXTENDS SetupWizard, TLC

CONSTANTS w1, w2, m1, s1, s2, prod, unsafe, unset, bad

MCRegistered == {<<m1, s2>>}

\* Nothing stored, the old secret, or a base that somebody wrote by hand.
MCStored ==
    { [merchant |-> unset, secret |-> unset, base |-> prod],
      [merchant |-> m1, secret |-> s1, base |-> prod],
      [merchant |-> m1, secret |-> s2, base |-> unsafe] }

MCSessions == [user : {TRUE}, member : BOOLEAN, inCompany : BOOLEAN]

Symmetric == Permutations(Wizard)
=============================================================================
