-------------------------- MODULE MCTrusteedPanel --------------------------
(***************************************************************************)
(* A small instance of TrusteedPanel: the Trust Center is opened, left and *)
(* opened again, in a page with two companies.                             *)
(***************************************************************************)
EXTENDS TrusteedPanel

CONSTANTS p1, p2, acme, beta, nobody, m1, s1, prod, stage, unset, trust

\* The menu of the Trust Center names no section; the second context does,
\* with a name that the bundle does not know.
MCRequestedSection == [p \in Panel |-> IF p = p1 THEN unset ELSE "unknown"]

\* The user may lose the group; the active company stays allowed.
MCSessions == [user : {TRUE}, member : BOOLEAN, inCompany : {TRUE}]

\* The merchant moves from one API base to the other.
MCConfigurations == [merchant : {m1}, secret : {s1}, base : Base]

\* Enough to save the parameters once: the other order differs only by which
\* of the two bases is the bundle's default.
MCInit == Init /\ params.base = stage

MCSpec == MCInit /\ [][Next]_vars /\ Fairness

MCRegistered == {<<m1, s1>>}
=============================================================================
