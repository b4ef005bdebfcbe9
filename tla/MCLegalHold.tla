---------------------------- MODULE MCLegalHold -----------------------------
(***************************************************************************)
(* Two holds and three pieces of evidence: on cases of their own, or all on *)
(* one case.                                                                *)
(***************************************************************************)
EXTENDS LegalHold

CONSTANTS h1, e1, e2, case1, case2

MCCaseOf == [h \in Hold |-> IF h = h1 THEN case1 ELSE case2]
MCHome == [e \in Evidence |-> IF e \in {e1, e2} THEN case1 ELSE case2]
=============================================================================
