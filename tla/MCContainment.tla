--------------------------- MODULE MCContainment ----------------------------
(***************************************************************************)
(* Three alerts: of the first an ordinary plan is made, of the second a     *)
(* failover without a backend, and the third is only observed.  Incident 9  *)
(* is planned by an operator, who accepts that evidence may be missing.     *)
(* Releases are executed in two shells, so that they can overlap, or in one *)
(* only, where nothing but a containment comes between check and release.   *)
(***************************************************************************)
EXTENDS Containment

MCAlert == 1..3
MCObserved == {3}
MCUnroutable == {2}
MCByHand == {9}
MCReleaser == {"r1", "r2"}
MCOneReleaser == {"r1"}
=============================================================================
