------------------------- MODULE MCPolicyGovernance -------------------------
(***************************************************************************)
(* Documents for model-checking PolicyGovernance: an anchor that expires   *)
(* early, two competing successors of it, a third and a fourth root (the   *)
(* fourth exceeds the rotation limit), and for each root policies that are *)
(* complete, under-signed, forged, bound to another root, out of scope, or *)
(* different at the same revision.                                         *)
(***************************************************************************)
EXTENDS PolicyGovernance

CONSTANTS k1, k2, k3, ck, s1, s2, r1

MCKey == {k1, k2, k3, ck}
MCScope == {s1, s2}

Quorum(n, keys) == [profile |-> "quorum", scope |-> s1, threshold |-> n, keys |-> keys]
trustA == Quorum(2, {k1, k2})
trustB == Quorum(2, {k2, k3})
trustC == Quorum(1, {k3})
single == [profile |-> "single", scope |-> s1, threshold |-> 1, keys |-> {k1}]
MCTrusts == {single, trustA}

RootDoc(v, from, to, t) == [version |-> v, issued |-> from, expires |-> to, trust |-> t]
MCAnchor == RootDoc(1, 0, 2, trustA)
rootB == RootDoc(2, 1, 3, trustB)
rootC == RootDoc(2, 0, 4, trustC)
rootD == RootDoc(3, 1, 4, trustA)
rootE == RootDoc(4, 1, 4, trustA)

Rotate(from, to, by, and) ==
  [predecessor |-> from, root |-> to, previous |-> by, replacement |-> and, forged |-> FALSE]
toB == Rotate(MCAnchor, rootB, {k1, k2}, {k2, k3})
MCRotations ==
  { toB,
    Rotate(MCAnchor, rootC, {k1, k2}, {k3}),
    Rotate(MCAnchor, rootC, {k2}, {k3}),            \* previous quorum not met
    Rotate(rootB, rootD, {k2, k3}, {k1, k2}),
    Rotate(MCAnchor, rootD, {k1, k2}, {k1, k2}),    \* skips a version
    Rotate(rootD, rootE, {k1, k2}, {k1, k2}) }

Pol(n, from, to) == [scope |-> s1, revision |-> n, issued |-> from, expires |-> to, keys |-> {ck}]
Signed(t, p, by) == [boundTo |-> t, policy |-> p, signers |-> by, forged |-> FALSE]
MCEnvelopes ==
  { Signed(NoTrust, Pol(1, 0, 4), {k1}),
    Signed(trustA, Pol(1, 0, 4), {k1, k2}),
    Signed(trustA, Pol(2, 0, 2), {k1}),             \* quorum not met
    Signed(trustA, Pol(2, 0, 2), {k1, k2}),
    Signed(trustA, Pol(2, 0, 3), {k1, k2}),         \* same revision, other content
    Signed(trustB, Pol(2, 1, 4), {k2, k3}),
    Signed(trustB, Pol(3, 1, 4), {k2, k3}),
    Signed(trustC, Pol(3, 1, 3), {k3}),
    Signed(trustA, [Pol(4, 0, 4) EXCEPT !.scope = s2], {k1, k2}),
    [Signed(trustA, Pol(3, 0, 4), {k1, k2}) EXCEPT !.forged = TRUE],
    Signed(trustA, Pol(4, 1, 4), {k1, k2}),
    Signed(trustA, Pol(5, 1, 4), {k1, k2}) }
=============================================================================
