--------------------------- MODULE MCPolicyRestore ---------------------------
(***************************************************************************)
(* PolicyRestore with an anchor, two successors of which the first expires *)
(* early, and four policies.                                               *)
(***************************************************************************)
EXTENDS PolicyRestore

CONSTANTS k1, k2, ck, s1

MCTrust(keys) == [profile |-> "quorum", scope |-> s1, threshold |-> 1, keys |-> keys]
MCRoot(v, expires, keys) == [version |-> v, issued |-> 0, expires |-> expires, trust |-> MCTrust(keys)]
MCAnchor == MCRoot(1, 3, {k1})
MCMiddle == MCRoot(2, 1, {k2})
MCLast == MCRoot(3, 3, {k1, k2})

MCRotation(from, to) ==
  [predecessor |-> from, root |-> to, previous |-> from.trust.keys,
   replacement |-> to.trust.keys, forged |-> FALSE]
MCRotations == {MCRotation(MCAnchor, MCMiddle), MCRotation(MCMiddle, MCLast)}
MCPolicy(n) == [scope |-> s1, revision |-> n, issued |-> 0, expires |-> 2, keys |-> {ck}]
MCSigned(n, keys, k) ==
  [boundTo |-> MCTrust(keys), policy |-> MCPolicy(n), signers |-> {k}, forged |-> FALSE]
MCEnvelopes ==
  {MCSigned(1, {k1}, k1), MCSigned(2, {k1}, k1), MCSigned(2, {k2}, k2),
   MCSigned(3, {k1, k2}, k2), MCSigned(4, {k1, k2}, k1)}

MCTrusts == {MCTrust({k1})}
MCKey == {k1, k2, ck}
MCScope == {s1}
=============================================================================
