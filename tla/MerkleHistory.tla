---------------------------- MODULE MerkleHistory ----------------------------
(***************************************************************************)
(* The history trees of private logs (v17_merkle.py): roots, inclusion and  *)
(* consistency proofs, and how they are verified.  SHA-256 is modelled by   *)
(* what is hashed, so that different inputs have different digests.         *)
(*                                                                          *)
(* A subtree is the n leaves that follow the first lo ones.  An index, and  *)
(* the size of an older tree, is given for the whole tree: in the subtree   *)
(* it is less by lo.  What an older root covers is known as long as nothing *)
(* is to the left, so that lo = 0 is what the code calls known.  One leaf   *)
(* is never cut.                                                            *)
(*                                                                          *)
(* A proof lists siblings bottom-up.  The verifiers of the code consume it  *)
(* from an iterator while a recursion returns; here the number k of the     *)
(* nodes that are left for the levels below is an argument instead, and a   *)
(* node that is missing or left over leads to NoDigest.                     *)
(***************************************************************************)
EXTENDS Naturals, Sequences

LeafHash(x) == [leaf |-> x]
Node(left, right) == [left |-> left, right |-> right]
EmptyRoot == [leaves |-> 0]
NoDigest == [digest |-> FALSE]
Joined(left, right) ==
  IF left = NoDigest \/ right = NoDigest THEN NoDigest ELSE Node(left, right)

MaxLeaves == 65536   \* MAX_LEAVES
MaxProofNodes == 17  \* MAX_PROOF_NODES
Leaves == 1..MaxLeaves

(* The largest power of two below n, of n > 1.                              *)
PowersOfTwo ==
  {1, 2, 4, 8, 16, 32, 64, 128, 256, 512, 1024, 2048, 4096, 8192, 16384, 32768}
Split(n) == CHOOSE c \in PowersOfTwo : c < n /\ n <= 2 * c

(* The root over n leaves that follow the first lo ones.                    *)
SubRoot(s, from, size) ==
  LET roots[n \in Leaves] ==
        [lo \in Nat |->
          IF n = 1 THEN LeafHash(s[lo + 1])
          ELSE Node(roots[Split(n)][lo], roots[n - Split(n)][lo + Split(n)])]
  IN  IF size = 0 THEN EmptyRoot ELSE roots[size][from]

Root(s) == SubRoot(s, 0, Len(s))

(* Mutant: the first leaf of the right half is looked for in the left one.  *)
InclusionProofOffByOne(s, index) ==
  LET path[n \in Leaves] ==
        [lo \in Nat |->
          IF n = 1 THEN <<>>
          ELSE LET cut == Split(n)
               IN  IF index <= lo + cut
                   THEN Append(path[cut][lo], SubRoot(s, lo + cut, n - cut))
                   ELSE Append(path[n - cut][lo + cut], SubRoot(s, lo, cut))]
  IN  path[Len(s)][0]

InclusionProof(s, index) ==
  LET path[n \in Leaves] ==
        [lo \in Nat |->
          IF n = 1 THEN <<>>
          ELSE LET cut == Split(n)
               IN  IF index < lo + cut
                   THEN Append(path[cut][lo], SubRoot(s, lo + cut, n - cut))
                   ELSE Append(path[n - cut][lo + cut], SubRoot(s, lo, cut))]
  IN  path[Len(s)][0]

VerifyInclusion(x, index, size, proof, root) ==
  LET rebuilt[n \in Leaves] ==
        [lo \in Nat |-> [k \in Nat |->
          IF n = 1 THEN IF k = 0 THEN LeafHash(x) ELSE NoDigest
          ELSE IF k = 0 THEN NoDigest
          ELSE LET cut == Split(n)
               IN  IF index < lo + cut
                   THEN Joined(rebuilt[cut][lo][k - 1], proof[k])
                   ELSE Joined(proof[k], rebuilt[n - cut][lo + cut][k - 1])]]
  IN  Len(proof) <= MaxProofNodes /\ rebuilt[size][0][Len(proof)] = root

ConsistencyProof(s, old) ==
  LET path[n \in Leaves] ==
        [lo \in Nat |->
          IF old = lo + n \/ n = 1 THEN IF lo = 0 THEN <<>> ELSE <<SubRoot(s, lo, n)>>
          ELSE LET cut == Split(n)
               IN  IF old <= lo + cut
                   THEN Append(path[cut][lo], SubRoot(s, lo + cut, n - cut))
                   ELSE Append(path[n - cut][lo + cut], SubRoot(s, lo, cut))]
  IN  IF old \in {0, Len(s)} THEN <<>> ELSE path[Len(s)][0]

(* Mutant: only the new root is compared.                                   *)
VerifyConsistencyNew(old, new, oldRoot, newRoot, proof) ==
  LET rebuilt[n \in Leaves] ==
        [lo \in Nat |-> [k \in Nat |->
          IF old = lo + n
          THEN IF lo = 0 /\ k = 0 THEN oldRoot ELSE IF lo # 0 /\ k = 1 THEN proof[1] ELSE NoDigest
          ELSE IF k = 0 \/ n = 1 THEN NoDigest
          ELSE LET cut == Split(n)
               IN  IF old <= lo + cut THEN Joined(rebuilt[cut][lo][k - 1], proof[k])
                   ELSE Joined(proof[k], rebuilt[n - cut][lo + cut][k - 1])]]
  IN  CASE old > new -> FALSE
        [] old = 0 -> proof = <<>> /\ oldRoot = EmptyRoot /\ (new = 0 => newRoot = EmptyRoot)
        [] old > 0 /\ old = new -> proof = <<>> /\ oldRoot = newRoot
        [] OTHER -> Len(proof) <= MaxProofNodes /\ rebuilt[new][0][Len(proof)] = newRoot

(* The old and the new root are rebuilt side by side.                       *)
VerifyConsistency(old, new, oldRoot, newRoot, proof) ==
  LET rebuilt[n \in Leaves] ==
        [lo \in Nat |-> [k \in Nat |->
          IF old = lo + n
          THEN LET same == IF lo = 0 /\ k = 0 THEN oldRoot
                           ELSE IF lo # 0 /\ k = 1 THEN proof[1] ELSE NoDigest
               IN  <<same, same>>
          ELSE IF k = 0 \/ n = 1 THEN <<NoDigest, NoDigest>>
          ELSE LET cut == Split(n)
               IN  IF old <= lo + cut
                   THEN LET below == rebuilt[cut][lo][k - 1]
                        IN  <<below[1], Joined(below[2], proof[k])>>
                   ELSE LET below == rebuilt[n - cut][lo + cut][k - 1]
                        IN  <<Joined(proof[k], below[1]), Joined(proof[k], below[2])>>]]
  IN  CASE old > new -> FALSE
        [] old = 0 -> proof = <<>> /\ oldRoot = EmptyRoot /\ (new = 0 => newRoot = EmptyRoot)
        [] old > 0 /\ old = new -> proof = <<>> /\ oldRoot = newRoot
        [] OTHER -> /\ Len(proof) <= MaxProofNodes
                    /\ rebuilt[new][0][Len(proof)] = <<oldRoot, newRoot>>
=============================================================================
