------------------------------ MODULE PrivateLog ------------------------------
(***************************************************************************)
(* Private evidence logs (v17_private_transparency.py,                      *)
(* private_transparency_v17.py).  Every command reads files and writes a    *)
(* new one: a head signed by the log, the head with one more witness        *)
(* signature, an inclusion receipt.  Files are never replaced, and a        *)
(* command may be repeated or given any of them, so the log can be appended *)
(* to twice at one head: histories fork.  Keepers - witnesses, and those    *)
(* who verify receipts - each retain one approved head of their own.        *)
(*                                                                          *)
(* A head stands with the entries of the state it was made from; only       *)
(* those who are given that state look at them, everyone else has the root. *)
(***************************************************************************)
EXTENDS MerkleHistory, FiniteSets

CONSTANTS
  Witness,
  Keeper,       \* witnesses, and those who only verify receipts
  Threshold,    \* witness_threshold
  Subject,      \* entries: case, digest and size of what is logged
  Founded,      \* histories that the log may have had approved before
  MaxEntries,   \* MAX_ENTRIES
  MaxAppends    \* bound on appends

ASSUME PrivateLogAssumption ==
  /\ Witness \subseteq Keeper
  /\ IsFiniteSet(Witness) /\ Threshold \in 0..Cardinality(Witness)
  /\ MaxEntries \in 0..MaxLeaves /\ MaxAppends \in Nat
  /\ Founded \subseteq Seq(Subject) /\ \A s \in Founded : Len(s) <= MaxEntries

VARIABLES
  heads,     \* every head file there is
  kept,      \* the approved head each keeper retains
  appends    \* how often the log was appended to

logVars == <<heads, kept, appends>>

HeadFile == [entries : Seq(Subject), issued : Nat, signers : SUBSET Witness]
Approved(head) == Cardinality(head.signers) >= Threshold
Size(head) == Len(head.entries)
RootOf(head) == Root(head.entries)

LogTypeOK ==
  /\ \A head \in heads : head \in HeadFile /\ Size(head) <= MaxEntries
  /\ kept \in [Keeper -> heads]
  /\ \A k \in Keeper : Approved(kept[k])
  /\ appends \in 0..MaxAppends

(* initialize, or a log in use, which may have been forked before: each     *)
(* keeper retains the head that it was shown.                               *)
LogInit ==
  \E one, other \in Founded :
    LET Old(entries) == [entries |-> entries, issued |-> 0, signers |-> Witness]
    IN  /\ heads = {Old(one), Old(other)}
        /\ kept \in [Keeper -> heads]
        /\ appends = 0

-----------------------------------------------------------------------------
(* append: the state must be that of an approved head; the result is a      *)
(* draft, which no witness has signed.                                      *)
AppendEntry(head, subject, issued) ==
  /\ appends < MaxAppends
  /\ head \in heads /\ Approved(head)
  /\ Size(head) < MaxEntries
  /\ issued >= head.issued
  /\ heads' = heads \cup {[entries |-> Append(head.entries, subject), issued |-> issued,
                           signers |-> {}]}
  /\ appends' = appends + 1
  /\ UNCHANGED kept

(* Mutant: a witness compares sizes only.                                   *)
CosignHeadBySize(w, head) ==
  /\ head \in heads /\ w \notin head.signers
  /\ Size(head) > 0 => Size(kept[w]) <= Size(head) /\ head.issued >= kept[w].issued
  /\ heads' = heads \cup {[head EXCEPT !.signers = @ \cup {w}]}
  /\ UNCHANGED <<kept, appends>>

(* cosign_head: a witness is given the state, and compares the root of its  *)
(* first entries with the head it retains.                                  *)
CosignHead(w, head) ==
  /\ head \in heads /\ w \notin head.signers
  /\ Size(head) > 0 =>
       /\ Size(kept[w]) <= Size(head)
       /\ SubRoot(head.entries, 0, Size(kept[w])) = RootOf(kept[w])
       /\ head.issued >= kept[w].issued
  /\ heads' = heads \cup {[head EXCEPT !.signers = @ \cup {w}]}
  /\ UNCHANGED <<kept, appends>>

(* make_receipt, of an approved head and the keeper's own as previous.      *)
Receipt(head, i, previous) ==
  [ head |-> head, index |-> i, subject |-> head.entries[i + 1], previous |-> previous,
    inclusion |-> InclusionProof(head.entries, i),
    consistency |-> IF Size(previous) > Size(head) THEN <<>>
                    ELSE ConsistencyProof(head.entries, Size(previous)) ]

(* Mutant: the threshold of witnesses is not asked for.                     *)
ReceiptVerifiesUnapproved(receipt, previous) ==
  LET head == receipt.head
  IN  /\ VerifyInclusion(receipt.subject, receipt.index, Size(head), receipt.inclusion, RootOf(head))
      /\ receipt.previous = previous
      /\ head.issued >= previous.issued
      /\ VerifyConsistency(Size(previous), Size(head), RootOf(previous), RootOf(head),
                           receipt.consistency)

(* verify_receipt; it has no state to look at.                              *)
ReceiptVerifies(receipt, previous) ==
  LET head == receipt.head
  IN  /\ Approved(head)
      /\ VerifyInclusion(receipt.subject, receipt.index, Size(head), receipt.inclusion, RootOf(head))
      /\ receipt.previous = previous
      /\ head.issued >= previous.issued
      /\ VerifyConsistency(Size(previous), Size(head), RootOf(previous), RootOf(head),
                           receipt.consistency)

(* A keeper has a receipt against its own head verified, and retains the    *)
(* head of the receipt from then on.                                        *)
VerifyReceipt(k, head, i) ==
  /\ head \in heads /\ i < Size(head)
  /\ ReceiptVerifies(Receipt(head, i, kept[k]), kept[k])
  /\ kept' = [kept EXCEPT ![k] = head]
  /\ UNCHANGED <<heads, appends>>

LogNext ==
  \/ \E head \in heads, subject \in Subject, issued \in 0..1 :
       AppendEntry(head, subject, issued)
  \/ \E w \in Witness, head \in heads : CosignHead(w, head)
  \/ \E k \in Keeper, head \in heads : \E i \in 0..Size(head) : VerifyReceipt(k, head, i)

LogSpec == LogInit /\ [][LogNext]_logVars

-----------------------------------------------------------------------------
(* Properties.                                                              *)

IsPrefixOf(s, t) == Len(s) <= Len(t) /\ SubSeq(t, 1, Len(s)) = s

(* A keeper never leaves the history it is in: the head it retains next     *)
(* extends the one before, so that every entry it has ever seen proved      *)
(* stays at its position, however often the log was forked around it.       *)
KeptHistoriesGrow ==
  [][\A k \in Keeper : IsPrefixOf(kept[k].entries, kept'[k].entries)]_kept

(* A draft is blocked when so many witnesses retain a history that is not   *)
(* in it, without having signed it, that the others are too few.            *)
Blocked(draft) ==
  LET Signed(w) == \E head \in heads : head.entries = draft.entries /\ head.issued = draft.issued
                                        /\ w \in head.signers
  IN  Cardinality({w \in Witness : Signed(w) \/ IsPrefixOf(kept[w].entries, draft.entries)})
        < Threshold

(* A draft that is blocked stays blocked, whatever is signed, appended and  *)
(* retained in any order: once enough witnesses went along with one side of *)
(* a fork, what the other side still lacks signatures for is never          *)
(* approved.                                                                *)
ForkedDraftsDie == [][\A draft \in heads : Blocked(draft) => Blocked(draft)']_logVars

(* Nobody who keeps heads is led from one history into another, neither     *)
(* alone nor by what the witnesses sign together.                           *)
HistoriesStayApart == KeptHistoriesGrow /\ ForkedDraftsDie

(* The proofs that are made of a tree verify if, and only if, they should:  *)
(* a consistency proof just when the first history is a prefix of the       *)
(* second, an inclusion proof just for the entry at its position.           *)
ProofsExact ==
  LET histories == {head.entries : head \in heads}
  IN  \A s, t \in histories :
        LET old == Root(s)
            new == Root(t)
        IN  /\ Len(s) <= Len(t) =>
                 (VerifyConsistency(Len(s), Len(t), old, new, ConsistencyProof(t, Len(s)))
                    <=> IsPrefixOf(s, t))
            /\ \A i \in 0..Len(t) - 1 :
                 LET proof == InclusionProof(t, i)
                 IN  /\ \A j \in 0..Len(s) - 1, x \in Subject :
                          s[j + 1] # x => ~VerifyInclusion(x, j, Len(s), proof, old)
                     /\ s = t => VerifyInclusion(t[i + 1], i, Len(t), proof, new)
=============================================================================
