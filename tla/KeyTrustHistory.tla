--------------------------- MODULE KeyTrustHistory ---------------------------
(***************************************************************************)
(* Timestamped decisions on checkpoint keys (v17_key_trust_history.py,      *)
(* v17_key_policy.py, v17_timestamp.py, checkpoint_history_v17.py): the     *)
(* decision of the policy in force is captured in a record, a request for   *)
(* the record is stamped by a time stamp authority, and anyone reproduces   *)
(* the decision later, over the whole interval in which the stamp was made. *)
(*                                                                          *)
(* An instant is a number of microseconds, the resolution of all times in   *)
(* the code.  Documents are authentic; that a store only gives out such is  *)
(* the subject of PolicyGovernance.  The record, the request and the        *)
(* response are bound to each other by digest and nonce, so that a response *)
(* stands for the record it stamps.                                         *)
(***************************************************************************)
EXTENDS Integers, Sequences, FiniteSets

CONSTANTS
  Key,           \* of checkpoint signers
  Checkpoints,   \* signed checkpoints that decisions are asked about
  Policies,      \* sequences of policies that one root has approved
  Roots,         \* validity of that root
  Skews,         \* by which the local clock may be wrong
  Accuracies,    \* that the authority states
  MaxInstant     \* bound of the clock

Window == {w \in [from : Int, until : Int] : w.from < w.until}
In(instant, window) == window.from <= instant /\ instant < window.until

KeyRow == [state : {"active", "retired", "revoked"}, valid : Window]
IsPolicy(p) ==
  /\ p.valid \in Window
  /\ DOMAIN p.keys \subseteq Key /\ \A k \in DOMAIN p.keys : p.keys[k] \in KeyRow
Checkpoint == [key : Key, created : Int, signed : Int]

ASSUME HistoryAssumption ==
  /\ Checkpoints \subseteq Checkpoint
  /\ \A policies \in Policies :
       /\ Len(policies) \in Nat \ {0} /\ DOMAIN policies = 1..Len(policies)
       /\ \A i \in DOMAIN policies : IsPolicy(policies[i])
  /\ Roots \subseteq Window
  /\ Skews \subseteq Int /\ Accuracies \subseteq Nat
  /\ MaxInstant \in Nat

VARIABLES
  clock,      \* the true time
  skew,       \* of the local clock, fixed
  approved,   \* policies the root approves, in the order of their revisions, fixed
  rootValid,  \* fixed
  revision,   \* the policy in the store
  records,    \* captured so far
  prepared,   \* records that a request was prepared for
  stamps      \* responses of the authority

historyVars == <<clock, skew, approved, rootValid, revision, records, prepared, stamps>>

-----------------------------------------------------------------------------
(* evaluate_key_policy: what it finds against a checkpoint at an instant.   *)
Findings(policy, c, instant) ==
  LET known == c.key \in DOMAIN policy.keys
      row == policy.keys[c.key]
  IN  {code \in {"outside validity", "unknown", "retired", "revoked", "key outside validity",
                 "signing outside validity", "inconsistent"} :
         CASE code = "outside validity" -> ~In(instant, policy.valid)
           [] code = "unknown" -> ~known
           [] code \in {"retired", "revoked"} -> known /\ row.state = code
           [] code = "key outside validity" -> known /\ ~In(instant, row.valid)
           [] code = "signing outside validity" -> known /\ ~In(c.signed, row.valid)
           [] code = "inconsistent" -> known /\ ~(c.created <= c.signed /\ c.signed <= instant)}

Decision(policy, c, instant) ==
  LET codes == Findings(policy, c, instant)
  IN  [status |-> IF codes = {} THEN "ALLOW" ELSE "DENY", codes |-> codes]

(* Mutant: root and policy may end with the instant.                        *)
AuthorityInclusive(policy, instant) ==
  /\ rootValid.from <= instant /\ instant <= rootValid.until
  /\ policy.valid.from <= instant /\ instant <= policy.valid.until

Authority(policy, instant) == In(instant, rootValid) /\ In(instant, policy.valid)

-----------------------------------------------------------------------------
(* All of what varies from one use to the next is chosen in the beginning.  *)
HistoryInit ==
  /\ clock = 0
  /\ skew \in Skews
  /\ approved \in Policies
  /\ rootValid \in Roots
  /\ revision = 1
  /\ records = {} /\ prepared = {} /\ stamps = {}

Tick ==
  /\ clock < MaxInstant
  /\ clock' = clock + 1
  /\ UNCHANGED <<skew, approved, rootValid, revision, records, prepared, stamps>>

(* A newer policy is accepted into the store.                               *)
AcceptPolicy ==
  /\ revision < Len(approved)
  /\ revision' = revision + 1
  /\ UNCHANGED <<clock, skew, approved, rootValid, records, prepared, stamps>>

(* capture_key_trust_record, of the store and the local clock.              *)
Capture(c) ==
  /\ Cardinality(records) < 1
  /\ Authority(approved[revision], clock + skew)
  /\ records' = records \cup
       {[policy |-> approved[revision], checkpoint |-> c, recorded |-> clock + skew,
         decision |-> Decision(approved[revision], c, clock + skew)]}
  /\ UNCHANGED <<clock, skew, approved, rootValid, revision, prepared, stamps>>

(* prepare_key_trust_request.                                               *)
Prepare(record) ==
  /\ record \in records \ prepared
  /\ Authority(record.policy, record.recorded)
  /\ Authority(record.policy, clock + skew)
  /\ prepared' = prepared \cup {record}
  /\ UNCHANGED <<clock, skew, approved, rootValid, revision, records, stamps>>

(* The authority states a time that is right up to its accuracy; an answer  *)
(* may be made at any later time.                                           *)
Stamp(record, accuracy) ==
  /\ record \in prepared
  /\ stamps = {}
  /\ \E generated \in clock - accuracy .. clock + accuracy :
       stamps' = {[of |-> record, generated |-> generated, accuracy |-> accuracy, at |-> clock]}
  /\ UNCHANGED <<clock, skew, approved, rootValid, revision, records, prepared>>

HistoryNext ==
  \/ Tick
  \/ AcceptPolicy
  \/ \E c \in Checkpoints : Capture(c)
  \/ \E record \in records : Prepare(record) \/ \E accuracy \in Accuracies : Stamp(record, accuracy)

HistorySpec == HistoryInit /\ [][HistoryNext]_historyVars

-----------------------------------------------------------------------------
(* evaluate_key_trust_history.                                              *)

(* Mutant: only the ends of the interval are tried.                         *)
InstantsEnds(record, lower, upper) == {lower, upper}

(* The ends, and inside the interval the instants at which a decision can   *)
(* change, each with the one before it.                                     *)
Instants(record, lower, upper) ==
  LET keys == record.policy.keys
      c == record.checkpoint
      boundaries == {c.signed} \cup
        IF c.key \in DOMAIN keys THEN {keys[c.key].valid.from, keys[c.key].valid.until} ELSE {}
      inside == boundaries \cap lower..upper
  IN  {lower, upper} \cup inside \cup {instant - 1 : instant \in inside \ {lower}}

Lower(stamp) == stamp.generated - stamp.accuracy
Upper(stamp) == stamp.generated + stamp.accuracy

(* The authenticated record reproduces its decision at the recorded time,   *)
(* and at every instant that is tried.                                      *)
Reproduces(record, stamp) ==
  /\ stamp.of = record
  /\ Authority(record.policy, record.recorded)
  /\ Decision(record.policy, record.checkpoint, record.recorded) = record.decision
  /\ Authority(record.policy, Lower(stamp))
  /\ Authority(record.policy, Upper(stamp))
  /\ record.recorded <= Upper(stamp)
  /\ \A instant \in Instants(record, Lower(stamp), Upper(stamp)) :
       Decision(record.policy, record.checkpoint, instant) = record.decision

-----------------------------------------------------------------------------
(* Properties.                                                              *)

HistoryTypeOK ==
  /\ clock \in 0..MaxInstant
  /\ revision \in DOMAIN approved
  /\ prepared \subseteq records
  /\ \A record \in records :
       /\ IsPolicy(record.policy) /\ record.checkpoint \in Checkpoint
       /\ record.decision.status \in {"ALLOW", "DENY"}
  /\ \A stamp \in stamps : stamp.of \in prepared

(* The few instants that are tried stand for all of them: a record is       *)
(* accepted just if its claimed time is not after the stamp, its authority  *)
(* was in force and its decision was the same at every instant at which the *)
(* stamp may have been made - however short the validity of a key that      *)
(* begins and ends between two of them.                                     *)
HistoryExact ==
  \A record \in records, stamp \in stamps :
    Reproduces(record, stamp) <=>
      /\ record.recorded <= Upper(stamp)
      /\ \A instant \in Lower(stamp)..Upper(stamp) :
           /\ In(instant, rootValid) /\ In(instant, record.policy.valid)
           /\ Decision(record.policy, record.checkpoint, instant) = record.decision

(* An accepted decision is the one that its policy gave at the very time    *)
(* the authority stamped it, and the record did exist by the end of the     *)
(* interval, however wrong the local clock is, and whatever the store has   *)
(* accepted since.                                                          *)
StampedDecisionHeld ==
  \A record \in records, stamp \in stamps :
    Reproduces(record, stamp) =>
      /\ stamp.at <= Upper(stamp)
      /\ In(stamp.at, rootValid) /\ In(stamp.at, record.policy.valid)
      /\ Decision(record.policy, record.checkpoint, stamp.at) = record.decision

(* Acceptance of a record means, exactly, what it is taken to mean.         *)
AcceptanceExact == HistoryExact /\ StampedDecisionHeld
=============================================================================
