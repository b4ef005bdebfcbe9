--------------------------- MODULE PolicyRegister ---------------------------
(***************************************************************************)
(* What a verifier's policy store promises, whatever it is made of: a      *)
(* register holding one entry, the accepted checkpoint-key policy together *)
(* with the issuer root it was accepted under.  An entry replaces another  *)
(* only if it is newer; a reader is only ever given an entry that was      *)
(* accepted as a whole, and never one older than it was given before.      *)
(***************************************************************************)
EXTENDS Naturals

CONSTANTS
  Content,    \* what an entry says: a signed policy and a chain of rotations
  NoContent,  \* the content of the entry of a store that holds nothing
  Reader      \* the case verifiers that load the policy

VARIABLES
  register,   \* the entry in force
  accepted,   \* every entry that was ever in force
  seen        \* the entry each reader was given last

(* A revision numbers policies, a version numbers issuer roots; an entry of *)
(* a store without governance has version 0.                                *)
Entry == [revision : Nat, version : Nat, content : Content]
NoEntry == [revision |-> 0, version |-> 0, content |-> NoContent]

(* Newer, or governance being put over the same policy.                     *)
Supersedes(new, old) ==
  /\ new.version >= old.version
  /\ \/ new.revision > old.revision
     \/ new.revision = old.revision /\ old.version = 0 /\ new.version > 0

NotOlder(new, old) ==
  /\ new.version >= old.version
  /\ new.revision >= old.revision

RegisterInit ==
  /\ register = NoEntry
  /\ accepted = {}
  /\ seen = [r \in Reader |-> NoEntry]

Accept(e) ==
  /\ Supersedes(e, register)
  /\ register' = e
  /\ accepted' = accepted \cup {e}
  /\ UNCHANGED seen

Read(r, e) ==
  /\ e \in accepted
  /\ NotOlder(e, seen[r])
  /\ seen' = [seen EXCEPT ![r] = e]
  /\ UNCHANGED <<register, accepted>>

registerVars == <<register, accepted, seen>>

(* The entry accepted is not enumerated but read off the step, so that TLC  *)
(* can evaluate the relation on the steps of an implementation.             *)
RegisterNext ==
  \/ register' \in Entry /\ Accept(register')
  \/ \E r \in Reader : Read(r, seen'[r])

RegisterSpec == RegisterInit /\ [][RegisterNext]_registerVars
=============================================================================
