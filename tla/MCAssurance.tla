------------------------------ MODULE MCAssurance ------------------------------
(***************************************************************************)
(* Five parts that promise what others rely on: legal holds, the closure of *)
(* a case, releases, a policy store that may be restored, and the guard of  *)
(* a worker.  They share no state, so that one of them is at work in a      *)
(* behaviour, and the others rest at a beginning of theirs.                 *)
(*                                                                          *)
(* Two holds, on cases of their own, and three pieces of evidence.  In a    *)
(* case, which begins without evidence or with one file, either evidence    *)
(* changes, or tasks are made, while one thing changes; or agents           *)
(* act and reviewers review in a case that lacks none.  Two runs of the     *)
(* workflow for one tag, or an operator's builds in a repository that       *)
(* changes under them.  Two rotations of a store, whose file is put back.  A *)
(* worker of two threads whose control file is there, or of one; the file   *)
(* is replaced.                                                             *)
(***************************************************************************)
EXTENDS MCLegalHold, MCCaseClosure, MCReleasePackages, MCPolicyRestore, ContainmentGuard

CONSTANT o1

VARIABLE part   \* at work

MCControl ==
  {[mode |-> m, signed |-> TRUE, listed |-> TRUE] : m \in {"read-only", "failover", "released"}}
    \cup {[mode |-> "released", signed |-> FALSE, listed |-> FALSE]}

ClosureRests == manifest = {} /\ ClosureInit
ReleaseRests == head = [r \in Builder |-> Plain] /\ ReleaseInit
GuardRests == controls = <<>> /\ GuardInit

AssuranceInit ==
  /\ HoldInit /\ RestoreInit
  /\ \/ part \in {"hold", "restore"} /\ ClosureRests /\ ReleaseRests /\ GuardRests
     \/ part \in {"evidence", "tasks"} /\ ClosureInit /\ ReleaseRests /\ GuardRests
     \/ part = "activity" /\ ClosureInit /\ Insufficient(manifest) = {} /\ ReleaseRests /\ GuardRests
     \/ part = "release" /\ ReleaseInit /\ head[o1] = Plain
          /\ (\A w \in Workflow : head[w] \in TagCommits) /\ ClosureRests /\ GuardRests
     \/ part = "build" /\ ReleaseInit /\ (\A w \in Workflow : head[w] = Plain)
          /\ ClosureRests /\ GuardRests
     \/ part = "guard" /\ GuardInit /\ controls # <<>> /\ ClosureRests /\ ReleaseRests
     \/ part = "lone guard" /\ GuardInit /\ ClosureRests /\ ReleaseRests

AssuranceNext ==
  /\ UNCHANGED part
  /\ \/ /\ part = "hold" /\ HoldNext
        /\ UNCHANGED <<closureVars, releaseVars, restoreVars, guardVars>>
     \/ /\ \/ part = "evidence" /\ (EvidenceStep \/ Assessment)
           \/ part = "tasks" /\ (TaskStep \/ (EvidenceStep /\ changes' = 1))
           \/ part = "activity" /\ (ActivityStep \/ Assessment)
        /\ UNCHANGED <<holdVars, releaseVars, restoreVars, guardVars>>
     \/ /\ \/ part = "release" /\ ReleaseNext /\ UNCHANGED <<moves, progress[o1]>>
           \/ part = "build" /\ ReleaseNext /\ \A w \in Workflow : UNCHANGED progress[w]
        /\ UNCHANGED <<holdVars, closureVars, restoreVars, guardVars>>
     \/ /\ part = "restore" /\ RestoreNext
        /\ UNCHANGED <<holdVars, closureVars, releaseVars, guardVars>>
     \/ /\ \/ part = "guard" /\ GuardNext
           \/ part = "lone guard" /\ GuardNext /\ UNCHANGED thread["t2"]
        /\ UNCHANGED <<holdVars, closureVars, releaseVars, restoreVars>>

assuranceVars == <<holdVars, closureVars, releaseVars, restoreVars, guardVars>>

AssuranceSpec == AssuranceInit /\ [][AssuranceNext]_<<part, assuranceVars>>

(* A property of a part is evaluated while the part is at work.             *)
Of(parts, property) == part \in parts => property

(* Every part's variables have their types.                                 *)
AssuranceTypeOK ==
  /\ Of({"hold"}, HoldTypeOK) /\ Of({"evidence", "tasks", "activity"}, ClosureTypeOK)
  /\ Of({"release", "build"}, ReleaseTypeOK) /\ Of({"restore"}, TypeOK)
  /\ Of({"guard", "lone guard"}, GuardTypeOK)
=============================================================================
