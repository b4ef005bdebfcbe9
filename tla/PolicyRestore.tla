---------------------------- MODULE PolicyRestore ----------------------------
(***************************************************************************)
(* The governed policy store on a host whose operator keeps a backup of    *)
(* the database file and may put it back.  Every row of an older database  *)
(* is authentic, so the store cannot tell (accept_policy_update says so).  *)
(* accept_governed_chain is how such a store catches up: it takes the      *)
(* whole chain and the newest policy at once, over roots that have expired *)
(* since.                                                                  *)
(***************************************************************************)
EXTENDS PolicyGovernance

VARIABLES
  backup,  \* the file content the operator can put back
  lost     \* history: what the file held when it was put back, until the
           \* store accepts something again

restoreVars == <<vars, backup, lost>>

RestoreInit == Init /\ backup = Absent /\ lost = Absent

(* The operator's own steps, outside the program.                          *)
TakeBackup ==
  /\ Live(store)
  /\ backup' = store
  /\ UNCHANGED <<vars, lost>>

Restore ==
  /\ stage = "idle"
  /\ Live(backup) /\ store # backup
  /\ store' = backup
  /\ lost' = store
  /\ UNCHANGED <<now, stage, request, image, snapshot, view, committed, backup>>

Accepting ==
  /\ Next
  /\ lost' = IF store' = store THEN lost ELSE Absent
  /\ UNCHANGED backup

RestoreNext == Accepting \/ TakeBackup \/ Restore

RestoreSpec == RestoreInit /\ [][RestoreNext]_restoreVars

(* Nothing that was accepted is lost for good with the database file: as    *)
(* long as the store that was put back has accepted nothing else, one       *)
(* delivery of the newest policy and the whole chain is accepted, whatever  *)
(* the file was put back to, however many rotations and policies were       *)
(* accepted in between, and although the roots between have expired.        *)
RestoreRecovers ==
  (/\ lost.format = "governed" /\ store.format = "governed"
   /\ Current(lost.envelope.policy) /\ Current(ActiveRoot(lost.chain))) =>
     DeliveryAnswer(lost.envelope, lost.chain) = "ACCEPTED"
=============================================================================
