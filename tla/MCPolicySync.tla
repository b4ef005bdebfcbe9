---------------------------- MODULE MCPolicySync ----------------------------
(***************************************************************************)
(* A job that can never succeed before one with a floor, and a disabled     *)
(* one; three revisions and a backoff that doubles twice.                   *)
(***************************************************************************)
EXTENDS PolicySync

CONSTANTS broken, good, off

MCJobs == <<broken, good, off>>
MCMinRevision == [j \in Job |-> IF j = good THEN 2 ELSE 0]
=============================================================================
