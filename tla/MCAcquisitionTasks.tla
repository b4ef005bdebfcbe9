------------------------- MODULE MCAcquisitionTasks -------------------------
(***************************************************************************)
(* Two tasks of different types and two collectors, so that a query finds   *)
(* rows its collector cannot serve, and enough time for a lease to run out  *)
(* while its holder works.  On SQLite, whose workers interleave more        *)
(* freely, one task is enough for two workers to collide over.              *)
(***************************************************************************)
EXTENDS AcquisitionTasks, TLC

CONSTANTS t1, t2, w1, w2, c1, c2

MCTypeOf == [t \in Task |-> IF t = t1 THEN "a" ELSE "b"]
MCExpires == [t \in Task |-> 1]
MCCollectorOf == w1 :> c1 @@ w2 :> c2
MCEnrolledWith == c1 :> {"a", "b"} @@ c2 :> {"a", "b"}
MCRequests == "postgres" :> {t1, t2} @@ "sqlite" :> {t1}
MCCapabilities == {{"a", "b"}, {"a"}}
=============================================================================
