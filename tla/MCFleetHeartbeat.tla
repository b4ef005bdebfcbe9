-------------------------- MODULE MCFleetHeartbeat --------------------------
(***************************************************************************)
(* One node, whose heartbeats concern no other: enough of them to enter an *)
(* incident, recover and go back to NORMAL, with the faults needed to lose, *)
(* delay, repeat and replay some of them.                                   *)
(***************************************************************************)
EXTENDS FleetHeartbeat

MCStamps == 1..9
=============================================================================
