---------------------------- MODULE MCSupervisor ----------------------------
(* Durations for Supervisor in ticks of five seconds (ready budget and       *)
(* window shortened), with two back-off delays.                              *)
EXTENDS Supervisor
MCBackoff == <<1, 2>>
=============================================================================
