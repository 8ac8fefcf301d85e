---------------------------- MODULE MCSupervisor ----------------------------
(* Small instances of Supervisor for TLC.                                  *)
EXTENDS Supervisor

-----------------------------------------------------------------------------
(* Bounds: the races a behaviour may contain.  The steps into a race are   *)
(* explored, what follows them is not.                                     *)
NoSlip   == slips = {}
OnlyDied == slips \subseteq {"died"}

=============================================================================
