-------------------------- MODULE MCDeviceSession --------------------------
(***************************************************************************)
(* Bounded instances of DeviceSession for TLC.                             *)
(***************************************************************************)
EXTENDS DeviceSession

=============================================================================
