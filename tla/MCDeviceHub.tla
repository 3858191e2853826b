----------------------------- MODULE MCDeviceHub -----------------------------
(***************************************************************************)
(* DeviceHub with two devices that report one session number and a console. *)
(***************************************************************************)
EXTENDS DeviceHub
===============================================================================
