--------------------------- MODULE MCDevicePresence ---------------------------
(***************************************************************************)
(* DevicePresence with one device that dials twice, and one console.         *)
(***************************************************************************)
EXTENDS DevicePresence
===============================================================================
