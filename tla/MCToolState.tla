------------------------------ MODULE MCToolState ------------------------------
(***************************************************************************)
(* ToolState with thresholds small enough to reach and two prompts.         *)
(***************************************************************************)
EXTENDS ToolState
================================================================================
