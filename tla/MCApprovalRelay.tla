---------------------------- MODULE MCApprovalRelay ----------------------------
(***************************************************************************)
(* ApprovalRelay with a few handlers under way at once: two connections'     *)
(* handlers, or two deciders and the agent's, and one console.               *)
(***************************************************************************)
EXTENDS ApprovalRelay
================================================================================
