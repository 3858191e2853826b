----------------------------- MODULE MCApprovals ------------------------------
(***************************************************************************)
(* Approvals with two PermissionRequest calls, which may be the same request *)
(* twice, one after the other or at once, or two requests of one session,    *)
(* and one goroutine at a time that closes approvals locally.                *)
(***************************************************************************)
EXTENDS Approvals
===============================================================================
