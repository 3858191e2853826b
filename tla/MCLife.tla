-------------------------------- MODULE MCLife --------------------------------
(***************************************************************************)
(* SessionLife with enough generations for a lost client, a kill_resume and *)
(* an adoption to overlap.                                                   *)
(***************************************************************************)
EXTENDS SessionLife
================================================================================
