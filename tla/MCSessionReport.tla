---------------------------- MODULE MCSessionReport ----------------------------
(***************************************************************************)
(* SessionReport with one goroutine that reports besides the read loop, so    *)
(* that reports can be overtaken, two connections and one console.           *)
(***************************************************************************)
EXTENDS SessionReport
================================================================================
