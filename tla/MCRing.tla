-------------------------------- MODULE MCRing --------------------------------
(***************************************************************************)
(* Ring on a small buffer with every slice length up to Cap + 2: empty      *)
(* writes, writes that wrap, that exactly fill, that overflow and that      *)
(* replace the whole ring, from every alignment of start.                   *)
(***************************************************************************)
EXTENDS Ring

MCLens == 0..(Cap + 2)
===============================================================================
