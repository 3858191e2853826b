------------------------------- MODULE MCStream -------------------------------
(***************************************************************************)
(* SessionStream with one or two consoles and one connection of the agent's   *)
(* lost: unregistered, or replaced while the relay still holds it.  With one  *)
(* console the stream outgrows the ring and a frame holds less than the ring  *)
(* or the tail, so that deltas, tails and chunked replays all occur.          *)
(***************************************************************************)
EXTENDS SessionStream
================================================================================
