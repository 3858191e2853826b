------------------------------ MODULE ByteWindow ------------------------------
(***************************************************************************)
(* What a session's scrollback promises: of the stream of all bytes ever   *)
(* written it holds exactly the last Cap ones, in order.  A byte is named   *)
(* by its stream offset (0, 1, 2, ...), so two bytes are never confused     *)
(* even when their values agree.  Ring.tla is shown to implement this.      *)
(***************************************************************************)
EXTENDS Integers, Sequences

CONSTANTS
    Cap,        \* how many bytes are retained
    Lens,       \* sizes one write may have
    MaxSeq      \* bound on the length of the stream

VARIABLES
    total,      \* bytes written so far
    window      \* the retained bytes, oldest first

windowVars == <<total, window>>

(* The bytes from..upto-1 of the stream, in order. *)
Bytes(from, upto) == [i \in 1..(upto - from) |-> from + i - 1]

(* The retained part of a stream of t bytes. *)
Retained(t) == Bytes(IF t > Cap THEN t - Cap ELSE 0, t)

Init == total = 0 /\ window = <<>>

Extend(k) ==
    /\ total + k <= MaxSeq
    /\ total' = total + k
    /\ window' = Retained(total')

Next == \E k \in Lens : Extend(k)

Spec == Init /\ [][Next]_windowVars
===============================================================================
