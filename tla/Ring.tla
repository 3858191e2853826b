--------------------------------- MODULE Ring ---------------------------------
(***************************************************************************)
(* The scrollback ring buffer (internal/session/ring.go).  Every method of  *)
(* the Go type holds r.mu from start to end, so one call is one step.  The  *)
(* content of a cell is the stream offset of the byte stored there: the     *)
(* code never looks at a byte's value, and offsets make a misplaced, stale  *)
(* or repeated byte visible.                                                *)
(***************************************************************************)
EXTENDS Integers, Sequences

CONSTANTS
    Cap,        \* len(r.buf), NewRing's capacity
    Lens,       \* sizes of the slices passed to Write
    MaxSeq      \* bound on the bytes written (the code's uint64 never wraps)

ASSUME CapAssumption == Cap \in Nat \ {0}       \* NewRing panics otherwise
ASSUME LensAssumption == Lens \subseteq Nat
ASSUME MaxSeqAssumption == MaxSeq \in Nat

VARIABLES
    buf,        \* the cells
    start,      \* index of the oldest byte
    n,          \* bytes currently stored
    seq         \* total bytes written

ringVars == <<buf, start, n, seq>>

Cell == 0..(Cap - 1)
Zero == -1                  \* a cell make([]byte, capacity) left at zero

RingInit ==
    /\ buf = [i \in Cell |-> Zero]
    /\ start = 0
    /\ n = 0
    /\ seq = 0

(* A slice at least as long as the ring: only its tail survives. *)
WriteLarge(k) ==
    /\ k >= Cap
    /\ buf' = [i \in Cell |-> seq + (k - Cap) + i]
    /\ start' = 0
    /\ n' = Cap

Copied_NoWrap(end, k) ==        \* mutant: the second copy is missing
    [i \in Cell |-> IF end <= i /\ i < end + k THEN seq + (i - end) ELSE buf[i]]

(* copy(r.buf[end:], p), and copy(r.buf, p[first:]) when it wraps. *)
Copied(end, k) ==
    [i \in Cell |->
        IF end <= i /\ i < end + k THEN seq + (i - end)
        ELSE IF i < end + k - Cap THEN seq + (Cap - end) + i
        ELSE buf[i]]

WriteSmall_StartStays(k) ==     \* mutant: overflow leaves start behind
    /\ k < Cap
    /\ buf' = Copied((start + n) % Cap, k)
    /\ start' = start
    /\ n' = IF n + k > Cap THEN Cap ELSE n + k

WriteSmall(k) ==
    /\ k < Cap
    /\ buf' = Copied((start + n) % Cap, k)
    /\ IF n + k > Cap
         THEN start' = (start + (n + k - Cap)) % Cap /\ n' = Cap
         ELSE start' = start /\ n' = n + k

Write(k) ==
    /\ seq + k <= MaxSeq
    /\ seq' = seq + k
    /\ WriteLarge(k) \/ WriteSmall(k)

RingNext == \E k \in Lens : Write(k)

RingSpec == RingInit /\ [][RingNext]_ringVars

-------------------------------------------------------------------------------
(* The readers.  They copy out and change nothing. *)

(* The last k stored bytes, in two copies when they wrap; k <= n. *)
copyLast(k) ==
    LET from == (start + n - k) % Cap
        first == Cap - from
    IN  [i \in 1..k |-> IF i <= first THEN buf[from + i - 1]
                                     ELSE buf[i - first - 1]]

TailOf_NoClamp(max) ==           \* mutant: max is not clamped to n
    [data |-> copyLast(IF max < 0 THEN 0 ELSE max), end |-> seq]

TailOf(max) ==
    LET m == IF max > n THEN n ELSE IF max < 0 THEN 0 ELSE max
    IN  [data |-> copyLast(m), end |-> seq]

DeltaOK_Loose(lastSeq) ==       \* mutant: the window is one byte too wide
    seq - n <= lastSeq + 1 /\ lastSeq <= seq

DeltaOK(lastSeq) == seq - n <= lastSeq /\ lastSeq <= seq

Delta(lastSeq) == copyLast(seq - lastSeq)

-------------------------------------------------------------------------------
RingTypeOK ==
    /\ buf \in [Cell -> Int]
    /\ start \in Cell
    /\ n \in 0..Cap
    /\ seq \in 0..MaxSeq

(* The cells from start on, going round, hold the last n bytes written, in  *)
(* order, and nothing was given up before the ring was full: the inductive  *)
(* core of every reader's correctness.                                      *)
HoldsTail ==
    /\ n = IF seq < Cap THEN seq ELSE Cap
    /\ \A j \in 0..(n - 1) : buf[(start + j) % Cap] = (seq - n) + j

(* Delta(lastSeq) refuses exactly the offsets the ring no longer (or not    *)
(* yet) covers, and otherwise returns every byte from lastSeq to the end of *)
(* the stream, once each and in order: what Session.Replay relies on when   *)
(* it appends a delta to a terminal that stopped at lastSeq.                *)
DeltaExact ==
    \A lastSeq \in 0..(MaxSeq + 1) :
        IF DeltaOK(lastSeq)
        THEN Delta(lastSeq) = [i \in 1..(seq - lastSeq) |-> lastSeq + i - 1]
        ELSE lastSeq > seq \/ seq - lastSeq > Cap

(* Tail(max) returns the newest bytes, at most max of them, ending at the   *)
(* offset it reports, whatever max is (Replay asks for SnapshotTail bytes   *)
(* of a ring of any configured size).                                       *)
TailExact ==
    \A max \in -1..(Cap + 1) :
        LET t == TailOf(max)
            m == Len(t.data)
        IN  /\ m = IF max < 0 THEN 0 ELSE IF max < n THEN max ELSE n
            /\ \A i \in 1..m : t.data[i] = t.end - m + (i - 1)

Window == INSTANCE ByteWindow WITH total <- seq, window <- copyLast(n)

(* The ring implements "the last Cap bytes of the stream": every Write is   *)
(* an Append of the abstract window.                                        *)
Implements == Window!Spec
===============================================================================
