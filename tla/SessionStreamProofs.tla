-------------------------- MODULE SessionStreamProofs --------------------------
(***************************************************************************)
(* For any number of consoles and any sizes: what is on its way from the     *)
(* agent to a terminal is gapless, and a console that waits for a snapshot   *)
(* is never forgotten.                                                       *)
(*                                                                          *)
(* The argument for the output: the frames in transit, Pipe, and the holder  *)
(* of flushMu hand over the stream in order, so that every Output frame      *)
(* starts where the one before it, or a snapshot's last frame, ended         *)
(* (Linked), and the next batch starts there too (EndsAt).  A live console   *)
(* has in its queue, or on its terminal, all that comes before the first     *)
(* Output frame in the pipe (LiveCovered).                                   *)
(*                                                                          *)
(* The argument for the pending consoles: one that loses its connection with *)
(* the agent is told offline before the next one is up, and online right     *)
(* after, which makes the page ask again; or its attach went to the          *)
(* connection that holds (NoneForgotten).                                    *)
(*                                                                          *)
(* Both are about the consoles that are not astray: a replaced connection    *)
(* leaves attachments as they are, and its own frames may still come.        *)
(***************************************************************************)
EXTENDS SessionStream, Integers, SequenceTheorems, TLAPS

Outs(f) == f.kind = "out"
FinalSnap(f) == f.kind = "snap" /\ ~f.more
Ends(f) == Outs(f) \/ FinalSnap(f)

(* The last n frames before an offset x is sent have brought the stream up to *)
(* x: the last one that ends a piece of it ends at x or later.               *)
NoneOut(s, i, j) == \A k \in i..j : ~Outs(s[k])
Reaches(s, n, x) == \A i \in 1..n : Ends(s[i]) /\ NoneOut(s, i + 1, n) => x <= s[i].to
Linked(s) == \A j \in 1..Len(s) : Outs(s[j]) => Reaches(s, j - 1, s[j].from)
EndsAt(s, x) == Reaches(s, Len(s), x)
FirstOut(s, j) == j \in 1..Len(s) /\ Outs(s[j]) /\ NoneOut(s, 1, j - 1)

(* What the relay will still read from this connection. *)
Pipe == IF link = "up" THEN up \o job.todo ELSE up

PageClosed ==
    \A c \in Clients : ~open[c] => att[c] = "absent" /\ toClient[c] = <<>> /\ toRelay[c] = <<>>
AskingHolds == \A c \in Clients : asking[c] # 0 => toRelay[c] # <<>>
DownIsQuiet == link = "down" => up = <<>> /\ \A c \in Clients \ astray : att[c] # "live"
JobLinked == Linked(job.todo) /\ EndsAt(job.todo, flushed)
PipeLinked == Linked(Pipe) /\ (link = "up" => EndsAt(Pipe, flushed))
Covered(c) ==
    /\ \A j \in 1..Len(Pipe) : FirstOut(Pipe, j) => WillReach(c, Pipe[j].from)
    /\ link = "up" /\ NoneOut(Pipe, 1, Len(Pipe)) => WillReach(c, flushed)
LiveCovered == \A c \in Clients \ astray : att[c] = "live" => Covered(c)

TInv == TypeOK /\ AskingHolds
OInv == PageClosed /\ DownIsQuiet /\ JobLinked /\ PipeLinked /\ LiveCovered

On == State(TRUE)
Off == State(FALSE)

(* A page with the queue q, last told w, will have heard that the agent is    *)
(* offline (Parted), or will hear that it is online again (Returns).         *)
Parted(q, w) == \/ q = <<>> /\ w = "offline"
                \/ q # <<>> /\ q[Len(q)] = Off
Returns(q, w) == \/ q # <<>> /\ q[1] = On /\ w = "offline"
                 \/ \E i \in 2..Len(q) : q[i - 1] = Off /\ q[i] = On
TellsOff(c) == Parted(toClient[c], was[c])
TellsOn(c) == Returns(toClient[c], was[c])

(* A snapshot for the pending consoles is under way on this connection. *)
Served == down # <<>> \/ job.kind = "replay" \/ \E i \in 1..Len(up) : FinalSnap(up[i])
(* This attach will be sent to a connection that is gone. *)
Stale(c) == asking[c] # 0 /\ asking[c] # conn

ReplayEnds ==
    job.kind = "replay" /\ job.read => job.todo # <<>> /\ FinalSnap(job.todo[Len(job.todo)])
Shape == IF link = "down" THEN conn \notin greet ELSE conn \notin bye
OfflineTold == Told => \A c \in Clients \ astray : open[c] => TellsOff(c)
Owed(c) == (conn \in greet /\ TellsOff(c)) \/ TellsOn(c)
NoneForgotten ==
    link = "up" => \A c \in Clients \ astray :
        /\ att[c] = "pending" => Served \/ toRelay[c] # <<>> \/ Owed(c)
        /\ Stale(c) => Owed(c) \/ Len(toRelay[c]) > 1
PInv == PageClosed /\ ReplayEnds /\ Shape /\ OfflineTold /\ NoneForgotten

(* A handler that registers or ends; one of a replaced connection that reads. *)
Announces == \E k \in Conns : BroadcastOnline(k) \/ BroadcastOffline(k)
Leftover == \E k \in Conns : RouteLeft(k)

-------------------------------------------------------------------------------
(* Chunks *)

LEMMA Numbers ==
    /\ MaxDrops \in Nat /\ MaxSeq \in Nat \ {0} /\ Cap \in Nat \ {0}
    /\ SnapTail \in Nat \ {0} /\ MaxPayload \in Nat \ {0} /\ MaxConn \in Nat \ {0}
  BY BoundsAssumption

LEMMA DivBounds ==
    ASSUME NEW k \in Nat \ {0}, NEW m \in Nat \ {0}
    PROVE  LET n == (k + m - 1) \div m
           IN n \in Nat \ {0} /\ (n - 1) * m < k /\ k <= n * m
<1> DEFINE n == (k + m - 1) \div m
<1>1. n \in Int /\ n * m <= k + m - 1 /\ k + m - 1 < n * m + m
  OBVIOUS
<1>2. n > 0
  BY <1>1
<1>3. (n - 1) * m = n * m - m
  BY <1>1
<1>4. QED
  BY <1>1, <1>2, <1>3

LEMMA MulMono ==
    ASSUME NEW m \in Nat, NEW i \in Nat, NEW j \in Nat, i <= j
    PROVE  i * m \in Nat /\ i * m <= j * m
  OBVIOUS

(* A chunk cuts the bytes from..to into consecutive frames, of which only the *)
(* last one has no more after it.                                            *)
LEMMA ChunkProps ==
    ASSUME NEW kind \in {"out", "snap"}, NEW from \in Nat, NEW to \in Offsets, from <= to,
           NEW reset \in BOOLEAN
    PROVE  LET s == Chunk(kind, from, to, reset)
           IN /\ s \in Seq(Frames) /\ Len(s) > 0
              /\ \A i \in 1..Len(s) : s[i].kind = kind /\ (s[i].more <=> i < Len(s))
              /\ s[1].from = from /\ s[Len(s)].to = to
              /\ \A i \in 2..Len(s) : s[i].from = s[i - 1].to
<1> DEFINE k == to - from
           n == IF to = from THEN 1 ELSE (to - from + MaxPayload - 1) \div MaxPayload
           s == Chunk(kind, from, to, reset)
           F(i) == Frame(kind, from + (i - 1) * MaxPayload,
                         Lesser(from + i * MaxPayload, to), i < n, reset /\ i = 1)
<1>0. MaxPayload \in Nat \ {0} /\ MaxSeq \in Nat /\ to \in Nat /\ k \in Nat /\ to <= MaxSeq
  BY Numbers DEF Offsets
<1>1. n \in Nat \ {0} /\ (n - 1) * MaxPayload <= k /\ k <= n * MaxPayload
  <2>1. CASE to = from
    BY <1>0, <2>1
  <2>2. CASE to # from
    <3>1. k \in Nat \ {0}
      BY <1>0, <2>2
    <3>2. n = (k + MaxPayload - 1) \div MaxPayload
      BY <2>2
    <3>3. QED
      BY <1>0, <3>1, <3>2, DivBounds
  <2>3. QED
    BY <2>1, <2>2
<1>2. s = [i \in 1..n |-> F(i)]
  BY DEF Chunk
<1> HIDE DEF n
<1>3. ASSUME NEW i \in 1..n
      PROVE  /\ from + (i - 1) * MaxPayload \in Offsets
             /\ i < n => from + i * MaxPayload <= to
             /\ i = n => to <= from + i * MaxPayload
             /\ i * MaxPayload \in Nat
  <2>1. (i - 1) * MaxPayload \in Nat /\ (i - 1) * MaxPayload <= (n - 1) * MaxPayload
    BY <1>0, <1>1, MulMono
  <2>2. i * MaxPayload \in Nat /\ (n - 1) * MaxPayload \in Nat
    BY <1>0, <1>1, MulMono
  <2>3. i < n => i * MaxPayload <= (n - 1) * MaxPayload
    BY <1>0, <1>1, MulMono
  <2>4. from + (i - 1) * MaxPayload \in Offsets
    BY <1>0, <1>1, <2>1, <2>2 DEF Offsets
  <2>5. i < n => from + i * MaxPayload <= to
    BY <1>0, <1>1, <2>2, <2>3
  <2>6. i = n => to <= from + i * MaxPayload
    BY <1>0, <1>1
  <2>7. QED
    BY <2>2, <2>4, <2>5, <2>6
<1>4. ASSUME NEW i \in 1..n
      PROVE  F(i) \in Frames
  <2>1. Lesser(from + i * MaxPayload, to) \in Offsets
    BY <1>0, <1>3 DEF Offsets, Lesser
  <2>2. QED
    BY <1>3, <2>1 DEF Frame, Frames
<1> HIDE DEF F
<1>5. s \in Seq(Frames) /\ Len(s) = n
  BY <1>1, <1>2, <1>4
<1>6. ASSUME NEW i \in 1..n
      PROVE  /\ s[i].kind = kind /\ (s[i].more <=> i < n) /\ s[i].from = from + (i - 1) * MaxPayload
             /\ s[i].to = IF i = n THEN to ELSE from + i * MaxPayload
  <2>1. Lesser(from + i * MaxPayload, to) = IF i = n THEN to ELSE from + i * MaxPayload
    BY <1>0, <1>1, <1>3 DEF Lesser
  <2>2. s[i] = F(i)
    BY <1>2
  <2>3. s[i].kind = kind /\ s[i].from = from + (i - 1) * MaxPayload
    BY <2>2 DEF F, Frame
  <2>4. s[i].more <=> i < n
    <3>1. s[i].more = (i < n)
      BY <2>2 DEF F, Frame
    <3>2. QED
      BY <3>1
  <2>5. s[i].to = IF i = n THEN to ELSE from + i * MaxPayload
    BY <2>1, <2>2 DEF F, Frame
  <2>6. QED
    BY <2>3, <2>4, <2>5
<1>7. s[1].from = from
  <2>1. (1 - 1) * MaxPayload = 0
    BY <1>0
  <2>2. QED
    BY <1>1, <1>6, <2>1
<1>8. ASSUME NEW i \in 2..n
      PROVE  s[i].from = s[i - 1].to
  <2>1. i - 1 \in 1..n /\ i \in 1..n /\ i - 1 # n
    BY <1>1
  <2>2. QED
    BY <1>6, <2>1
<1>9. s[n].to = to
  BY <1>1, <1>6
<1> HIDE DEF s
<1>10. s \in Seq(Frames) /\ Len(s) > 0 /\ s[1].from = from /\ s[Len(s)].to = to
  BY <1>1, <1>5, <1>7, <1>9
<1>11. \A i \in 1..Len(s) : s[i].kind = kind /\ (s[i].more <=> i < Len(s))
  BY <1>5, <1>6
<1>12. \A i \in 2..Len(s) : s[i].from = s[i - 1].to
  BY <1>5, <1>8
<1>13. QED
  BY <1>10, <1>11, <1>12 DEF s
-------------------------------------------------------------------------------
(* What Linked, EndsAt and the first Output frame become under the operations  *)
(* on queues.                                                                *)

LEMMA OutChunk ==
    ASSUME NEW from \in Nat, NEW to \in Offsets, from <= to, NEW reset \in BOOLEAN
    PROVE  LET s == Chunk("out", from, to, reset)
           IN /\ s \in Seq(Frames) /\ Len(s) > 0 /\ Outs(s[1]) /\ s[1].from = from
              /\ Linked(s) /\ EndsAt(s, to)
<1> DEFINE s == Chunk("out", from, to, reset)
<1>0. "out" \in {"out", "snap"}
  OBVIOUS
<1>1. /\ s \in Seq(Frames) /\ Len(s) > 0
      /\ \A i \in 1..Len(s) : s[i].kind = "out"
      /\ s[1].from = from /\ s[Len(s)].to = to
      /\ \A i \in 2..Len(s) : s[i].from = s[i - 1].to
  <2>1. s \in Seq(Frames) /\ Len(s) > 0 /\ \A i \in 1..Len(s) : s[i].kind = "out"
    BY <1>0, ChunkProps
  <2>2. s[1].from = from /\ s[Len(s)].to = to
    BY <1>0, ChunkProps
  <2>3. \A i \in 2..Len(s) : s[i].from = s[i - 1].to
    BY <1>0, ChunkProps
  <2>4. QED
    BY <2>1, <2>2, <2>3
<1> HIDE DEF s
<1>2. to \in Nat
  BY Numbers DEF Offsets
<1>3. ASSUME NEW n \in 1..Len(s), NEW i \in 1..n, NoneOut(s, i + 1, n)
      PROVE  i = n
  BY <1>1, <1>3 DEF NoneOut, Outs
<1>4. EndsAt(s, to)
  BY <1>1, <1>2, <1>3 DEF EndsAt, Reaches
<1>5. ASSUME NEW j \in 1..Len(s)
      PROVE  Reaches(s, j - 1, s[j].from)
  <2> SUFFICES ASSUME NEW i \in 1..(j - 1), NoneOut(s, i + 1, j - 1)
               PROVE  s[j].from <= s[i].to
    BY DEF Reaches
  <2>1. i = j - 1
    BY <1>3
  <2>2. s[j].from = s[i].to /\ s[i] \in Frames
    BY <1>1, <2>1
  <2>3. s[i].to \in Nat
    BY <2>2, Numbers DEF Frames, Offsets
  <2>4. QED
    BY <2>2, <2>3
<1>6. Linked(s)
  BY <1>5 DEF Linked
<1>7. Outs(s[1])
  BY <1>1 DEF Outs
<1>8. QED
  BY <1>1, <1>4, <1>6, <1>7 DEF s

LEMMA SnapChunk ==
    ASSUME NEW from \in Nat, NEW to \in Offsets, from <= to, NEW reset \in BOOLEAN
    PROVE  LET s == Chunk("snap", from, to, reset)
           IN /\ s \in Seq(Frames) /\ Len(s) > 0
              /\ NoneOut(s, 1, Len(s)) /\ FinalSnap(s[Len(s)]) /\ EndsAt(s, to)
<1> DEFINE s == Chunk("snap", from, to, reset)
<1>0. "snap" \in {"out", "snap"}
  OBVIOUS
<1>1. /\ s \in Seq(Frames) /\ Len(s) > 0
      /\ \A i \in 1..Len(s) : s[i].kind = "snap" /\ (s[i].more <=> i < Len(s))
      /\ s[Len(s)].to = to
  <2>1. s \in Seq(Frames) /\ Len(s) > 0
    BY <1>0, ChunkProps
  <2>2. \A i \in 1..Len(s) : s[i].kind = "snap" /\ (s[i].more <=> i < Len(s))
    BY <1>0, ChunkProps
  <2>3. s[Len(s)].to = to
    BY <1>0, ChunkProps
  <2>4. QED
    BY <2>1, <2>2, <2>3
<1> HIDE DEF s
<1>2. to \in Nat
  BY Numbers DEF Offsets
<1>3. NoneOut(s, 1, Len(s)) /\ FinalSnap(s[Len(s)])
  BY <1>1 DEF NoneOut, Outs, FinalSnap
<1>4. EndsAt(s, to)
  BY <1>1, <1>2 DEF EndsAt, Reaches, Ends, Outs, FinalSnap
<1>5. QED
  BY <1>1, <1>3, <1>4 DEF s

(* A batch continues the stream at flushed and brings it up to seq. *)
LEMMA BatchProps ==
    ASSUME seq \in Offsets, flushed \in 0..seq
    PROVE  /\ Batch \in Seq(Frames) /\ Linked(Batch) /\ EndsAt(Batch, seq)
           /\ \A j : FirstOut(Batch, j) => Batch[j].from = flushed
           /\ NoneOut(Batch, 1, Len(Batch)) => flushed = seq
<1>0. flushed \in Nat /\ seq \in Nat /\ flushed <= seq
  BY Numbers DEF Offsets
<1>1. CASE flushed = seq
  <2>1. Batch = <<>>
    BY <1>1 DEF Batch
  <2>2. QED
    BY <1>1, <2>1 DEF Linked, EndsAt, Reaches, FirstOut
<1>2. CASE flushed # seq
  <2>1. \A reset \in BOOLEAN :
          LET s == Chunk("out", flushed, seq, reset)
          IN /\ s \in Seq(Frames) /\ Len(s) > 0 /\ Outs(s[1]) /\ s[1].from = flushed
             /\ Linked(s) /\ EndsAt(s, seq)
    BY <1>0, OutChunk
  <2>2. /\ Batch \in Seq(Frames) /\ Len(Batch) > 0 /\ Outs(Batch[1]) /\ Batch[1].from = flushed
        /\ Linked(Batch) /\ EndsAt(Batch, seq)
    BY <1>2, <2>1, Zenon DEF Batch
  <2>3. \A j : FirstOut(Batch, j) => j = 1
    BY <2>2 DEF FirstOut, NoneOut
  <2>4. ~NoneOut(Batch, 1, Len(Batch))
    BY <2>2 DEF NoneOut
  <2>5. QED
    BY <2>2, <2>3, <2>4
<1>3. QED
  BY <1>1, <1>2

LEMMA TailReaches ==
    ASSUME NEW s \in Seq(Frames), s # <<>>
    PROVE  /\ Tail(s) \in Seq(Frames)
           /\ Linked(s) => Linked(Tail(s))
           /\ \A x : EndsAt(s, x) => EndsAt(Tail(s), x)
           /\ \A j : FirstOut(Tail(s), j) =>
                /\ ~Outs(s[1]) => FirstOut(s, j + 1) /\ s[j + 1] = Tail(s)[j]
                /\ Linked(s) /\ Ends(s[1]) => Tail(s)[j].from <= s[1].to
           /\ NoneOut(Tail(s), 1, Len(Tail(s))) =>
                /\ ~Outs(s[1]) => NoneOut(s, 1, Len(s))
                /\ \A x : EndsAt(s, x) /\ Ends(s[1]) => x <= s[1].to
<1> DEFINE t == Tail(s)
<1>1. /\ t \in Seq(Frames) /\ Len(t) = Len(s) - 1 /\ Len(s) \in Nat \ {0} /\ Len(t) \in Nat
      /\ \A i \in 1..Len(t) : t[i] = s[i + 1]
  OBVIOUS
<1>2. \A i \in 1..Len(s) : i > 1 => i - 1 \in 1..Len(t) /\ t[i - 1] = s[i]
  BY <1>1
<1> HIDE DEF t
<1>3. ASSUME NEW i \in Nat \ {0}, NEW j \in 0..Len(t)
      PROVE  NoneOut(t, i, j) <=> NoneOut(s, i + 1, j + 1)
  <2>1. ASSUME NoneOut(t, i, j), NEW k \in (i + 1)..(j + 1)
        PROVE  ~Outs(s[k])
    <3>1. k - 1 \in i..j /\ k \in 1..Len(s) /\ k > 1
      BY <1>1
    <3>2. QED
      BY <1>2, <2>1, <3>1 DEF NoneOut
  <2>2. ASSUME NoneOut(s, i + 1, j + 1), NEW k \in i..j
        PROVE  ~Outs(t[k])
    <3>1. k + 1 \in (i + 1)..(j + 1) /\ k \in 1..Len(t)
      BY <1>1
    <3>2. QED
      BY <1>1, <2>2, <3>1 DEF NoneOut
  <2>3. QED
    BY <2>1, <2>2 DEF NoneOut
<1>4. ASSUME NEW n \in 0..Len(t), NEW x, Reaches(s, n + 1, x)
      PROVE  Reaches(t, n, x)
  <2> SUFFICES ASSUME NEW i \in 1..n, Ends(t[i]), NoneOut(t, i + 1, n)
               PROVE  x <= t[i].to
    BY DEF Reaches
  <2>1. t[i] = s[i + 1] /\ i + 1 \in 1..(n + 1) /\ i + 1 \in Nat \ {0}
    BY <1>1
  <2>2. NoneOut(s, (i + 1) + 1, n + 1)
    BY <1>3, <2>1
  <2>3. QED
    BY <1>4, <2>1, <2>2 DEF Reaches
<1>5. ASSUME NEW x, EndsAt(s, x)
      PROVE  EndsAt(t, x)
  <2>1. Len(t) \in 0..Len(t) /\ Len(t) + 1 = Len(s)
    BY <1>1
  <2>2. QED
    BY <1>4, <1>5, <2>1 DEF EndsAt
<1>6. ASSUME Linked(s)
      PROVE  Linked(t)
  <2> SUFFICES ASSUME NEW j \in 1..Len(t), Outs(t[j])
               PROVE  Reaches(t, j - 1, t[j].from)
    BY DEF Linked
  <2>1. j + 1 \in 1..Len(s) /\ t[j] = s[j + 1] /\ (j - 1) + 1 = (j + 1) - 1 /\ j - 1 \in 0..Len(t)
    BY <1>1
  <2>2. Reaches(s, (j - 1) + 1, t[j].from)
    BY <1>6, <2>1 DEF Linked
  <2>3. QED
    BY <1>4, <2>1, <2>2
<1>7. ASSUME NEW j, FirstOut(t, j)
      PROVE  /\ ~Outs(s[1]) => FirstOut(s, j + 1) /\ s[j + 1] = t[j]
             /\ Linked(s) /\ Ends(s[1]) => t[j].from <= s[1].to
  <2>1. j \in 1..Len(t) /\ j + 1 \in 1..Len(s) /\ t[j] = s[j + 1] /\ Outs(t[j]) /\ j - 1 \in 0..Len(t)
    BY <1>1, <1>7 DEF FirstOut
  <2>2. NoneOut(s, 2, (j + 1) - 1)
    BY <1>3, <1>7, <2>1 DEF FirstOut
  <2>3. ~Outs(s[1]) => FirstOut(s, j + 1)
    BY <2>1, <2>2 DEF FirstOut, NoneOut
  <2>4. Linked(s) /\ Ends(s[1]) => t[j].from <= s[1].to
    BY <2>1, <2>2 DEF Linked, Reaches
  <2>5. QED
    BY <2>1, <2>3, <2>4
<1>8. ASSUME NoneOut(t, 1, Len(t))
      PROVE  /\ ~Outs(s[1]) => NoneOut(s, 1, Len(s))
             /\ \A x : EndsAt(s, x) /\ Ends(s[1]) => x <= s[1].to
  <2>1. NoneOut(s, 2, Len(s))
    BY <1>1, <1>3, <1>8
  <2>2. QED
    BY <1>1, <2>1 DEF NoneOut, EndsAt, Reaches
<1>9. QED
  BY <1>1, <1>5, <1>6, <1>7, <1>8 DEF t
LEMMA ConcatFirst ==
    ASSUME NEW s \in Seq(Frames), NEW t \in Seq(Frames), NEW j, FirstOut(s \o t, j)
    PROVE  \/ FirstOut(s, j) /\ (s \o t)[j] = s[j]
           \/ /\ NoneOut(s, 1, Len(s))
              /\ FirstOut(t, j - Len(s)) /\ (s \o t)[j] = t[j - Len(s)]
<1> DEFINE u == s \o t
           l == Len(s)
<1>1. /\ Len(u) = l + Len(t) /\ l \in Nat /\ Len(t) \in Nat
      /\ \A i \in 1..l : u[i] = s[i]
  OBVIOUS
<1>2. \A i \in 1..Len(t) : u[l + i] = t[i]
  OBVIOUS
<1>3. FirstOut(u, j)
  OBVIOUS
<1> HIDE DEF u, l
<1>4. CASE j <= l
  <2>1. j \in 1..l /\ u[j] = s[j] /\ Outs(s[j])
    BY <1>1, <1>3, <1>4 DEF FirstOut
  <2>2. NoneOut(s, 1, j - 1)
    BY <1>1, <1>3, <1>4 DEF FirstOut, NoneOut
  <2>3. QED
    BY <2>1, <2>2 DEF FirstOut, l, u
<1>5. CASE ~(j <= l)
  <2>1. /\ j \in Int /\ j - l \in 1..Len(t) /\ l + (j - l) = j /\ Outs(u[j])
        /\ NoneOut(u, 1, j - 1)
    BY <1>1, <1>3, <1>5 DEF FirstOut
  <2>2. u[j] = t[j - l]
    BY <1>2, <2>1
  <2>3. NoneOut(s, 1, l)
    BY <1>1, <2>1 DEF NoneOut
  <2>4. ASSUME NEW k \in 1..((j - l) - 1)
        PROVE  ~Outs(t[k])
    <3>1. k \in 1..Len(t) /\ l + k \in 1..(j - 1)
      BY <1>1, <2>1
    <3>2. QED
      BY <1>2, <2>1, <3>1 DEF NoneOut
  <2>5. QED
    BY <2>1, <2>2, <2>3, <2>4 DEF FirstOut, NoneOut, l, u
<1>6. QED
  BY <1>4, <1>5
LEMMA ConcatReaches ==
    ASSUME NEW s \in Seq(Frames), NEW t \in Seq(Frames)
    PROVE  LET u == s \o t
           IN /\ u \in Seq(Frames)
              /\ Linked(u) => Linked(s)
              /\ Linked(s) /\ Linked(t) /\ (\A j : FirstOut(t, j) => EndsAt(s, t[j].from))
                   => Linked(u)
              /\ \A x : EndsAt(t, x) /\ (NoneOut(t, 1, Len(t)) => EndsAt(s, x)) => EndsAt(u, x)
              /\ \A j : FirstOut(s, j) => FirstOut(u, j) /\ u[j] = s[j]
              /\ NoneOut(u, 1, Len(u)) => NoneOut(s, 1, Len(s)) /\ NoneOut(t, 1, Len(t))
<1> DEFINE u == s \o t
           l == Len(s)
<1>1. /\ u \in Seq(Frames) /\ Len(u) = l + Len(t) /\ l \in Nat /\ Len(t) \in Nat
      /\ \A i \in 1..l : u[i] = s[i]
  OBVIOUS
<1>2. \A i \in 1..Len(t) : u[l + i] = t[i]
  BY <1>1
<1>3. \A i \in 1..Len(u) : i > l => i - l \in 1..Len(t) /\ u[i] = t[i - l]
  BY <1>1
<1> HIDE DEF u, l
<1>4. ASSUME NEW i \in Nat \ {0}, NEW j \in 0..l
      PROVE  NoneOut(u, i, j) <=> NoneOut(s, i, j)
  BY <1>1 DEF NoneOut
<1>5. ASSUME NEW i \in Nat \ {0}, NEW j \in 0..Len(t)
      PROVE  NoneOut(u, l + i, l + j) <=> NoneOut(t, i, j)
  <2>1. ASSUME NoneOut(u, l + i, l + j), NEW k \in i..j
        PROVE  ~Outs(t[k])
    <3>1. l + k \in (l + i)..(l + j) /\ k \in 1..Len(t)
      BY <1>1
    <3>2. QED
      BY <1>2, <2>1, <3>1 DEF NoneOut
  <2>2. ASSUME NoneOut(t, i, j), NEW k \in (l + i)..(l + j)
        PROVE  ~Outs(u[k])
    <3>1. k - l \in i..j /\ k \in 1..Len(u) /\ k > l
      BY <1>1
    <3>2. QED
      BY <1>3, <2>2, <3>1 DEF NoneOut
  <2>3. QED
    BY <2>1, <2>2 DEF NoneOut
<1>6. ASSUME NEW n \in 0..l, NEW x
      PROVE  Reaches(u, n, x) <=> Reaches(s, n, x)
  <2>1. ASSUME NEW i \in 1..n
        PROVE  u[i] = s[i] /\ (NoneOut(u, i + 1, n) <=> NoneOut(s, i + 1, n))
    BY <1>1, <1>4
  <2>2. QED
    BY <2>1 DEF Reaches
<1>7. ASSUME NEW n \in 0..Len(t), NEW x, Reaches(t, n, x),
             NoneOut(t, 1, n) => Reaches(s, l, x)
      PROVE  Reaches(u, l + n, x)
  <2> SUFFICES ASSUME NEW i \in 1..(l + n), Ends(u[i]), NoneOut(u, i + 1, l + n)
               PROVE  x <= u[i].to
    BY DEF Reaches
  <2>1. CASE i > l
    <3>1. i - l \in 1..n /\ u[i] = t[i - l] /\ i + 1 = l + ((i - l) + 1) /\ (i - l) + 1 \in Nat \ {0}
      BY <1>1, <1>3, <2>1
    <3>2. NoneOut(t, (i - l) + 1, n)
      BY <1>5, <3>1
    <3>3. QED
      BY <1>7, <3>1, <3>2 DEF Reaches
  <2>2. CASE i <= l
    <3>1. i \in 1..l /\ u[i] = s[i] /\ i + 1 \in Nat \ {0} /\ l + 0 = l /\ l \in 0..l
      BY <1>1, <2>2
    <3>2. NoneOut(u, l + 1, l + n) /\ NoneOut(u, i + 1, l)
      BY <1>1, <3>1 DEF NoneOut
    <3>3. NoneOut(t, 1, n) /\ NoneOut(s, i + 1, l)
      BY <1>4, <1>5, <3>1, <3>2
    <3>4. QED
      BY <1>7, <3>1, <3>3 DEF Reaches
  <2>3. QED
    BY <1>1, <2>1, <2>2
<1>8. Linked(u) => Linked(s)
  <2> SUFFICES ASSUME Linked(u), NEW j \in 1..Len(s), Outs(s[j])
               PROVE  Reaches(s, j - 1, s[j].from)
    BY DEF Linked
  <2>1. j \in 1..Len(u) /\ u[j] = s[j] /\ j - 1 \in 0..l
    BY <1>1 DEF l
  <2>2. QED
    BY <1>6, <2>1 DEF Linked
<1>9. ASSUME Linked(s), Linked(t), \A j : FirstOut(t, j) => EndsAt(s, t[j].from)
      PROVE  Linked(u)
  <2> SUFFICES ASSUME NEW j \in 1..Len(u), Outs(u[j])
               PROVE  Reaches(u, j - 1, u[j].from)
    BY DEF Linked
  <2>1. CASE j <= l
    <3>1. j \in 1..Len(s) /\ u[j] = s[j] /\ j - 1 \in 0..l
      BY <1>1, <2>1 DEF l
    <3>2. QED
      BY <1>6, <1>9, <3>1 DEF Linked
  <2>2. CASE j > l
    <3>1. /\ j - l \in 1..Len(t) /\ u[j] = t[j - l]
          /\ (j - l) - 1 \in 0..Len(t) /\ l + ((j - l) - 1) = j - 1
      BY <1>1, <1>3, <2>2
    <3>2. NoneOut(t, 1, (j - l) - 1) => Reaches(s, l, u[j].from)
      BY <1>9, <3>1 DEF FirstOut, EndsAt, l
    <3>3. Reaches(t, (j - l) - 1, u[j].from)
      BY <1>9, <3>1 DEF Linked
    <3>4. Reaches(u, l + ((j - l) - 1), u[j].from)
      BY <1>7, <3>1, <3>2, <3>3
    <3>5. QED
      BY <3>1, <3>4
  <2>3. QED
    BY <1>1, <2>1, <2>2
<1>10. ASSUME NEW x, EndsAt(t, x), NoneOut(t, 1, Len(t)) => EndsAt(s, x)
       PROVE  EndsAt(u, x)
  <2>1. Len(t) \in 0..Len(t)
    BY <1>1
  <2>2. QED
    BY <1>1, <1>7, <1>10, <2>1 DEF EndsAt, l
<1>11. ASSUME NEW j, FirstOut(s, j)
       PROVE  FirstOut(u, j) /\ u[j] = s[j]
  BY <1>1, <1>11 DEF FirstOut, NoneOut, l
<1>12. ASSUME NoneOut(u, 1, Len(u))
       PROVE  NoneOut(s, 1, l) /\ NoneOut(t, 1, Len(t))
  <2>1. NoneOut(u, l + 1, l + Len(t)) /\ NoneOut(u, 1, l)
    BY <1>1, <1>12 DEF NoneOut
  <2>2. 1 \in Nat \ {0} /\ l \in 0..l /\ Len(t) \in 0..Len(t)
    BY <1>1
  <2>3. QED
    BY <1>4, <1>5, <2>1, <2>2
<1>13. QED
  BY <1>1, <1>8, <1>9, <1>10, <1>11, <1>12 DEF u, l
-------------------------------------------------------------------------------
(* A console's queue *)

LEMMA AppendCovers ==
    ASSUME NEW q \in Seq(Frames \cup States), NEW m \in Frames \cup States, NEW p
    PROVE  LET r == Append(q, m)
           IN /\ r \in Seq(Frames \cup States)
              /\ \A x : Covers(q, Len(q), p, x) /\ m.kind = "state" => Covers(r, Len(r), p, x)
              /\ \A x : m.kind # "state" /\ x <= m.to => Covers(r, Len(r), p, x)
<1> DEFINE r == Append(q, m)
<1>1. /\ r \in Seq(Frames \cup States) /\ Len(r) = Len(q) + 1 /\ Len(q) \in Nat
      /\ r[Len(r)] = m /\ \A i \in 1..Len(q) : r[i] = q[i]
  OBVIOUS
<1> HIDE DEF r
<1>2. ASSUME NEW n \in 0..Len(q), NEW x
      PROVE  Covers(r, n, p, x) <=> Covers(q, n, p, x)
  <2>1. ASSUME NEW i \in Nat \ {0}
        PROVE  StateOnly(r, i, n) <=> StateOnly(q, i, n)
    BY <1>1 DEF StateOnly
  <2>2. \A i \in 1..n : r[i] = q[i] /\ i + 1 \in Nat \ {0}
    BY <1>1
  <2>3. QED
    BY <2>1, <2>2 DEF Covers
<1>3. ASSUME NEW x, Covers(q, Len(q), p, x), m.kind = "state"
      PROVE  Covers(r, Len(r), p, x)
  <2>1. ASSUME NEW i \in Nat \ {0}, StateOnly(r, i, Len(r))
        PROVE  StateOnly(q, i, Len(q))
    BY <1>1, <2>1 DEF StateOnly
  <2>2. StateOnly(r, 1, Len(r)) => x <= p
    BY <1>3, <2>1 DEF Covers
  <2>3. ASSUME NEW i \in 1..Len(r), r[i].kind # "state", StateOnly(r, i + 1, Len(r))
        PROVE  x <= r[i].to
    <3>1. i \in 1..Len(q) /\ r[i] = q[i]
      BY <1>1, <1>3, <2>3
    <3>2. StateOnly(q, i + 1, Len(q))
      BY <2>1, <2>3, <3>1
    <3>3. QED
      BY <1>3, <2>3, <3>1, <3>2 DEF Covers
  <2>4. QED
    BY <2>2, <2>3 DEF Covers
<1>4. ASSUME NEW x, m.kind # "state", x <= m.to
      PROVE  Covers(r, Len(r), p, x)
  BY <1>1, <1>4 DEF Covers, StateOnly
<1>5. QED
  BY <1>1, <1>3, <1>4 DEF r

(* ... p2 is where the terminal is once the first message is shown. *)
LEMMA TailCovers ==
    ASSUME NEW q \in Seq(Frames \cup States), q # <<>>, NEW p,
           NEW p2, p2 = IF q[1].kind = "state" THEN p ELSE q[1].to
    PROVE  /\ Tail(q) \in Seq(Frames \cup States)
           /\ \A x : Covers(q, Len(q), p, x) => Covers(Tail(q), Len(Tail(q)), p2, x)
<1> DEFINE r == Tail(q)
<1>1. /\ r \in Seq(Frames \cup States) /\ Len(r) = Len(q) - 1 /\ Len(q) \in Nat \ {0}
      /\ Len(r) \in Nat /\ \A i \in 1..Len(r) : r[i] = q[i + 1]
  OBVIOUS
<1>2. \A i \in 1..Len(q) : i > 1 => i - 1 \in 1..Len(r) /\ r[i - 1] = q[i]
  BY <1>1
<1> HIDE DEF r
<1>3. ASSUME NEW n \in 0..Len(r), NEW x, Covers(q, n + 1, p, x)
      PROVE  Covers(r, n, p2, x)
  <2>1. ASSUME NEW i \in Nat \ {0}, StateOnly(r, i, n)
        PROVE  StateOnly(q, i + 1, n + 1)
    <3> SUFFICES ASSUME NEW k \in (i + 1)..(n + 1)
                 PROVE  q[k].kind = "state"
      BY DEF StateOnly
    <3>1. k - 1 \in i..n /\ k \in 1..Len(q) /\ k > 1
      BY <1>1
    <3>2. QED
      BY <1>2, <2>1, <3>1 DEF StateOnly
  <2>2. ASSUME StateOnly(r, 1, n)
        PROVE  x <= p2
    <3>1. StateOnly(q, 2, n + 1)
      BY <2>1, <2>2
    <3>2. CASE q[1].kind = "state"
      BY <1>3, <3>1, <3>2 DEF Covers, StateOnly
    <3>3. CASE q[1].kind # "state"
      BY <1>3, <3>1, <3>3 DEF Covers
    <3>4. QED
      BY <3>2, <3>3
  <2>3. ASSUME NEW i \in 1..n, r[i].kind # "state", StateOnly(r, i + 1, n)
        PROVE  x <= r[i].to
    <3>1. r[i] = q[i + 1] /\ i + 1 \in 1..(n + 1) /\ i + 1 \in Nat \ {0}
      BY <1>1
    <3>2. StateOnly(q, (i + 1) + 1, n + 1)
      BY <2>1, <2>3, <3>1
    <3>3. QED
      BY <1>3, <2>3, <3>1, <3>2 DEF Covers
  <2>4. QED
    BY <2>2, <2>3 DEF Covers
<1>4. ASSUME NEW x, Covers(q, Len(q), p, x)
      PROVE  Covers(r, Len(r), p2, x)
  <2>1. Len(r) \in 0..Len(r) /\ Len(r) + 1 = Len(q)
    BY <1>1
  <2>2. QED
    BY <1>3, <1>4, <2>1
<1>5. QED
  BY <1>1, <1>4 DEF r
-------------------------------------------------------------------------------
(* Types: the agent, its connection, what the relay holds, the pages. *)

AgentTypes ==
    /\ seq \in Offsets /\ flushed \in 0..seq
    /\ job \in [kind : {"none", "flush", "replay"}, since : Offsets,
                todo : Seq(Frames), read : BOOLEAN]
LinkTypes ==
    /\ link \in {"up", "cut", "down"} /\ conn \in 1..MaxConn
    /\ greet \subseteq 2..conn /\ bye \subseteq 1..conn /\ left \in [Conns -> Seq(Frames)]
    /\ up \in Seq(Frames) /\ down \in Seq(Offsets)
RelayTypes ==
    /\ att \in [Clients -> {"absent", "pending", "live"}]
    /\ asking \in [Clients -> 0..MaxConn] /\ astray \subseteq Clients
    /\ toRelay \in [Clients -> Seq(Offsets)]
    /\ toClient \in [Clients -> Seq(Frames \cup States)]
PageTypes ==
    /\ open \in [Clients -> BOOLEAN]
    /\ was \in [Clients -> {"unknown", "offline", "online"}]
    /\ at \in [Clients -> Offsets] /\ lastSeq \in [Clients -> Offsets]
    /\ drops \in 0..MaxDrops

LEMMA TypeParts == TypeOK <=> AgentTypes /\ LinkTypes /\ RelayTypes /\ PageTypes
  BY DEF TypeOK, AgentTypes, LinkTypes, RelayTypes, PageTypes

LEMMA AppendLonger ==
    ASSUME NEW S, NEW q \in Seq(S), NEW e \in S
    PROVE  Append(q, e) \in Seq(S) /\ Append(q, e) # <<>>
<1>1. Append(q, e) \in Seq(S) /\ Len(Append(q, e)) = Len(q) + 1 /\ Len(q) \in Nat
  OBVIOUS
<1>2. Len(Append(q, e)) # 0
  BY <1>1
<1>3. QED
  BY <1>1, <1>2

LEMMA TailOfOne ==
    ASSUME NEW S, NEW t \in Seq(S), Len(t) = 1
    PROVE  Tail(t) = <<>>
<1>1. Tail(t) \in Seq(S) /\ Len(Tail(t)) = 0
  OBVIOUS
<1>2. QED
  BY <1>1, EmptySeq

LEMMA TailNonempty ==
    ASSUME NEW S, NEW t \in Seq(S), Len(t) > 1
    PROVE  Tail(t) # <<>>
<1>1. Len(Tail(t)) # 0 /\ Len(<<>>) = 0
  <2>1. Len(t) \in Nat /\ Len(t) # 0
    OBVIOUS
  <2>2. Len(Tail(t)) = Len(t) - 1
    BY <2>1
  <2>3. QED
    BY <2>1, <2>2
<1>2. QED
  BY <1>1

LEMMA TailLast ==
    ASSUME NEW S, NEW t \in Seq(S), t # <<>>, Len(t) # 1
    PROVE  Tail(t) # <<>> /\ Tail(t)[Len(Tail(t))] = t[Len(t)]
<1>1. Len(t) \in Nat /\ Len(t) > 1 /\ Len(Tail(t)) = Len(t) - 1
  BY EmptySeq
<1>2. \A i \in 1..(Len(t) - 1) : Tail(t)[i] = t[i + 1]
  BY <1>1
<1>3. Tail(t)[Len(t) - 1] = t[(Len(t) - 1) + 1] /\ (Len(t) - 1) + 1 = Len(t)
  BY <1>1, <1>2
<1>4. Tail(t) # <<>>
  BY <1>1, TailNonempty
<1>5. QED
  BY <1>1, <1>3, <1>4

LEMMA HandOver ==
    ASSUME NEW S, NEW s \in Seq(S), NEW t \in Seq(S), t # <<>>
    PROVE  Append(s, Head(t)) \o Tail(t) = s \o t
<1> DEFINE u == Append(s, Head(t)) \o Tail(t)
           v == s \o t
<1>1. /\ Head(t) \in S /\ Tail(t) \in Seq(S) /\ Len(Tail(t)) = Len(t) - 1
      /\ Len(t) \in Nat \ {0} /\ Len(s) \in Nat
  OBVIOUS
<1>2. u \in Seq(S) /\ v \in Seq(S) /\ Len(u) = Len(v)
  BY <1>1
<1>3. ASSUME NEW i \in 1..Len(v)
      PROVE  u[i] = v[i]
  BY <1>1
<1> HIDE DEF u, v
<1>4. u = v
  BY <1>2, <1>3, SeqEqual
<1>5. QED
  BY <1>4 DEF u, v

LEMMA StateTyped == State(Online) \in States
<1>1. ASSUME NEW b \in BOOLEAN
      PROVE  State(b) \in States
  BY DEF State, States
<1>2. Online \in BOOLEAN
  BY DEF Online
<1>3. QED
  BY <1>1, <1>2, Zenon

LEMMA Steps ==
    ASSUME Next
    PROVE  \/ Emit \/ Flush \/ Attach \/ ReadRing \/ SendFrame
           \/ AgentLoses \/ RelayLoses \/ RelayNotices \/ Reconnect
           \/ Announces \/ Leftover \/ RouteFrame
           \/ \E c \in Clients :
                \/ ResolveAgent(c) \/ MarkAndForward(c) \/ PageOpens(c) \/ PageDrops(c)
                \/ HearsState(c) \/ ShowsFrame(c)
  BY DEF Next, AgentStep, LinkStep, Handler, Disturbance, AttachHandler, Page, Announces, Leftover

LEMMA AnnounceSteps ==
    ASSUME Announces
    PROVE  /\ TellAll
           /\ UNCHANGED <<seq, flushed, job, link, conn, up, down, att, asking, astray, toRelay,
                          open, was, at, lastSeq, drops>>
           /\ greet' \subseteq greet /\ bye' \subseteq bye
  BY DEF Announces, BroadcastOnline, BroadcastOffline, agentVars, relayVars, pageVars

LEMMA LeftoverSteps ==
    ASSUME LinkTypes, Leftover
    PROVE  /\ \E f \in Frames : Route(f) /\ astray' = astray \cup {c \in Clients : Gets(c, f)}
           /\ UNCHANGED <<seq, flushed, job, link, conn, greet, bye, up, down, asking, toRelay,
                          open, was, at, lastSeq, drops>>
<1>1. PICK k \in Conns : RouteLeft(k)
  BY DEF Leftover
<1>2. left[k] \in Seq(Frames) /\ left[k] # <<>>
  BY <1>1 DEF LinkTypes, RouteLeft
<1>3. Head(left[k]) \in Frames
  BY <1>2
<1>4. QED
  BY <1>1, <1>3 DEF RouteLeft, agentVars, pageVars

LEMMA OffsetsInNat ==
    ASSUME AgentTypes
    PROVE  seq \in Nat /\ seq <= MaxSeq /\ MaxSeq \in Nat /\ flushed \in Nat /\ flushed <= seq
           /\ 0 \in Offsets
  BY Numbers DEF AgentTypes, Offsets

(* What ReadRing sends: the stream from some offset up to seq, as a snapshot. *)
LEMMA ReplayProps ==
    ASSUME AgentTypes, ReadRing
    PROVE  /\ job'.todo \in Seq(Frames) /\ Len(job'.todo) > 0
           /\ NoneOut(job'.todo, 1, Len(job'.todo)) /\ FinalSnap(job'.todo[Len(job'.todo)])
           /\ EndsAt(job'.todo, seq)
           /\ job' = [job EXCEPT !.read = TRUE, !.todo = job'.todo]
<1> DEFINE tail == seq - Lesser(SnapTail, Retained)
<1>0. seq \in Nat /\ job.since \in Nat
  BY OffsetsInNat DEF AgentTypes, Offsets
<1>1. tail \in Nat /\ tail <= seq
  BY <1>0, Numbers DEF Lesser, Retained
<1>2. PICK from \in Nat, reset \in BOOLEAN :
        from <= seq /\ job' = [job EXCEPT !.read = TRUE, !.todo = Chunk("snap", from, seq, reset)]
  <2>1. CASE DeltaOK(job.since)
    <3>1. job.since <= seq
      BY <2>1 DEF DeltaOK
    <3>2. job' = [job EXCEPT !.read = TRUE, !.todo = Chunk("snap", job.since, seq, FALSE)]
      BY <2>1 DEF ReadRing
    <3>3. QED
      BY <1>0, <3>1, <3>2
  <2>2. CASE ~DeltaOK(job.since)
    <3>1. job' = [job EXCEPT !.read = TRUE, !.todo = Chunk("snap", tail, seq, TRUE)]
      BY <2>2 DEF ReadRing
    <3> HIDE DEF tail
    <3>2. QED
      BY <1>1, <3>1
  <2>3. QED
    BY <2>1, <2>2
<1>3. job'.todo = Chunk("snap", from, seq, reset)
  BY <1>2 DEF AgentTypes
<1>4. job' = [job EXCEPT !.read = TRUE, !.todo = job'.todo]
  BY <1>2, <1>3
<1>5. seq \in Offsets
  BY DEF AgentTypes
<1>6. QED
  BY <1>2, <1>3, <1>4, <1>5, SnapChunk
LEMMA InitTInv == Init => TInv
<1> SUFFICES ASSUME Init
             PROVE  TInv
  OBVIOUS
<1>0. MaxSeq \in Nat /\ MaxConn \in Nat \ {0} /\ MaxDrops \in Nat
  BY Numbers
<1>1. AgentTypes
  BY <1>0 DEF Init, AgentTypes, NoJob, Offsets
<1>2. LinkTypes
  <2>1. link \in {"up", "cut", "down"} /\ up \in Seq(Frames) /\ down \in Seq(Offsets)
    BY DEF Init
  <2>2. conn \in 1..MaxConn
    BY <1>0 DEF Init
  <2>3. greet \subseteq 2..conn /\ bye \subseteq 1..conn /\ left \in [Conns -> Seq(Frames)]
    BY DEF Init
  <2>4. QED
    BY <2>1, <2>2, <2>3 DEF LinkTypes
<1>3. RelayTypes /\ AskingHolds
  BY <1>0 DEF Init, RelayTypes, AskingHolds
<1>4. PageTypes
  BY <1>0 DEF Init, PageTypes, Offsets
<1>5. QED
  BY <1>1, <1>2, <1>3, <1>4, TypeParts DEF TInv

LEMMA AgentTypesKept ==
    ASSUME AgentTypes, LinkTypes, Next
    PROVE  AgentTypes'
<1> USE DEF AgentTypes
<1>0. /\ seq \in Nat /\ seq <= MaxSeq /\ MaxSeq \in Nat /\ flushed \in Nat /\ flushed <= seq
      /\ 0 \in Offsets /\ Batch \in Seq(Frames)
  BY OffsetsInNat, BatchProps
<1>1. CASE Emit
  BY <1>0, <1>1 DEF Emit, Offsets
<1>2. CASE Flush
  <2>1. job' = [kind |-> "flush", since |-> 0, todo |-> Batch, read |-> FALSE]
    BY <1>2 DEF Flush, NoJob
  <2>2. job' \in [kind : {"none", "flush", "replay"}, since : Offsets,
                  todo : Seq(Frames), read : BOOLEAN]
    BY <1>0, <2>1
  <2>3. seq' \in Offsets /\ flushed' \in 0..seq'
    BY <1>0, <1>2 DEF Flush
  <2>4. QED
    BY <2>2, <2>3
<1>3. CASE Attach
  <2>1. Head(down) \in Offsets
    BY <1>3 DEF Attach, LinkTypes
  <2>2. QED
    BY <1>0, <1>3, <2>1 DEF Attach
<1>4. CASE ReadRing
  BY <1>4, ReplayProps DEF ReadRing
<1>5. CASE SendFrame
  <2>1. Tail(job.todo) \in Seq(Frames)
    BY <1>5 DEF SendFrame
  <2>2. UNCHANGED <<seq, flushed>>
    BY <1>5 DEF SendFrame
  <2>3. CASE job' = NoJob
    BY <1>0, <2>2, <2>3 DEF NoJob
  <2>4. CASE job' = [job EXCEPT !.todo = Tail(job.todo)]
    BY <2>1, <2>2, <2>4
  <2>5. QED
    BY <1>5, <2>3, <2>4 DEF SendFrame
<1>6. CASE UNCHANGED agentVars
  BY <1>6 DEF agentVars
<1>7. CASE Announces \/ Leftover
  BY <1>6, <1>7, AnnounceSteps, LeftoverSteps DEF agentVars
<1>8. QED
  BY <1>1, <1>2, <1>3, <1>4, <1>5, <1>6, <1>7, Steps
  DEF AgentLoses, RelayLoses, RelayNotices, Unregister, Reconnect, RouteFrame, ResolveAgent,
      MarkAndForward, PageOpens, PageDrops, HearsState, ShowsFrame

LEMMA LinkTypesKept ==
    ASSUME AgentTypes, LinkTypes, RelayTypes, AskingHolds, Next
    PROVE  LinkTypes'
<1> USE DEF LinkTypes, linkVars
<1>1. CASE Attach
  BY <1>1 DEF Attach
<1>2. CASE SendFrame
  <2>1. Head(job.todo) \in Frames
    BY <1>2 DEF SendFrame, AgentTypes
  <2>2. QED
    BY <1>2, <2>1 DEF SendFrame
<1>3. CASE AgentLoses \/ RelayLoses \/ RelayNotices
  <2>1. CASE AgentLoses
    BY <2>1 DEF AgentLoses
  <2>2. CASE Unregister
    BY <2>2 DEF Unregister
  <2>3. QED
    BY <1>3, <2>1, <2>2 DEF RelayLoses, RelayNotices
<1>4. CASE Reconnect
  <2>1. conn \in Nat /\ conn + 1 \in 1..MaxConn /\ conn \in 1..(conn + 1)
    BY <1>4, Numbers DEF Reconnect
  <2>2. /\ link' = "up" /\ conn' = conn + 1 /\ up' = <<>> /\ down' = <<>>
        /\ greet' = greet \cup {conn + 1} /\ bye' \subseteq bye \cup {conn}
        /\ left' = [left EXCEPT ![conn] = up]
    BY <1>4 DEF Reconnect
  <2>3. greet' \subseteq 2..conn' /\ bye' \subseteq 1..conn'
    BY <2>1, <2>2
  <2>4. left' \in [Conns -> Seq(Frames)]
    BY <2>2
  <2>5. QED
    BY <2>1, <2>2, <2>3, <2>4
<1>5. CASE Announces \/ Leftover
  <2>1. ASSUME NEW k \in Conns, BroadcastOnline(k)
        PROVE  left' \in [Conns -> Seq(Frames)]
    <3>1. k - 1 \in Conns
      BY <2>1, Numbers DEF BroadcastOnline, Conns
    <3>2. InHand(k - 1) \in Seq(Frames)
      BY <3>1 DEF InHand
    <3>3. QED
      BY <2>1, <3>2 DEF BroadcastOnline
  <2>2. ASSUME NEW k \in Conns, BroadcastOffline(k)
        PROVE  left' \in [Conns -> Seq(Frames)]
    BY <2>2 DEF BroadcastOffline
  <2>3. ASSUME NEW k \in Conns, RouteLeft(k)
        PROVE  left' \in [Conns -> Seq(Frames)]
    <3>1. left[k] \in Seq(Frames) /\ left[k] # <<>>
      BY <2>3 DEF RouteLeft
    <3>2. Tail(left[k]) \in Seq(Frames)
      BY <3>1
    <3>3. left' = [left EXCEPT ![k] = Tail(left[k])]
      BY <2>3 DEF RouteLeft
    <3>4. QED
      BY <3>2, <3>3
  <2>4. left' \in [Conns -> Seq(Frames)]
    BY <1>5, <2>1, <2>2, <2>3 DEF Announces, Leftover
  <2>5. UNCHANGED <<link, conn, up, down>> /\ greet' \subseteq greet /\ bye' \subseteq bye
    BY <1>5, AnnounceSteps, LeftoverSteps
  <2>6. QED
    BY <2>4, <2>5
<1>6. CASE RouteFrame
  BY <1>6 DEF RouteFrame
<1>7. ASSUME NEW c \in Clients, MarkAndForward(c)
      PROVE  LinkTypes'
  <2>1. Head(toRelay[c]) \in Offsets
    BY <1>7 DEF MarkAndForward, AskingHolds, RelayTypes
  <2>2. Append(down, Head(toRelay[c])) \in Seq(Offsets)
    BY <2>1
  <2>3. UNCHANGED <<link, conn, greet, bye, left, up>>
        /\ (down' = down \/ down' = Append(down, Head(toRelay[c])))
    BY <1>7 DEF MarkAndForward
  <2>4. QED
    BY <2>2, <2>3
<1>8. CASE UNCHANGED <<linkVars, up, down>>
  BY <1>8
<1>9. QED
  BY <1>1, <1>2, <1>3, <1>4, <1>5, <1>6, <1>7, <1>8, Steps
  DEF Emit, Flush, ReadRing, ResolveAgent, PageOpens, PageDrops, HearsState, ShowsFrame

LEMMA RelayTypesKept ==
    ASSUME LinkTypes, RelayTypes, PageTypes, AskingHolds, Next
    PROVE  RelayTypes' /\ AskingHolds'
<1> USE DEF RelayTypes, relayVars, AskingHolds
<1>1. CASE RelayLoses \/ RelayNotices
  BY <1>1 DEF RelayLoses, RelayNotices, Unregister
<1>2. CASE Announces
  <2>1. PICK m \in States : m = State(Online)
    BY StateTyped
  <2>2. ASSUME NEW c \in Clients
        PROVE  Append(toClient[c], m) \in Seq(Frames \cup States)
    OBVIOUS
  <2>3. TellAll /\ UNCHANGED <<att, asking, astray, toRelay>>
    BY <1>2, AnnounceSteps
  <2>4. toClient' \in [Clients -> Seq(Frames \cup States)]
    BY <2>1, <2>2, <2>3 DEF TellAll
  <2>5. QED
    BY <2>3, <2>4
<1>3. CASE RouteFrame \/ Leftover
  <2>1. PICK f \in Frames : Route(f) /\ astray' \subseteq Clients /\ UNCHANGED <<asking, toRelay>>
    <3>1. CASE RouteFrame
      <4>1. Head(up) \in Frames
        BY <3>1 DEF RouteFrame, LinkTypes
      <4>2. QED
        BY <3>1, <4>1 DEF RouteFrame
    <3>2. CASE Leftover
      BY <3>2, LeftoverSteps
    <3>3. QED
      BY <1>3, <3>1, <3>2
  <2>2. ASSUME NEW c \in Clients
        PROVE  Append(toClient[c], f) \in Seq(Frames \cup States)
    OBVIOUS
  <2>3. QED
    BY <2>1, <2>2 DEF Route
<1>4. ASSUME NEW c \in Clients, ResolveAgent(c)
      PROVE  RelayTypes' /\ AskingHolds'
  <2>1. CASE Online
    <3>1. conn \in 0..MaxConn
      BY Numbers DEF LinkTypes
    <3>2. /\ asking' = [asking EXCEPT ![c] = conn] /\ toRelay[c] # <<>>
          /\ UNCHANGED <<att, astray, toRelay, toClient>>
      BY <1>4, <2>1 DEF ResolveAgent
    <3>3. QED
      BY <3>1, <3>2
  <2>2. CASE ~Online
    <3>1. Tail(toRelay[c]) \in Seq(Offsets)
      BY <1>4 DEF ResolveAgent
    <3>2. QED
      BY <1>4, <2>2, <3>1 DEF ResolveAgent
  <2>3. QED
    BY <2>1, <2>2
<1>5. ASSUME NEW c \in Clients, MarkAndForward(c)
      PROVE  RelayTypes' /\ AskingHolds'
  <2>1. /\ att' = [att EXCEPT ![c] = "pending"] /\ asking' = [asking EXCEPT ![c] = 0]
        /\ toRelay' = [toRelay EXCEPT ![c] = Tail(toRelay[c])] /\ UNCHANGED toClient
        /\ astray' \subseteq astray /\ asking[c] # 0
    BY <1>5 DEF MarkAndForward
  <2>2. toRelay[c] \in Seq(Offsets) /\ toRelay[c] # <<>>
    BY <2>1
  <2>3. Tail(toRelay[c]) \in Seq(Offsets)
    BY <2>2
  <2>4. QED
    BY <2>1, <2>3, Numbers
<1>6. ASSUME NEW c \in Clients, PageOpens(c)
      PROVE  RelayTypes' /\ AskingHolds'
  <2>1. PICK m \in States : m = State(Online)
    BY StateTyped
  <2>2. <<m>> \in Seq(Frames \cup States) /\ <<lastSeq[c]>> \in Seq(Offsets)
    BY DEF PageTypes
  <2>3. /\ toClient' = [toClient EXCEPT ![c] = <<m>>]
        /\ toRelay' = [toRelay EXCEPT ![c] = <<lastSeq[c]>>]
        /\ UNCHANGED relayVars /\ <<lastSeq[c]>> # <<>>
    BY <1>6, <2>1 DEF PageOpens
  <2>4. QED
    BY <2>2, <2>3
<1>7. ASSUME NEW c \in Clients, PageDrops(c)
      PROVE  RelayTypes' /\ AskingHolds'
  BY <1>7 DEF PageDrops
<1>8. ASSUME NEW c \in Clients, HearsState(c)
      PROVE  RelayTypes' /\ AskingHolds'
  <2>1. lastSeq[c] \in Offsets
    BY DEF PageTypes
  <2>2. /\ Append(toRelay[c], lastSeq[c]) \in Seq(Offsets) /\ Append(toRelay[c], lastSeq[c]) # <<>>
    BY <2>1, AppendLonger
  <2>3. toClient' \in [Clients -> Seq(Frames \cup States)] /\ UNCHANGED relayVars
    BY <1>8 DEF HearsState
  <2>4. toRelay' = toRelay \/ toRelay' = [toRelay EXCEPT ![c] = Append(toRelay[c], lastSeq[c])]
    BY <1>8 DEF HearsState
  <2>5. QED
    BY <2>2, <2>3, <2>4
<1>9. ASSUME NEW c \in Clients, ShowsFrame(c)
      PROVE  RelayTypes' /\ AskingHolds'
  BY <1>9 DEF ShowsFrame
<1>10. CASE UNCHANGED <<relayVars, toRelay, toClient>>
  BY <1>10
<1>11. CASE Reconnect
  BY <1>11 DEF Reconnect
<1>12. QED
  BY <1>1, <1>2, <1>3, <1>4, <1>5, <1>6, <1>7, <1>8, <1>9, <1>10, <1>11, Steps
  DEF Emit, Flush, Attach, ReadRing, SendFrame, AgentLoses

LEMMA PageTypesKept ==
    ASSUME LinkTypes, RelayTypes, PageTypes, Next
    PROVE  PageTypes'
<1> USE DEF PageTypes, pageVars
<1>1. ASSUME NEW c \in Clients, PageOpens(c) \/ PageDrops(c)
      PROVE  PageTypes'
  <2>1. CASE PageOpens(c)
    BY <2>1 DEF PageOpens
  <2>2. CASE PageDrops(c)
    BY <2>2, Numbers DEF PageDrops
  <2>3. QED
    BY <1>1, <2>1, <2>2
<1>2. ASSUME NEW c \in Clients, HearsState(c)
      PROVE  PageTypes'
  BY <1>2 DEF HearsState
<1>3. ASSUME NEW c \in Clients, ShowsFrame(c)
      PROVE  PageTypes'
  <2>1. Head(toClient[c]) \in Frames
    BY <1>3 DEF ShowsFrame, RelayTypes, States
  <2>2. Head(toClient[c]).to \in Offsets
    BY <2>1 DEF Frames
  <2>3. QED
    BY <1>3, <2>2 DEF ShowsFrame
<1>4. CASE UNCHANGED pageVars
  BY <1>4
<1>5. CASE Announces \/ Leftover
  BY <1>4, <1>5, AnnounceSteps, LeftoverSteps
<1>6. QED
  BY <1>1, <1>2, <1>3, <1>4, <1>5, Steps
  DEF Emit, Flush, Attach, ReadRing, SendFrame, AgentLoses, RelayLoses, RelayNotices,
      Unregister, Reconnect, RouteFrame, ResolveAgent, MarkAndForward

LEMMA TInvKept == TInv /\ [Next]_vars => TInv'
<1> SUFFICES ASSUME TInv, [Next]_vars
             PROVE  TInv'
  OBVIOUS
<1>1. AgentTypes /\ LinkTypes /\ RelayTypes /\ PageTypes /\ AskingHolds
  BY TypeParts DEF TInv
<1>2. ASSUME AgentTypes', LinkTypes', RelayTypes', PageTypes', AskingHolds'
      PROVE  TInv'
  BY <1>2 DEF TInv, TypeOK, AgentTypes, LinkTypes, RelayTypes, PageTypes
<1>3. CASE Next
  BY <1>1, <1>2, <1>3, AgentTypesKept, LinkTypesKept, RelayTypesKept, PageTypesKept
<1>4. CASE UNCHANGED vars
  BY <1>1, <1>2, <1>4
  DEF vars, agentVars, linkVars, relayVars, pageVars, AgentTypes, LinkTypes, RelayTypes,
      PageTypes, AskingHolds
<1>5. QED
  BY <1>3, <1>4

(* Every variable keeps its type: what is queued is a frame, an offset or a   *)
(* state, flushed never passes seq, and no handler forwards an attach that is *)
(* not there.                                                                *)
THEOREM TypeCorrect == Spec => []TypeOK
<1>1. TInv => TypeOK
  BY DEF TInv
<1>2. QED
  BY <1>1, InitTInv, TInvKept, PTL DEF Spec
-------------------------------------------------------------------------------
(* The pages and the attachments *)

LEMMA TInvParts ==
    ASSUME TInv
    PROVE  AgentTypes /\ LinkTypes /\ RelayTypes /\ PageTypes /\ AskingHolds
  BY TypeParts DEF TInv

LEMMA PageClosedKept ==
    ASSUME TInv, PageClosed, Next
    PROVE  PageClosed'
<1> USE TInvParts DEF PageClosed, RelayTypes, PageTypes
<1>1. CASE RelayLoses \/ RelayNotices
  BY <1>1 DEF RelayLoses, RelayNotices, Unregister, pageVars
<1>2. CASE Announces
  BY <1>2, AnnounceSteps DEF TellAll
<1>3. CASE RouteFrame \/ Leftover
  <2>1. PICK f : Route(f) /\ UNCHANGED <<open, toRelay>>
    BY <1>3, LeftoverSteps DEF RouteFrame, pageVars
  <2>2. QED
    BY <2>1 DEF Route, Gets
<1>4. ASSUME NEW c \in Clients, ResolveAgent(c) \/ MarkAndForward(c)
      PROVE  PageClosed'
  <2>1. open[c] /\ UNCHANGED open
    BY <1>4 DEF ResolveAgent, MarkAndForward, AskingHolds, pageVars
  <2>2. \A k \in Clients : k # c => UNCHANGED <<att[k], toClient[k], toRelay[k]>>
    BY <1>4 DEF ResolveAgent, MarkAndForward
  <2>3. QED
    BY <2>1, <2>2
<1>5. ASSUME NEW c \in Clients, PageOpens(c) \/ PageDrops(c)
      PROVE  PageClosed'
  <2>1. \A k \in Clients : k # c => UNCHANGED <<att[k], toClient[k], toRelay[k], open[k]>>
    BY <1>5 DEF PageOpens, PageDrops, relayVars
  <2>2. open'[c] \/ (att'[c] = "absent" /\ toClient'[c] = <<>> /\ toRelay'[c] = <<>>)
    BY <1>5 DEF PageOpens, PageDrops
  <2>3. QED
    BY <2>1, <2>2
<1>6. ASSUME NEW c \in Clients, HearsState(c) \/ ShowsFrame(c)
      PROVE  PageClosed'
  <2>1. open[c] /\ UNCHANGED <<open, att>>
    BY <1>6 DEF HearsState, ShowsFrame, relayVars
  <2>2. \A k \in Clients : k # c => UNCHANGED <<toClient[k], toRelay[k]>>
    BY <1>6 DEF HearsState, ShowsFrame
  <2>3. QED
    BY <2>1, <2>2
<1>7. CASE UNCHANGED <<att, toRelay, toClient, open>>
  BY <1>7
<1>8. QED
  BY <1>1, <1>2, <1>3, <1>4, <1>5, <1>6, <1>7, Steps
  DEF Emit, Flush, Attach, ReadRing, SendFrame, AgentLoses, Reconnect, relayVars, pageVars

LEMMA DownIsQuietKept ==
    ASSUME TInv, DownIsQuiet, Next
    PROVE  DownIsQuiet'
<1> USE TInvParts DEF DownIsQuiet, RelayTypes, linkVars, relayVars
<1>1. CASE SendFrame
  BY <1>1 DEF SendFrame
<1>2. CASE AgentLoses \/ Reconnect
  BY <1>2 DEF AgentLoses, Reconnect
<1>3. CASE RelayLoses \/ RelayNotices
  BY <1>3 DEF RelayLoses, RelayNotices, Unregister
<1>4. CASE RouteFrame
  BY <1>4 DEF RouteFrame
<1>5. ASSUME NEW c \in Clients, MarkAndForward(c) \/ PageDrops(c)
      PROVE  DownIsQuiet'
  <2>1. /\ UNCHANGED <<link, up>> /\ astray \subseteq astray' \cup {c}
        /\ att'[c] # "live" /\ \A k \in Clients : k # c => att'[k] = att[k]
    BY <1>5 DEF MarkAndForward, PageDrops
  <2>2. QED
    BY <2>1
<1>6. CASE UNCHANGED <<link, up, att, astray>>
  BY <1>6
<1>7. CASE Announces
  BY <1>6, <1>7, AnnounceSteps
<1>8. CASE Leftover
  BY <1>8, LeftoverSteps DEF Route
<1>9. QED
  BY <1>1, <1>2, <1>3, <1>4, <1>5, <1>6, <1>7, <1>8, Steps
  DEF Emit, Flush, Attach, ReadRing, ResolveAgent, PageOpens, HearsState, ShowsFrame
-------------------------------------------------------------------------------
(* The output *)

(* What a step does to the frames the relay will still read. *)
LEMMA PipeSteps ==
    ASSUME TInv, DownIsQuiet, Next
    PROVE  /\ Pipe \in Seq(Frames)
           /\ Flush \/ Attach => job.todo = <<>> /\ job'.todo = Batch /\ flushed' = seq
                 /\ Pipe' = IF link = "up" THEN Pipe \o Batch ELSE Pipe
           /\ ReadRing => job.todo = <<>> /\ flushed' = flushed
                 /\ Pipe' = IF link = "up" THEN Pipe \o job'.todo ELSE Pipe
           /\ SendFrame => Pipe' = Pipe /\ flushed' = flushed /\ job.todo # <<>>
                 /\ (job'.todo = <<>> \/ job'.todo = Tail(job.todo))
           /\ AgentLoses => Pipe' = up /\ Pipe = up \o job.todo /\ UNCHANGED <<job, flushed>>
           /\ RelayLoses \/ RelayNotices => Pipe' = <<>> /\ UNCHANGED <<job, flushed>>
           /\ Reconnect => Pipe' = job.todo /\ UNCHANGED <<job, flushed>>
           /\ RouteFrame => Pipe # <<>> /\ Pipe' = Tail(Pipe) /\ Pipe[1] = Head(up)
                 /\ UNCHANGED <<job, flushed, link>>
           /\ ~(Flush \/ Attach \/ ReadRing \/ SendFrame \/ AgentLoses \/ RelayLoses
                \/ RelayNotices \/ Reconnect \/ RouteFrame) => UNCHANGED <<Pipe, job, flushed, link>>
           /\ ~(AgentLoses \/ RelayLoses \/ RelayNotices \/ Reconnect) => UNCHANGED link
<1>0. up \in Seq(Frames) /\ job.todo \in Seq(Frames) /\ up \o <<>> = up /\ Batch \in Seq(Frames)
      /\ AgentTypes
  BY TInvParts, BatchProps DEF LinkTypes, AgentTypes
<1>1. Pipe \in Seq(Frames)
  BY <1>0 DEF Pipe
<1>2. ASSUME Flush \/ Attach
      PROVE  /\ job.todo = <<>> /\ job'.todo = Batch /\ flushed' = seq
             /\ Pipe' = IF link = "up" THEN Pipe \o Batch ELSE Pipe
  <2>1. job.todo = <<>> /\ flushed' = seq /\ UNCHANGED <<link, up>>
    BY <1>2 DEF Flush, Attach, NoJob, linkVars
  <2>2. job'.todo = Batch
    <3>1. CASE job' = [NoJob EXCEPT !.kind = "flush", !.todo = Batch]
      BY <3>1 DEF NoJob
    <3>2. CASE job' = [kind |-> "replay", since |-> Head(down), todo |-> Batch, read |-> FALSE]
      BY <3>2
    <3>3. QED
      BY <1>2, <3>1, <3>2 DEF Flush, Attach
  <2>3. QED
    BY <1>0, <2>1, <2>2 DEF Pipe
<1>3. ASSUME ReadRing
      PROVE  /\ job.todo = <<>> /\ flushed' = flushed
             /\ Pipe' = IF link = "up" THEN Pipe \o job'.todo ELSE Pipe
  BY <1>0, <1>3 DEF ReadRing, Pipe, linkVars
<1>4. ASSUME SendFrame
      PROVE  /\ Pipe' = Pipe /\ flushed' = flushed /\ job.todo # <<>>
             /\ job'.todo = <<>> \/ job'.todo = Tail(job.todo)
  <2>0. job.todo # <<>> /\ Len(job.todo) \in Nat \ {0} /\ UNCHANGED <<flushed, link>>
    BY <1>0, <1>4 DEF SendFrame, linkVars
  <2>1. /\ job'.todo = <<>> \/ job'.todo = Tail(job.todo)
        /\ job'.todo = Tail(job.todo)
    <3>1. CASE job' = NoJob /\ Len(job.todo) = 1
      <4>1. Tail(job.todo) = <<>>
        BY <1>0, <3>1, TailOfOne
      <4>2. QED
        BY <3>1, <4>1 DEF NoJob
    <3>2. CASE job' = [job EXCEPT !.todo = Tail(job.todo)]
      BY <1>0, <3>2 DEF AgentTypes
    <3>3. QED
      BY <1>4, <3>1, <3>2 DEF SendFrame
  <2>2. CASE link = "up"
    <3>1. up' = Append(up, Head(job.todo))
      BY <1>4, <2>2 DEF SendFrame
    <3>2. Append(up, Head(job.todo)) \o Tail(job.todo) = up \o job.todo
      BY <1>0, <2>0, HandOver
    <3>3. QED
      BY <2>0, <2>1, <2>2, <3>1, <3>2 DEF Pipe
  <2>3. CASE link # "up"
    BY <1>4, <2>0, <2>1, <2>3 DEF SendFrame, Pipe
  <2>4. QED
    BY <2>0, <2>1, <2>2, <2>3
<1>5. ASSUME AgentLoses
      PROVE  Pipe' = up /\ Pipe = up \o job.todo /\ UNCHANGED <<job, flushed>>
  BY <1>5 DEF AgentLoses, Pipe, agentVars
<1>6. ASSUME RelayLoses \/ RelayNotices
      PROVE  Pipe' = <<>> /\ UNCHANGED <<job, flushed>>
  BY <1>6 DEF RelayLoses, RelayNotices, Unregister, Pipe, agentVars
<1>7. ASSUME Reconnect
      PROVE  Pipe' = job.todo /\ UNCHANGED <<job, flushed>>
  <2>1. <<>> \o job.todo = job.todo
    BY <1>0
  <2>2. QED
    BY <1>7, <2>1 DEF Reconnect, Pipe, agentVars
<1>8. ASSUME RouteFrame
      PROVE  /\ Pipe # <<>> /\ Pipe' = Tail(Pipe) /\ Pipe[1] = Head(up)
             /\ UNCHANGED <<job, flushed, link>>
  <2>1. up # <<>> /\ up' = Tail(up) /\ UNCHANGED <<job, flushed, link>>
    BY <1>8 DEF RouteFrame, agentVars, linkVars
  <2>2. /\ up \o job.todo # <<>> /\ Tail(up \o job.todo) = Tail(up) \o job.todo
        /\ (up \o job.todo)[1] = Head(up) /\ up[1] = Head(up)
    BY <1>0, <2>1
  <2>3. QED
    BY <2>1, <2>2 DEF Pipe
<1>9. ASSUME ~(Flush \/ Attach \/ ReadRing \/ SendFrame \/ AgentLoses \/ RelayLoses
               \/ RelayNotices \/ Reconnect \/ RouteFrame)
      PROVE  UNCHANGED <<Pipe, job, flushed, link>>
  <2>1. UNCHANGED <<up, job, flushed, link>>
    BY <1>9, Steps, TInvParts, AnnounceSteps, LeftoverSteps
    DEF Emit, ResolveAgent, MarkAndForward, PageOpens, PageDrops, HearsState, ShowsFrame,
        agentVars, linkVars
  <2>2. QED
    BY <2>1 DEF Pipe
<1>10. ASSUME ~(AgentLoses \/ RelayLoses \/ RelayNotices \/ Reconnect)
       PROVE  UNCHANGED link
  BY <1>9, <1>10 DEF Flush, Attach, ReadRing, SendFrame, RouteFrame, linkVars
<1>11. QED
  BY <1>1, <1>2, <1>3, <1>4, <1>5, <1>6, <1>7, <1>8, <1>9, <1>10
(* What flushed up to seq does not reach is not reached up to flushed. *)
LEMMA EndsEarlier ==
    ASSUME NEW s \in Seq(Frames), NEW x \in Nat, NEW y \in Nat, y <= x, EndsAt(s, x)
    PROVE  EndsAt(s, y)
<1> SUFFICES ASSUME NEW i \in 1..Len(s), Ends(s[i]), NoneOut(s, i + 1, Len(s))
             PROVE  y <= s[i].to
  BY DEF EndsAt, Reaches
<1>1. x <= s[i].to
  BY DEF EndsAt, Reaches
<1>2. s[i] \in Frames
  OBVIOUS
<1>3. s[i].to \in Nat
  BY <1>2, Numbers DEF Frames, Offsets
<1>4. QED
  BY <1>1, <1>3

LEMMA EmptyLinked ==
    Linked(<<>>) /\ (\A x : EndsAt(<<>>, x)) /\ (\A j : ~FirstOut(<<>>, j))
  BY DEF Linked, EndsAt, Reaches, FirstOut

LEMMA SnapLinked ==
    ASSUME NEW s \in Seq(Frames), NoneOut(s, 1, Len(s))
    PROVE  Linked(s) /\ \A j : ~FirstOut(s, j)
  BY DEF Linked, FirstOut, NoneOut

LEMMA JobLinkedKept ==
    ASSUME TInv, DownIsQuiet, JobLinked, Next
    PROVE  JobLinked'
<1> USE DEF JobLinked
<1>0. AgentTypes /\ job.todo \in Seq(Frames)
  BY TInvParts DEF AgentTypes
<1>1. CASE Flush \/ Attach
  BY <1>0, <1>1, PipeSteps, BatchProps DEF AgentTypes
<1>2. CASE ReadRing
  <2>1. EndsAt(job'.todo, seq) /\ job'.todo \in Seq(Frames) /\ Linked(job'.todo)
    BY <1>0, <1>2, ReplayProps, SnapLinked
  <2>2. EndsAt(job'.todo, flushed)
    BY <1>0, <2>1, OffsetsInNat, EndsEarlier
  <2>3. QED
    BY <1>2, <2>1, <2>2, PipeSteps
<1>3. CASE SendFrame
  <2>1. flushed' = flushed /\ job.todo # <<>> /\ (job'.todo = <<>> \/ job'.todo = Tail(job.todo))
    BY <1>3, PipeSteps
  <2>2. QED
    BY <1>0, <2>1, TailReaches, EmptyLinked
<1>4. CASE UNCHANGED <<job, flushed>>
  BY <1>4
<1>5. QED
  BY <1>1, <1>2, <1>3, <1>4, PipeSteps

LEMMA PipeLinkedKept ==
    ASSUME TInv, DownIsQuiet, JobLinked, PipeLinked, Next
    PROVE  PipeLinked'
<1> USE DEF PipeLinked
<1>0. AgentTypes /\ Pipe \in Seq(Frames) /\ up \in Seq(Frames) /\ job.todo \in Seq(Frames)
  BY TInvParts, PipeSteps DEF AgentTypes, LinkTypes
<1>1. CASE Flush \/ Attach
  <2>1. /\ flushed' = seq /\ Pipe' = IF link = "up" THEN Pipe \o Batch ELSE Pipe
        /\ link' = link
    BY <1>1, PipeSteps DEF Flush, Attach, linkVars
  <2>2. /\ Batch \in Seq(Frames) /\ Linked(Batch) /\ EndsAt(Batch, seq)
        /\ \A j : FirstOut(Batch, j) => Batch[j].from = flushed
        /\ NoneOut(Batch, 1, Len(Batch)) => flushed = seq
    BY <1>0, BatchProps DEF AgentTypes
  <2>3. link = "up" =>
          /\ Linked(Pipe) /\ \A j : FirstOut(Batch, j) => EndsAt(Pipe, Batch[j].from)
          /\ NoneOut(Batch, 1, Len(Batch)) => EndsAt(Pipe, seq)
    BY <2>2
  <2>4. ASSUME link = "up"
        PROVE  Linked(Pipe \o Batch) /\ EndsAt(Pipe \o Batch, seq)
    <3>1. Linked(Pipe \o Batch)
      BY <1>0, <2>2, <2>3, <2>4, ConcatReaches
    <3>2. EndsAt(Pipe \o Batch, seq)
      BY <1>0, <2>2, <2>3, <2>4, ConcatReaches
    <3>3. QED
      BY <3>1, <3>2
  <2>5. QED
    BY <2>1, <2>4
<1>2. CASE ReadRing
  <2>1. /\ flushed' = flushed /\ Pipe' = IF link = "up" THEN Pipe \o job'.todo ELSE Pipe
        /\ link' = link
    BY <1>2, PipeSteps DEF ReadRing, linkVars
  <2>2. EndsAt(job'.todo, seq) /\ job'.todo \in Seq(Frames) /\ NoneOut(job'.todo, 1, Len(job'.todo))
    BY <1>0, <1>2, ReplayProps
  <2>3. /\ Linked(job'.todo) /\ EndsAt(job'.todo, flushed)
        /\ \A j : ~FirstOut(job'.todo, j)
    BY <1>0, <2>2, OffsetsInNat, EndsEarlier, SnapLinked
  <2>4. link = "up" => Linked(Pipe \o job'.todo) /\ EndsAt(Pipe \o job'.todo, flushed)
    BY <1>0, <2>2, <2>3, ConcatReaches
  <2>5. QED
    BY <2>1, <2>4
<1>3. CASE SendFrame
  BY <1>3, PipeSteps DEF SendFrame, linkVars
<1>4. CASE AgentLoses
  <2>1. Linked(up)
    <3>1. Linked(up \o job.todo)
      BY <1>4, PipeSteps
    <3>2. QED
      BY <1>0, <3>1, ConcatReaches
  <2>2. QED
    BY <1>4, <2>1, PipeSteps DEF AgentLoses
<1>5. CASE RelayLoses \/ RelayNotices
  BY <1>5, PipeSteps, EmptyLinked DEF RelayLoses, RelayNotices, Unregister
<1>6. CASE Reconnect
  BY <1>6, PipeSteps DEF JobLinked
<1>7. CASE RouteFrame
  BY <1>0, <1>7, PipeSteps, TailReaches
<1>8. CASE UNCHANGED <<Pipe, flushed, link>>
  BY <1>8
<1>9. QED
  BY <1>1, <1>2, <1>3, <1>4, <1>5, <1>6, <1>7, <1>8, PipeSteps
(* What a step does to the queue and the terminal of a console. *)
Quiet(c) == toClient'[c] = toClient[c] /\ at'[c] = at[c]
Tells(c, m) == toClient'[c] = Append(toClient[c], m) /\ at'[c] = at[c]
Takes(c) ==
    /\ toClient[c] # <<>> /\ toClient'[c] = Tail(toClient[c])
    /\ at'[c] = IF toClient[c][1].kind = "state" THEN at[c] ELSE toClient[c][1].to
Fresh(c) ==
    /\ toClient'[c] = <<>> \/ toClient'[c] = <<State(Online)>>
    /\ \/ ~open[c] /\ att'[c] = att[c]
       \/ att'[c] = "absent"
Routed(c) ==
    LET f == Head(up)
    IN /\ IF Gets(c, f) THEN Tells(c, f) ELSE Quiet(c)
       /\ att'[c] = IF Gets(c, f) /\ FinalSnap(f) THEN "live" ELSE att[c]

LEMMA ClientSteps ==
    ASSUME TInv, Next, NEW c \in Clients, c \notin astray'
    PROVE  \/ RouteFrame /\ Routed(c) /\ c \notin astray
           \/ /\ ~RouteFrame
              /\ Quiet(c) \/ Tells(c, State(Online)) \/ Takes(c) \/ Fresh(c)
              /\ att'[c] = "live" => att[c] = "live" /\ c \notin astray
<1> USE TInvParts DEF RelayTypes, PageTypes
<1>1. CASE RouteFrame
  <2>1. Routed(c)
    BY <1>1 DEF RouteFrame, Route, Routed, Tells, Quiet, FinalSnap, pageVars
  <2>2. QED
    BY <1>1, <2>1 DEF RouteFrame
<1>2. CASE Leftover /\ ~RouteFrame
  <2>1. PICK f : /\ Route(f) /\ astray' = astray \cup {k \in Clients : Gets(k, f)}
                 /\ UNCHANGED at
    BY <1>2, LeftoverSteps
  <2>2. ~Gets(c, f) /\ c \notin astray
    BY <2>1
  <2>3. QED
    BY <1>2, <2>1, <2>2 DEF Route, Quiet
<1>3. ASSUME ~RouteFrame, ~Leftover
      PROVE  att'[c] = "live" => att[c] = "live" /\ c \notin astray
  <2>1. CASE RelayLoses \/ RelayNotices
    BY <2>1 DEF RelayLoses, RelayNotices, Unregister
  <2>2. ASSUME NEW k \in Clients, MarkAndForward(k) \/ PageDrops(k)
        PROVE  att'[c] = "live" => att[c] = "live" /\ c \notin astray
    BY <2>2 DEF MarkAndForward, PageDrops
  <2>3. CASE Reconnect
    BY <2>3 DEF Reconnect
  <2>4. CASE UNCHANGED <<att, astray>>
    BY <2>4
  <2>5. QED
    BY <1>3, <2>1, <2>2, <2>3, <2>4, Steps, AnnounceSteps
    DEF Emit, Flush, Attach, ReadRing, SendFrame, AgentLoses, ResolveAgent, PageOpens,
        HearsState, ShowsFrame, relayVars
<1>4. ASSUME ~RouteFrame, ~Leftover
      PROVE  Quiet(c) \/ Tells(c, State(Online)) \/ Takes(c) \/ Fresh(c)
  <2>1. CASE Announces
    BY <2>1, AnnounceSteps DEF TellAll, Quiet, Tells
  <2>2. ASSUME NEW k \in Clients, PageOpens(k)
        PROVE  Quiet(c) \/ Fresh(c)
    BY <2>2 DEF PageOpens, Quiet, Fresh, relayVars
  <2>3. ASSUME NEW k \in Clients, PageDrops(k)
        PROVE  Quiet(c) \/ Fresh(c)
    BY <2>3 DEF PageDrops, Quiet, Fresh
  <2>4. ASSUME NEW k \in Clients, HearsState(k)
        PROVE  Quiet(c) \/ Takes(c)
    BY <2>4 DEF HearsState, Quiet, Takes
  <2>5. ASSUME NEW k \in Clients, ShowsFrame(k)
        PROVE  Quiet(c) \/ Takes(c)
    BY <2>5 DEF ShowsFrame, Quiet, Takes
  <2>6. CASE UNCHANGED <<toClient, at>>
    BY <2>6 DEF Quiet
  <2>7. QED
    BY <1>4, <2>1, <2>2, <2>3, <2>4, <2>5, <2>6, Steps
    DEF Emit, Flush, Attach, ReadRing, SendFrame, AgentLoses, RelayLoses, RelayNotices,
        Unregister, Reconnect, ResolveAgent, MarkAndForward, pageVars
<1>5. QED
  BY <1>1, <1>2, <1>3, <1>4

LEMMA ReachKept ==
    ASSUME TInv, PageClosed, Next, NEW c \in Clients, att'[c] = "live", c \notin astray',
           ~RouteFrame \/ (RouteFrame /\ ~Gets(c, Head(up)))
    PROVE  att[c] = "live" /\ c \notin astray /\ \A x : WillReach(c, x) => WillReach(c, x)'
<1> DEFINE q == toClient[c]
<1>0. q \in Seq(Frames \cup States)
  BY TInvParts DEF RelayTypes
<1>1. c \notin astray
  BY ClientSteps
<1>2. CASE Quiet(c) /\ att[c] = "live"
  BY <1>1, <1>2 DEF Quiet, WillReach
<1>3. CASE Tells(c, State(Online)) /\ att[c] = "live"
  <2>1. PICK m \in States : m = State(Online)
    BY StateTyped
  <2>2. toClient'[c] = Append(q, m) /\ at'[c] = at[c]
    BY <1>3, <2>1 DEF Tells
  <2>3. m.kind = "state" /\ m \in Frames \cup States
    BY <2>1 DEF States
  <2>4. \A x : Covers(q, Len(q), at[c], x)
               => Covers(Append(q, m), Len(Append(q, m)), at[c], x)
    BY <1>0, <2>3, AppendCovers
  <2>5. QED
    BY <1>1, <1>3, <2>2, <2>4 DEF WillReach
<1>4. CASE Takes(c) /\ att[c] = "live"
  <2>1. q # <<>> /\ toClient'[c] = Tail(q)
        /\ at'[c] = IF q[1].kind = "state" THEN at[c] ELSE q[1].to
    BY <1>4 DEF Takes
  <2>2. \A x : Covers(q, Len(q), at[c], x) => Covers(Tail(q), Len(Tail(q)), at'[c], x)
    BY <1>0, <2>1, TailCovers
  <2>3. QED
    BY <1>1, <1>4, <2>1, <2>2 DEF WillReach
<1>5. CASE Fresh(c) /\ att[c] = "live"
  BY <1>1, <1>5 DEF Fresh, PageClosed
<1>6. QED
  BY <1>1, <1>2, <1>3, <1>4, <1>5, ClientSteps DEF Routed

LEMMA LiveCoveredKept ==
    ASSUME TInv, PageClosed, DownIsQuiet, PipeLinked, LiveCovered, Next
    PROVE  LiveCovered'
<1> SUFFICES ASSUME NEW c \in Clients, c \notin astray', att'[c] = "live"
             PROVE  Covered(c)'
  BY DEF LiveCovered
<1>0. /\ AgentTypes /\ Pipe \in Seq(Frames) /\ up \in Seq(Frames) /\ job.todo \in Seq(Frames)
      /\ Linked(Pipe) /\ (link = "up" => EndsAt(Pipe, flushed))
  BY TInvParts, PipeSteps DEF AgentTypes, LinkTypes, PipeLinked
<1>1. CASE RouteFrame /\ Gets(c, Head(up))
  <2> DEFINE f == Head(up)
  <2>1. /\ Pipe # <<>> /\ Pipe[1] = f /\ Pipe' = Tail(Pipe) /\ UNCHANGED <<flushed, link>>
    BY <1>1, PipeSteps
  <2>2. f \in Frames
    BY <1>0, <2>1
  <2>3. Tells(c, f) /\ Ends(f)
    <3>1. Routed(c)
      BY <1>1, ClientSteps
    <3>2. f.kind = "snap" \/ f.kind = "out"
      BY <2>2 DEF Frames
    <3>3. QED
      BY <1>1, <3>1, <3>2 DEF Routed, Gets, Ends, Outs
  <2>4. ASSUME NEW x, x <= f.to
        PROVE  WillReach(c, x)'
    <3>1. toClient[c] \in Seq(Frames \cup States) /\ f \in Frames \cup States /\ f.kind # "state"
      BY <2>2, TInvParts DEF RelayTypes, Frames
    <3>2. Covers(Append(toClient[c], f), Len(Append(toClient[c], f)), at[c], x)
      BY <2>4, <3>1, AppendCovers
    <3>3. QED
      BY <2>3, <3>2 DEF Tells, WillReach
  <2>5. ASSUME NEW j, FirstOut(Tail(Pipe), j)
        PROVE  Tail(Pipe)[j].from <= f.to
    BY <1>0, <2>1, <2>3, <2>5, TailReaches
  <2>6. ASSUME link = "up", NoneOut(Tail(Pipe), 1, Len(Tail(Pipe)))
        PROVE  flushed <= f.to
    BY <1>0, <2>1, <2>3, <2>6, TailReaches
  <2>7. QED
    BY <2>1, <2>4, <2>5, <2>6 DEF Covered
<1>2. ASSUME ~(RouteFrame /\ Gets(c, Head(up)))
      PROVE  /\ att[c] = "live" /\ Covered(c) /\ \A x : WillReach(c, x) => WillReach(c, x)'
             /\ \A j : FirstOut(Pipe, j) => WillReach(c, Pipe[j].from)
  <2>1. att[c] = "live" /\ Covered(c) /\ \A x : WillReach(c, x) => WillReach(c, x)'
    <3>1. att[c] = "live" /\ c \notin astray /\ \A x : WillReach(c, x) => WillReach(c, x)'
      BY <1>2, ReachKept
    <3>2. QED
      BY <3>1 DEF LiveCovered
  <2>2. \A j : FirstOut(Pipe, j) => WillReach(c, Pipe[j].from)
    BY <2>1 DEF Covered, FirstOut
  <2>3. QED
    BY <2>1, <2>2
<1>3. CASE RouteFrame /\ ~Gets(c, Head(up))
  <2>1. /\ Pipe # <<>> /\ Pipe[1] = Head(up) /\ Pipe' = Tail(Pipe) /\ UNCHANGED <<flushed, link>>
    BY <1>3, PipeSteps
  <2>2. ~Outs(Pipe[1])
    BY <1>2, <1>3, <2>1 DEF Gets, Outs
  <2>3. ASSUME NEW j, FirstOut(Tail(Pipe), j)
        PROVE  WillReach(c, Tail(Pipe)[j].from)
    <3>1. FirstOut(Pipe, j + 1) /\ Pipe[j + 1] = Tail(Pipe)[j]
      BY <1>0, <2>1, <2>2, <2>3, TailReaches
    <3>2. QED
      BY <1>2, <1>3, <3>1
  <2>4. link = "up" /\ NoneOut(Tail(Pipe), 1, Len(Tail(Pipe))) => WillReach(c, flushed)
    BY <1>0, <1>2, <1>3, <2>1, <2>2, TailReaches DEF Covered
  <2>5. QED
    BY <1>2, <1>3, <2>1, <2>3, <2>4 DEF Covered
<1>4. CASE Flush \/ Attach
  <2>0. ~RouteFrame
    BY <1>0, <1>4 DEF Flush, Attach, RouteFrame
  <2>1. /\ flushed' = seq /\ Pipe' = IF link = "up" THEN Pipe \o Batch ELSE Pipe
        /\ link' = link
    BY <1>4, PipeSteps DEF Flush, Attach, linkVars
  <2>2. /\ Batch \in Seq(Frames)
        /\ \A j : FirstOut(Batch, j) => Batch[j].from = flushed
        /\ NoneOut(Batch, 1, Len(Batch)) => flushed = seq
    BY <1>0, BatchProps DEF AgentTypes
  <2>3. CASE link = "up"
    <3>1. ASSUME NEW j, FirstOut(Pipe \o Batch, j)
          PROVE  WillReach(c, (Pipe \o Batch)[j].from)
      <4>1. \/ FirstOut(Pipe, j) /\ (Pipe \o Batch)[j] = Pipe[j]
            \/ /\ NoneOut(Pipe, 1, Len(Pipe))
               /\ FirstOut(Batch, j - Len(Pipe)) /\ (Pipe \o Batch)[j] = Batch[j - Len(Pipe)]
        BY <1>0, <2>2, <3>1, ConcatFirst
      <4>2. QED
        BY <1>2, <2>0, <2>2, <2>3, <4>1 DEF Covered
    <3>2. NoneOut(Pipe \o Batch, 1, Len(Pipe \o Batch)) => WillReach(c, seq)
      <4>1. NoneOut(Pipe \o Batch, 1, Len(Pipe \o Batch))
              => NoneOut(Pipe, 1, Len(Pipe)) /\ NoneOut(Batch, 1, Len(Batch))
        BY <1>0, <2>2, ConcatReaches
      <4>2. QED
        BY <1>2, <2>0, <2>2, <2>3, <4>1 DEF Covered
    <3>3. QED
      BY <1>2, <2>0, <2>1, <2>3, <3>1, <3>2 DEF Covered
  <2>4. CASE link # "up"
    BY <1>2, <2>0, <2>1, <2>4 DEF Covered
  <2>5. QED
    BY <2>3, <2>4
<1>5. CASE ReadRing
  <2>0. ~RouteFrame
    BY <1>0, <1>5 DEF ReadRing, RouteFrame
  <2>1. /\ flushed' = flushed /\ Pipe' = IF link = "up" THEN Pipe \o job'.todo ELSE Pipe
        /\ link' = link
    BY <1>5, PipeSteps DEF ReadRing, linkVars
  <2>2. job'.todo \in Seq(Frames) /\ \A j : ~FirstOut(job'.todo, j)
    BY <1>0, <1>5, ReplayProps, SnapLinked
  <2>3. ASSUME NEW j, FirstOut(Pipe \o job'.todo, j)
        PROVE  FirstOut(Pipe, j) /\ (Pipe \o job'.todo)[j] = Pipe[j]
    BY <1>0, <2>2, <2>3, ConcatFirst
  <2>4. NoneOut(Pipe \o job'.todo, 1, Len(Pipe \o job'.todo)) => NoneOut(Pipe, 1, Len(Pipe))
    BY <1>0, <2>2, ConcatReaches
  <2>5. QED
    BY <1>2, <2>0, <2>1, <2>3, <2>4 DEF Covered
<1>6. CASE AgentLoses
  <2>0. ~RouteFrame /\ link' = "cut"
    BY <1>0, <1>6 DEF AgentLoses, RouteFrame, linkVars
  <2>1. Pipe' = up /\ Pipe = up \o job.todo
    BY <1>6, PipeSteps
  <2>2. \A j : FirstOut(up, j) => FirstOut(up \o job.todo, j) /\ (up \o job.todo)[j] = up[j]
    BY <1>0, ConcatReaches
  <2>3. QED
    BY <1>2, <2>0, <2>1, <2>2 DEF Covered
<1>7. CASE RelayLoses \/ RelayNotices
  BY <1>7 DEF RelayLoses, RelayNotices, Unregister
<1>8. CASE Reconnect
  <2>1. att[c] = "live" /\ open[c] /\ c \notin astray
    BY <1>8 DEF Reconnect, PageClosed
  <2>2. Told
    BY <1>8, <2>1 DEF Reconnect
  <2>3. QED
    BY <2>1, <2>2 DEF DownIsQuiet, Told
<1>9. CASE UNCHANGED <<Pipe, flushed, link>> /\ ~RouteFrame
  BY <1>2, <1>9 DEF Covered
<1>10. CASE SendFrame
  <2>1. UNCHANGED <<Pipe, flushed, link>> /\ ~RouteFrame
    BY <1>0, <1>10, PipeSteps DEF SendFrame, linkVars, RouteFrame
  <2>2. QED
    BY <1>9, <2>1
<1>11. QED
  BY <1>1, <1>3, <1>4, <1>5, <1>6, <1>7, <1>8, <1>9, <1>10, PipeSteps
LEMMA InitOInv == Init => OInv
<1> SUFFICES ASSUME Init
             PROVE  OInv
  OBVIOUS
<1>1. PageClosed /\ DownIsQuiet
  BY DEF Init, PageClosed, DownIsQuiet
<1>2. job.todo = <<>> /\ Pipe = <<>>
  <2>1. job.todo = <<>> /\ up = <<>> /\ <<>> \o <<>> = <<>>
    BY DEF Init, NoJob
  <2>2. QED
    BY <2>1 DEF Pipe
<1>3. JobLinked /\ PipeLinked
  BY <1>2, EmptyLinked DEF JobLinked, PipeLinked
<1>4. LiveCovered
  BY DEF Init, LiveCovered
<1>5. QED
  BY <1>1, <1>3, <1>4 DEF OInv

LEMMA OInvKept == TInv /\ OInv /\ [Next]_vars => OInv'
<1> SUFFICES ASSUME TInv, OInv, [Next]_vars
             PROVE  OInv'
  OBVIOUS
<1>0. PageClosed /\ DownIsQuiet /\ JobLinked /\ PipeLinked /\ LiveCovered
  BY DEF OInv
<1>1. CASE Next
  <2>1. PageClosed' /\ DownIsQuiet' /\ JobLinked' /\ PipeLinked' /\ LiveCovered'
    BY <1>0, <1>1, PageClosedKept, DownIsQuietKept, JobLinkedKept, PipeLinkedKept,
       LiveCoveredKept
  <2>2. QED
    BY <2>1 DEF OInv
<1>2. CASE UNCHANGED vars
  <2> USE <1>0, <1>2 DEF vars, agentVars, linkVars, relayVars, pageVars
  <2>1. PageClosed' /\ DownIsQuiet'
    BY DEF PageClosed, DownIsQuiet
  <2>2. UNCHANGED <<Pipe, job, flushed, link, att, astray, toClient, at>>
    BY DEF Pipe
  <2>3. JobLinked' /\ PipeLinked'
    BY <2>2 DEF JobLinked, PipeLinked
  <2>4. LiveCovered'
    BY <2>2 DEF LiveCovered, Covered, WillReach
  <2>5. QED
    BY <2>1, <2>3, <2>4 DEF OInv
<1>3. QED
  BY <1>1, <1>2

(* Live output never skips a byte for a console that is not astray, whatever  *)
(* is attached, replayed, lost and attached again: emit, flush, Replay and     *)
(* routeAgentFrame hand the stream over without a gap, for any sizes and any   *)
(* number of consoles and connections, replaced ones included.               *)
THEOREM OutputContiguous == Spec => []OutputNeverSkips
<1>1. TInv /\ OInv => OutputNeverSkips
  <2> SUFFICES ASSUME TInv, OInv, up # <<>>, Head(up).kind = "out",
                      NEW c \in Clients \ astray, Gets(c, Head(up))
               PROVE  WillReach(c, Head(up).from)
    BY DEF OutputNeverSkips
  <2>1. /\ up \in Seq(Frames) /\ job.todo \in Seq(Frames)
        /\ \A t \in Seq(Frames) : 1 \in 1..Len(up \o t) /\ (up \o t)[1] = Head(up)
    BY TInvParts DEF LinkTypes, AgentTypes
  <2>2. 1 \in 1..Len(Pipe) /\ Pipe[1] = Head(up)
    BY <2>1 DEF Pipe
  <2>3. FirstOut(Pipe, 1)
    BY <2>2 DEF FirstOut, NoneOut, Outs
  <2>4. att[c] = "live"
    BY DEF Gets
  <2>5. QED
    BY <2>2, <2>3, <2>4 DEF OInv, LiveCovered, Covered
<1>2. TInv /\ OInv /\ [Next]_vars => TInv' /\ OInv'
  BY OInvKept, TInvKept
<1>3. QED
  BY <1>1, <1>2, InitTInv, InitOInv, PTL DEF Spec
-------------------------------------------------------------------------------
(* The pending consoles *)

LEMMA OnOff ==
    /\ On \in States /\ Off \in States /\ On # Off
    /\ On.kind = "state" /\ Off.kind = "state" /\ On.online = TRUE /\ Off.online = FALSE
    /\ State(Online) = IF Online THEN On ELSE Off
<1>1. On = [kind |-> "state", online |-> TRUE] /\ Off = [kind |-> "state", online |-> FALSE]
  BY DEF On, Off, State
<1>2. State(Online) = IF Online THEN On ELSE Off
  BY Zenon DEF On, Off, Online
<1>3. /\ On.kind = "state" /\ Off.kind = "state" /\ On.online = TRUE /\ Off.online = FALSE
      /\ On \in States /\ Off \in States
  BY <1>1 DEF States
<1>4. On # Off
  BY <1>3
<1>5. QED
  BY <1>2, <1>3, <1>4

LEMMA AppendTells ==
    ASSUME NEW q \in Seq(Frames \cup States), NEW m \in Frames \cup States, NEW w
    PROVE  /\ Parted(Append(q, Off), w)
           /\ Parted(q, w) => Returns(Append(q, On), w)
           /\ Returns(q, w) => Returns(Append(q, m), w)
<1>1. ASSUME NEW e \in Frames \cup States
      PROVE  /\ Append(q, e) # <<>> /\ Len(Append(q, e)) = Len(q) + 1 /\ Len(q) \in Nat
             /\ Append(q, e)[Len(q) + 1] = e
             /\ \A i \in 1..Len(q) : Append(q, e)[i] = q[i]
  BY AppendLonger
<1>2. Parted(Append(q, Off), w)
  BY <1>1, OnOff DEF Parted
<1>3. ASSUME Parted(q, w)
      PROVE  Returns(Append(q, On), w)
  <2> DEFINE r == Append(q, On)
  <2>1. /\ r # <<>> /\ Len(r) = Len(q) + 1 /\ Len(q) \in Nat /\ r[Len(q) + 1] = On
        /\ \A i \in 1..Len(q) : r[i] = q[i]
    BY <1>1, OnOff
  <2> HIDE DEF r
  <2>2. CASE q = <<>> /\ w = "offline"
    BY <2>1, <2>2 DEF Returns, r
  <2>3. CASE q # <<>> /\ q[Len(q)] = Off
    <3>1. Len(q) \in 1..Len(q) /\ Len(q) + 1 \in 2..Len(r) /\ (Len(q) + 1) - 1 = Len(q)
      BY <2>1, <2>3
    <3>2. QED
      BY <2>1, <2>3, <3>1 DEF Returns, r
  <2>4. QED
    BY <1>3, <2>2, <2>3 DEF Parted
<1>4. ASSUME Returns(q, w)
      PROVE  Returns(Append(q, m), w)
  <2> DEFINE r == Append(q, m)
  <2>1. /\ r # <<>> /\ Len(r) = Len(q) + 1 /\ Len(q) \in Nat
        /\ \A i \in 1..Len(q) : r[i] = q[i]
    BY <1>1
  <2> HIDE DEF r
  <2>2. CASE q # <<>> /\ q[1] = On /\ w = "offline"
    <3>1. 1 \in 1..Len(q)
      BY <2>2
    <3>2. QED
      BY <2>1, <2>2, <3>1 DEF Returns, r
  <2>3. ASSUME NEW i \in 2..Len(q), q[i - 1] = Off, q[i] = On
        PROVE  Returns(r, w)
    <3>1. i \in 2..Len(r) /\ i \in 1..Len(q) /\ i - 1 \in 1..Len(q)
      BY <2>1
    <3>2. QED
      BY <2>1, <2>3, <3>1 DEF Returns
  <2>4. QED
    BY <1>4, <2>2, <2>3 DEF Returns, r
<1>5. QED
  BY <1>2, <1>3, <1>4

(* ... w2 is what the page knows once the first message is handled. *)
LEMMA TailTells ==
    ASSUME NEW q \in Seq(Frames \cup States), q # <<>>, NEW w, NEW w2,
           w2 = IF q[1].kind = "state" THEN IF q[1].online THEN "online" ELSE "offline" ELSE w
    PROVE  /\ Parted(q, w) => Parted(Tail(q), w2)
           /\ Returns(q, w) => Returns(Tail(q), w2) \/ (q[1] = On /\ w = "offline")
<1> DEFINE r == Tail(q)
<1>1. /\ r \in Seq(Frames \cup States) /\ Len(r) = Len(q) - 1 /\ Len(q) \in Nat \ {0}
      /\ \A i \in 1..Len(r) : r[i] = q[i + 1]
  OBVIOUS
<1>2. Len(r) = 0 => r = <<>>
  BY <1>1, EmptySeq
<1> HIDE DEF r
<1>3. ASSUME Parted(q, w)
      PROVE  Parted(r, w2)
  <2>1. q[Len(q)] = Off
    BY <1>3 DEF Parted
  <2>2. CASE Len(q) = 1
    BY <1>1, <1>2, <2>1, <2>2, OnOff DEF Parted
  <2>3. CASE Len(q) # 1
    <3>1. Len(r) \in 1..Len(r) /\ Len(r) + 1 = Len(q) /\ r # <<>>
      BY <1>1, <2>3
    <3>2. QED
      BY <1>1, <2>1, <3>1 DEF Parted
  <2>4. QED
    BY <2>2, <2>3
<1>4. ASSUME NEW i \in 2..Len(q), q[i - 1] = Off, q[i] = On
      PROVE  Returns(r, w2)
  <2>1. i - 1 \in 1..Len(r) /\ r[i - 1] = q[i] /\ r # <<>>
    BY <1>1
  <2>2. CASE i = 2
    BY <1>4, <2>1, <2>2, OnOff DEF Returns
  <2>3. CASE i # 2
    <3>1. i - 1 \in 2..Len(r) /\ (i - 1) - 1 \in 1..Len(r) /\ r[(i - 1) - 1] = q[i - 1]
      BY <1>1, <2>3
    <3>2. QED
      BY <1>4, <2>1, <3>1 DEF Returns
  <2>4. QED
    BY <2>2, <2>3
<1>5. QED
  BY <1>3, <1>4 DEF Returns, r
LEMMA ReplayEndsKept ==
    ASSUME TInv, ReplayEnds, Next
    PROVE  ReplayEnds'
<1> USE DEF ReplayEnds
<1>0. AgentTypes
  BY TInvParts
<1>1. CASE Flush
  <2>1. job'.kind = "flush"
    BY <1>1 DEF Flush, NoJob
  <2>2. QED
    BY <2>1
<1>2. CASE Attach
  <2>1. job'.read = FALSE
    BY <1>2 DEF Attach
  <2>2. QED
    BY <2>1
<1>3. CASE ReadRing
  BY <1>0, <1>3, ReplayProps
<1>4. CASE SendFrame
  <2>1. CASE job' = NoJob
    BY <2>1 DEF NoJob
  <2>2. CASE job' = [job EXCEPT !.todo = Tail(job.todo)] /\ ~(Len(job.todo) = 1 /\ job.read)
    <3> DEFINE s == job.todo
    <3>1. s \in Seq(Frames) /\ s # <<>> /\ job'.todo = Tail(s) /\ UNCHANGED <<job.kind, job.read>>
      BY <1>0, <1>4, <2>2 DEF SendFrame, AgentTypes
    <3>2. CASE job.kind = "replay" /\ job.read
      <4>1. Len(s) # 1 /\ FinalSnap(s[Len(s)]) /\ Len(s) \in Nat \ {0}
        BY <2>2, <3>1, <3>2
      <4>2. Tail(s) # <<>> /\ Tail(s)[Len(Tail(s))] = s[Len(s)]
        BY <3>1, <4>1, TailLast
      <4>3. QED
        BY <3>1, <4>1, <4>2
    <3>3. QED
      BY <3>1, <3>2
  <2>3. QED
    BY <1>4, <2>1, <2>2 DEF SendFrame
<1>5. CASE UNCHANGED job
  BY <1>5
<1>6. CASE Announces \/ Leftover
  BY <1>5, <1>6, TInvParts, AnnounceSteps, LeftoverSteps
<1>7. QED
  BY <1>1, <1>2, <1>3, <1>4, <1>5, <1>6, Steps
  DEF Emit, AgentLoses, RelayLoses, RelayNotices, Unregister, Reconnect, RouteFrame,
      ResolveAgent, MarkAndForward, PageOpens, PageDrops, HearsState, ShowsFrame, agentVars

LEMMA ShapeKept ==
    ASSUME TInv, Shape, Next
    PROVE  Shape'
<1> USE DEF Shape, linkVars
<1>1. CASE AgentLoses
  BY <1>1 DEF AgentLoses
<1>2. CASE RelayLoses \/ RelayNotices
  BY <1>2 DEF RelayLoses, RelayNotices, Unregister
<1>3. CASE Reconnect
  <2>1. bye \subseteq 1..conn /\ conn \in Nat
    BY TInvParts DEF LinkTypes
  <2>2. conn + 1 \notin bye \cup {conn}
    BY <2>1
  <2>3. link' = "up" /\ conn' = conn + 1 /\ bye' \subseteq bye \cup {conn}
    BY <1>3 DEF Reconnect
  <2>4. QED
    BY <2>2, <2>3
<1>4. CASE UNCHANGED <<link, conn>> /\ greet' \subseteq greet /\ bye' \subseteq bye
  BY <1>4
<1>5. CASE Announces \/ Leftover
  BY <1>4, <1>5, TInvParts, AnnounceSteps, LeftoverSteps
<1>6. QED
  BY <1>1, <1>2, <1>3, <1>4, <1>5, Steps
  DEF Emit, Flush, Attach, ReadRing, SendFrame, RouteFrame, ResolveAgent, MarkAndForward,
      PageOpens, PageDrops, HearsState, ShowsFrame

(* The snapshot under way stays under way until it has made its consoles live. *)
LEMMA ServedKept ==
    ASSUME TInv, ReplayEnds, Next, link = "up", link' = "up", Served
    PROVE  Served' \/ (RouteFrame /\ FinalSnap(Head(up)))
<1> USE DEF Served
<1>0. up \in Seq(Frames) /\ down \in Seq(Offsets) /\ AgentTypes
  BY TInvParts DEF LinkTypes
<1>1. CASE Flush
  BY <1>1 DEF Flush, NoJob
<1>2. CASE Attach
  <2>1. job'.kind = "replay"
    BY <1>2 DEF Attach
  <2>2. QED
    BY <2>1
<1>3. CASE ReadRing
  BY <1>3 DEF ReadRing, AgentTypes
<1>4. CASE SendFrame
  <2> DEFINE f == Head(job.todo)
  <2>1. /\ up' = Append(up, f) /\ UNCHANGED down /\ job.todo \in Seq(Frames) /\ job.todo # <<>>
        /\ f \in Frames
    BY <1>0, <1>4 DEF SendFrame, AgentTypes
  <2>2. /\ Len(Append(up, f)) = Len(up) + 1 /\ Append(up, f)[Len(up) + 1] = f /\ Len(up) \in Nat
        /\ \A i \in 1..Len(up) : Append(up, f)[i] = up[i]
    BY <1>0, <2>1
  <2>3. CASE down # <<>>
    BY <2>1, <2>3
  <2>4. ASSUME NEW i \in 1..Len(up), FinalSnap(up[i])
        PROVE  Served'
    BY <2>1, <2>2, <2>4
  <2>5. CASE job.kind = "replay"
    <3>1. CASE Len(job.todo) = 1 /\ job.read
      <4>1. FinalSnap(f)
        BY <2>1, <2>5, <3>1 DEF ReplayEnds
      <4>2. Len(up) + 1 \in 1..Len(up')
        BY <2>1, <2>2
      <4>3. QED
        BY <2>1, <2>2, <4>1, <4>2
    <3>2. CASE ~(Len(job.todo) = 1 /\ job.read)
      <4>1. job' = [job EXCEPT !.todo = Tail(job.todo)]
        BY <1>4, <2>5, <3>2 DEF SendFrame
      <4>2. job'.kind = "replay"
        BY <1>0, <2>5, <4>1 DEF AgentTypes
      <4>3. QED
        BY <4>2
    <3>3. QED
      BY <3>1, <3>2
  <2>6. QED
    BY <2>3, <2>4, <2>5
<1>5. CASE RouteFrame
  <2>1. UNCHANGED <<job, down>> /\ up # <<>> /\ up' = Tail(up)
    BY <1>5 DEF RouteFrame, agentVars
  <2>2. /\ Len(Tail(up)) = Len(up) - 1 /\ Len(up) \in Nat \ {0} /\ up[1] = Head(up)
        /\ \A i \in 1..Len(Tail(up)) : Tail(up)[i] = up[i + 1]
    BY <1>0, <2>1
  <2>3. ASSUME NEW i \in 1..Len(up), FinalSnap(up[i])
        PROVE  Served' \/ FinalSnap(Head(up))
    <3>1. CASE i = 1
      BY <2>2, <2>3, <3>1
    <3>2. CASE i # 1
      <4>1. i - 1 \in 1..Len(up') /\ up'[i - 1] = up[i]
        BY <2>1, <2>2, <3>2
      <4>2. QED
        BY <2>3, <4>1
    <3>3. QED
      BY <3>1, <3>2
  <2>4. QED
    BY <1>5, <2>1, <2>3
<1>6. ASSUME NEW c \in Clients, MarkAndForward(c)
      PROVE  Served'
  <2>1. UNCHANGED <<job, up>>
    BY <1>6 DEF MarkAndForward, agentVars
  <2>2. CASE down' = Append(down, Head(toRelay[c]))
    <3>1. Head(toRelay[c]) \in Offsets
      BY <1>6, TInvParts DEF MarkAndForward, AskingHolds, RelayTypes
    <3>2. down' # <<>>
      BY <1>0, <2>2, <3>1, AppendLonger
    <3>3. QED
      BY <3>2
  <2>3. CASE down' = down
    BY <2>1, <2>3
  <2>4. QED
    BY <1>6, <2>2, <2>3 DEF MarkAndForward
<1>7. CASE UNCHANGED <<job, up, down>>
  BY <1>7
<1>8. CASE Announces \/ Leftover
  BY <1>7, <1>8, TInvParts, AnnounceSteps, LeftoverSteps
<1>9. QED
  BY <1>1, <1>2, <1>3, <1>4, <1>5, <1>6, <1>7, <1>8, Steps
  DEF Emit, AgentLoses, RelayLoses, RelayNotices, Unregister, Reconnect, ResolveAgent,
      PageOpens, PageDrops, HearsState, ShowsFrame, agentVars

(* Steps that leave the connection as it is, and those of a console's own     *)
(* that are treated one by one below.                                        *)
LinkChanges == AgentLoses \/ RelayLoses \/ RelayNotices \/ Reconnect
Own(c) == PageOpens(c) \/ PageDrops(c) \/ MarkAndForward(c)

LEMMA OtherSteps ==
    ASSUME TInv, Next, NEW c \in Clients, ~LinkChanges
    PROVE  /\ UNCHANGED <<link, conn>>
           /\ ~Announces => UNCHANGED <<greet, bye>>
           /\ ~Own(c) => open'[c] = open[c]
           /\ ~Own(c) /\ c \notin astray' => c \notin astray /\ (~RouteFrame => att'[c] = att[c])
           /\ ~Own(c) => \/ asking'[c] = asking[c] /\ (link = "up" => Len(toRelay[c]) <= Len(toRelay'[c]))
                         \/ asking'[c] = conn /\ toRelay'[c] = toRelay[c]
                         \/ asking'[c] = asking[c] /\ link = "down"
<1> USE TInvParts DEF RelayTypes, PageTypes
<1>1. /\ UNCHANGED <<link, conn>>
      /\ ~Announces => UNCHANGED <<greet, bye>>
  BY Steps, AnnounceSteps, LeftoverSteps
  DEF LinkChanges, Emit, Flush, Attach, ReadRing, SendFrame, RouteFrame, ResolveAgent,
      MarkAndForward, PageOpens, PageDrops, HearsState, ShowsFrame, linkVars
<1>2. ASSUME ~Own(c)
      PROVE  open'[c] = open[c]
  <2>1. ASSUME NEW k \in Clients, PageOpens(k) \/ PageDrops(k)
        PROVE  open'[c] = open[c]
    BY <1>2, <2>1 DEF Own, PageOpens, PageDrops
  <2>2. CASE UNCHANGED open
    BY <2>2
  <2>3. QED
    BY <2>1, <2>2, Steps, AnnounceSteps, LeftoverSteps
    DEF LinkChanges, Emit, Flush, Attach, ReadRing, SendFrame, RouteFrame, ResolveAgent,
        MarkAndForward, HearsState, ShowsFrame, pageVars
<1>3. ASSUME ~Own(c), c \notin astray'
      PROVE  c \notin astray /\ (~RouteFrame => att'[c] = att[c])
  <2>1. ASSUME NEW k \in Clients, MarkAndForward(k) \/ PageDrops(k)
        PROVE  c \notin astray /\ att'[c] = att[c]
    BY <1>3, <2>1 DEF Own, MarkAndForward, PageDrops
  <2>2. CASE Leftover
    <3>1. PICK f : Route(f) /\ astray' = astray \cup {k \in Clients : Gets(k, f)}
      BY <2>2, LeftoverSteps
    <3>2. QED
      BY <1>3, <3>1 DEF Route
  <2>3. CASE UNCHANGED <<att, astray>>
    BY <1>3, <2>3
  <2>4. CASE RouteFrame
    BY <1>3, <2>4 DEF RouteFrame
  <2>5. QED
    BY <1>3, <2>1, <2>2, <2>3, <2>4, Steps, AnnounceSteps
    DEF LinkChanges, Emit, Flush, Attach, ReadRing, SendFrame, ResolveAgent, PageOpens,
        HearsState, ShowsFrame, relayVars
<1>4. ASSUME ~Own(c)
      PROVE  \/ asking'[c] = asking[c] /\ (link = "up" => Len(toRelay[c]) <= Len(toRelay'[c]))
             \/ asking'[c] = conn /\ toRelay'[c] = toRelay[c]
             \/ asking'[c] = asking[c] /\ link = "down"
  <2>0. toRelay[c] \in Seq(Offsets) /\ Len(toRelay[c]) \in Nat
    OBVIOUS
  <2>1. ASSUME NEW k \in Clients, ResolveAgent(k)
        PROVE  \/ asking'[c] = asking[c] /\ toRelay'[c] = toRelay[c]
               \/ asking'[c] = conn /\ toRelay'[c] = toRelay[c]
               \/ asking'[c] = asking[c] /\ link = "down"
    BY <2>1 DEF ResolveAgent, Online
  <2>2. ASSUME NEW k \in Clients, MarkAndForward(k) \/ PageOpens(k) \/ PageDrops(k)
        PROVE  asking'[c] = asking[c] /\ toRelay'[c] = toRelay[c]
    BY <1>4, <2>2 DEF Own, MarkAndForward, PageOpens, PageDrops, relayVars
  <2>3. ASSUME NEW k \in Clients, HearsState(k)
        PROVE  asking'[c] = asking[c] /\ Len(toRelay[c]) <= Len(toRelay'[c])
    <3>1. Len(Append(toRelay[c], lastSeq[c])) = Len(toRelay[c]) + 1
      BY <2>0
    <3>2. toRelay'[c] = toRelay[c] \/ toRelay'[c] = Append(toRelay[c], lastSeq[c])
      BY <2>3 DEF HearsState
    <3>3. QED
      BY <2>0, <2>3, <3>1, <3>2 DEF HearsState, relayVars
  <2>4. CASE UNCHANGED <<asking, toRelay>>
    BY <2>0, <2>4
  <2>5. CASE asking'[c] = asking[c] /\ toRelay'[c] = toRelay[c]
    BY <2>0, <2>5
  <2>6. QED
    BY <2>1, <2>2, <2>3, <2>4, <2>5, Steps, AnnounceSteps, LeftoverSteps
    DEF LinkChanges, Emit, Flush, Attach, ReadRing, SendFrame, RouteFrame, ShowsFrame, relayVars
<1>5. QED
  BY <1>1, <1>2, <1>3, <1>4

(* What a page has been, or is about to be, told stays so until it attaches. *)
LEMMA TellsKept ==
    ASSUME TInv, Next, NEW c \in Clients, c \notin astray', ~Announces, ~RouteFrame, ~Own(c)
    PROVE  /\ TellsOff(c) => TellsOff(c)'
           /\ TellsOn(c) => \/ TellsOn(c)'
                            \/ HearsState(c) /\ Len(toRelay'[c]) = Len(toRelay[c]) + 1
<1> USE TInvParts DEF RelayTypes, PageTypes
<1> DEFINE q == toClient[c]
<1>0. q \in Seq(Frames \cup States)
  OBVIOUS
<1>1. CASE HearsState(c) \/ ShowsFrame(c)
  <2>1. q # <<>> /\ Head(q) = q[1] /\ toClient'[c] = Tail(q)
    BY <1>0, <1>1 DEF HearsState, ShowsFrame
  <2>2. was'[c] = IF q[1].kind = "state"
                    THEN IF q[1].online THEN "online" ELSE "offline" ELSE was[c]
    BY <1>1, <2>1 DEF HearsState, ShowsFrame
  <2>3. /\ Parted(q, was[c]) => Parted(Tail(q), was'[c])
        /\ Returns(q, was[c]) => Returns(Tail(q), was'[c]) \/ (q[1] = On /\ was[c] = "offline")
    BY <1>0, <2>1, <2>2, TailTells
  <2>4. ASSUME q[1] = On, was[c] = "offline"
        PROVE  HearsState(c) /\ Len(toRelay'[c]) = Len(toRelay[c]) + 1
    <3>1. HearsState(c)
      BY <1>1, <2>1, <2>4, OnOff DEF ShowsFrame
    <3>2. toRelay' = [toRelay EXCEPT ![c] = Append(toRelay[c], lastSeq[c])]
      BY <2>1, <2>4, <3>1, OnOff DEF HearsState
    <3>3. toRelay[c] \in Seq(Offsets) /\ lastSeq[c] \in Offsets
      OBVIOUS
    <3>4. Len(Append(toRelay[c], lastSeq[c])) = Len(toRelay[c]) + 1
      BY <3>3
    <3>5. QED
      BY <3>1, <3>2, <3>4
  <2>5. QED
    BY <2>1, <2>3, <2>4 DEF TellsOff, TellsOn
<1>2. CASE toClient'[c] = toClient[c] /\ was'[c] = was[c]
  BY <1>2 DEF TellsOff, TellsOn
<1>3. ASSUME NEW k \in Clients, k # c,
             PageOpens(k) \/ PageDrops(k) \/ HearsState(k) \/ ShowsFrame(k)
      PROVE  toClient'[c] = toClient[c] /\ was'[c] = was[c]
  BY <1>3 DEF PageOpens, PageDrops, HearsState, ShowsFrame
<1>4. CASE UNCHANGED <<toClient, was>>
  BY <1>2, <1>4
<1>5. CASE Leftover
  <2>1. PICK f : /\ Route(f) /\ astray' = astray \cup {k \in Clients : Gets(k, f)}
                 /\ UNCHANGED was
    BY <1>5, LeftoverSteps
  <2>2. QED
    BY <1>2, <2>1 DEF Route
<1>6. QED
  BY <1>1, <1>2, <1>3, <1>4, <1>5, Steps
  DEF Own, Emit, Flush, Attach, ReadRing, SendFrame, AgentLoses, RelayLoses, RelayNotices,
      Unregister, Reconnect, ResolveAgent, MarkAndForward, pageVars

(* A console that opens, closes or is marked pending. *)
LEMMA OwnSteps ==
    ASSUME TInv, PageClosed, Next, NEW c \in Clients, Own(c)
    PROVE  /\ UNCHANGED linkVars /\ asking'[c] = 0
           /\ \/ att'[c] # "pending"
              \/ /\ asking[c] # 0 /\ UNCHANGED <<toClient, was, open>>
                 /\ toRelay'[c] = Tail(toRelay[c])
                 /\ IF link = "up" /\ asking[c] = conn THEN down' # <<>> ELSE UNCHANGED astray
<1> USE TInvParts DEF RelayTypes, PageTypes, PageClosed
<1>1. CASE PageOpens(c)
  BY <1>1 DEF PageOpens, AskingHolds, relayVars
<1>2. CASE PageDrops(c)
  BY <1>2 DEF PageDrops
<1>3. CASE MarkAndForward(c)
  <2>1. Head(toRelay[c]) \in Offsets /\ down \in Seq(Offsets)
    BY <1>3 DEF MarkAndForward, AskingHolds, LinkTypes
  <2>2. Append(down, Head(toRelay[c])) # <<>>
    BY <2>1, AppendLonger
  <2>3. QED
    BY <1>3, <2>2 DEF MarkAndForward, pageVars
<1>4. QED
  BY <1>1, <1>2, <1>3 DEF Own

LEMMA OfflineToldKept ==
    ASSUME TInv, PageClosed, OfflineTold, Next
    PROVE  OfflineTold'
<1> SUFFICES ASSUME Told', NEW c \in Clients, c \notin astray', open'[c]
             PROVE  TellsOff(c)'
  BY DEF OfflineTold
<1> USE TInvParts DEF RelayTypes, PageTypes
<1>1. ~LinkChanges
  BY DEF Told, LinkChanges, AgentLoses, RelayLoses, RelayNotices, Unregister, Reconnect
<1>2. link = "down" /\ ~RouteFrame /\ (~Announces => Told)
  <2>1. UNCHANGED <<link, conn>> /\ (~Announces => UNCHANGED bye)
    BY <1>1, OtherSteps
  <2>2. QED
    BY <2>1 DEF Told, RouteFrame
<1>3. CASE Announces
  <2>1. open[c] /\ UNCHANGED was /\ ~Online /\ TellAll
    BY <1>2, <1>3, AnnounceSteps DEF Online
  <2>2. toClient'[c] = Append(toClient[c], Off)
    BY <2>1, OnOff DEF TellAll
  <2>3. Off \in Frames \cup States /\ toClient[c] \in Seq(Frames \cup States)
    BY OnOff
  <2>4. Parted(Append(toClient[c], Off), was[c])
    BY <2>3, AppendTells
  <2>5. QED
    BY <2>1, <2>2, <2>4 DEF TellsOff
<1>4. CASE PageOpens(c)
  <2>1. toClient'[c] = <<Off>>
    BY <1>2, <1>4, OnOff DEF PageOpens, Online
  <2>2. QED
    BY <2>1 DEF TellsOff, Parted
<1>5. CASE MarkAndForward(c)
  <2>1. UNCHANGED <<toClient, was, open, astray>>
    BY <1>2, <1>5 DEF MarkAndForward, pageVars
  <2>2. ~Announces \/ Announces
    OBVIOUS
  <2>3. QED
    BY <1>2, <1>3, <2>1 DEF OfflineTold, TellsOff
<1>6. CASE ~Announces /\ ~Own(c)
  <2>1. c \notin astray /\ open[c]
    BY <1>1, <1>6, OtherSteps
  <2>2. QED
    BY <1>2, <1>6, <2>1, TellsKept DEF OfflineTold
<1>7. CASE PageDrops(c)
  BY <1>7 DEF PageDrops
<1>8. QED
  BY <1>3, <1>4, <1>5, <1>6, <1>7 DEF Own

LEMMA NoneForgottenKept ==
    ASSUME TInv, PageClosed, ReplayEnds, Shape, OfflineTold, NoneForgotten, Next
    PROVE  NoneForgotten'
<1> SUFFICES ASSUME link' = "up", NEW c \in Clients, c \notin astray'
             PROVE  /\ att'[c] = "pending" => Served' \/ toRelay'[c] # <<>> \/ Owed(c)'
                    /\ Stale(c)' => Owed(c)' \/ Len(toRelay'[c]) > 1
  BY DEF NoneForgotten
<1> USE TInvParts DEF RelayTypes, PageTypes
<1>0. /\ toRelay[c] \in Seq(Offsets) /\ toClient[c] \in Seq(Frames \cup States)
      /\ att[c] = "pending" \/ asking[c] # 0 => open[c]
  BY DEF PageClosed, AskingHolds
<1>1. CASE Reconnect
  <2>1. UNCHANGED <<att, asking, toClient, was>> /\ conn' \in greet'
    BY <1>1 DEF Reconnect, pageVars
  <2>2. open[c] => Told /\ c \notin astray
    BY <1>1 DEF Reconnect
  <2>3. open[c] => TellsOff(c)
    BY <2>2 DEF OfflineTold
  <2>4. open[c] => Owed(c)'
    BY <2>1, <2>3 DEF Owed, TellsOff
  <2>5. Stale(c)' => asking[c] # 0
    BY <2>1 DEF Stale
  <2>6. QED
    BY <1>0, <2>1, <2>4, <2>5
<1>2. ASSUME ~Reconnect
      PROVE  /\ ~LinkChanges /\ link = "up" /\ UNCHANGED conn
             /\ (~Announces => UNCHANGED greet)
  <2>1. ~LinkChanges
    BY <1>2 DEF LinkChanges, AgentLoses, RelayLoses, RelayNotices, Unregister
  <2>2. QED
    BY <2>1, OtherSteps
<1>3. ASSUME c \notin astray, ~Reconnect
      PROVE  /\ att[c] = "pending" => Served \/ toRelay[c] # <<>> \/ Owed(c)
             /\ Stale(c) => Owed(c) \/ Len(toRelay[c]) > 1
  BY <1>2, <1>3 DEF NoneForgotten
<1>4. CASE ~Reconnect /\ Announces
  <2>1. UNCHANGED <<att, asking, astray, toRelay, was, open, job, up, down>> /\ TellAll
    BY <1>4, AnnounceSteps
  <2>2. open[c] => toClient'[c] = Append(toClient[c], On)
    BY <1>2, <1>4, <2>1, OnOff DEF TellAll, Online
  <2>3. open[c] /\ Owed(c) => Owed(c)'
    <3>1. On \in Frames \cup States
      BY OnOff
    <3>2. Parted(toClient[c], was[c]) \/ Returns(toClient[c], was[c])
            => Returns(Append(toClient[c], On), was[c])
      BY <1>0, <3>1, AppendTells
    <3>3. QED
      BY <2>1, <2>2, <3>2 DEF Owed, TellsOff, TellsOn
  <2>4. Stale(c)' <=> Stale(c)
    BY <1>2, <1>4, <2>1 DEF Stale
  <2>5. Served' <=> Served
    BY <2>1 DEF Served
  <2>6. Stale(c) => asking[c] # 0
    BY DEF Stale
  <2>7. QED
    BY <1>0, <1>3, <1>4, <2>1, <2>3, <2>4, <2>5, <2>6
<1>5. CASE ~Reconnect /\ Own(c)
  <2>1. asking'[c] = 0 /\ ~Stale(c)'
    BY <1>5, OwnSteps DEF Stale
  <2>2. CASE att'[c] # "pending"
    BY <2>1, <2>2
  <2>3. CASE att'[c] = "pending" /\ asking[c] = conn
    BY <1>2, <1>5, <2>1, <2>3, OwnSteps DEF Served
  <2>4. CASE att'[c] = "pending" /\ asking[c] # conn
    <3>1. /\ UNCHANGED <<toClient, was, astray>> /\ toRelay'[c] = Tail(toRelay[c])
          /\ asking[c] # 0 /\ UNCHANGED greet
      BY <1>5, <2>4, OwnSteps DEF linkVars
    <3>2. Owed(c) \/ Len(toRelay[c]) > 1
      BY <1>3, <1>5, <2>4, <3>1 DEF Stale
    <3>3. Owed(c) => Owed(c)'
      BY <1>2, <1>5, <3>1 DEF Owed, TellsOff, TellsOn
    <3>4. Len(toRelay[c]) > 1 => Tail(toRelay[c]) # <<>>
      BY <1>0, TailNonempty
    <3>5. QED
      BY <2>1, <3>1, <3>2, <3>3, <3>4
  <2>5. QED
    BY <2>2, <2>3, <2>4
<1>6. ASSUME ~Reconnect, ~Own(c)
      PROVE  /\ c \notin astray /\ (Stale(c)' => Stale(c))
             /\ Len(toRelay[c]) <= Len(toRelay'[c]) /\ (toRelay[c] # <<>> => toRelay'[c] # <<>>)
             /\ Len(toRelay[c]) \in Nat
  <2>1. \/ asking'[c] = asking[c] /\ Len(toRelay[c]) <= Len(toRelay'[c])
        \/ asking'[c] = conn /\ toRelay'[c] = toRelay[c]
    BY <1>2, <1>6, OtherSteps
  <2>2. Len(toRelay[c]) \in Nat /\ (toRelay[c] # <<>> => Len(toRelay[c]) > 0) /\ Len(<<>>) = 0
    BY <1>0
  <2>3. toRelay[c] # <<>> => toRelay'[c] # <<>>
    BY <2>1, <2>2
  <2>4. c \notin astray
    BY <1>2, <1>6, OtherSteps
  <2>5. QED
    BY <1>2, <1>6, <2>1, <2>2, <2>3, <2>4 DEF Stale
<1>7. CASE ~Reconnect /\ ~Announces /\ ~Own(c) /\ RouteFrame
  <2> DEFINE f == Head(up)
  <2>1. /\ UNCHANGED <<was, toRelay, asking>> /\ up # <<>> /\ conn \notin greet
        /\ toClient'[c] = IF Gets(c, f) THEN Append(toClient[c], f) ELSE toClient[c]
        /\ att'[c] = IF Gets(c, f) /\ FinalSnap(f) THEN "live" ELSE att[c]
    BY <1>7 DEF RouteFrame, Route, pageVars, FinalSnap
  <2>2. f \in Frames \cup States
    BY <2>1 DEF LinkTypes
  <2>3. Owed(c) => Owed(c)'
    <3>1. Returns(toClient[c], was[c]) => Returns(Append(toClient[c], f), was[c])
      BY <1>0, <2>2, AppendTells
    <3>2. QED
      BY <2>1, <3>1 DEF Owed, TellsOn
  <2>4. att'[c] = "pending" => att[c] = "pending" /\ ~FinalSnap(f)
    BY <2>1 DEF Gets, FinalSnap
  <2>5. Served /\ ~FinalSnap(f) => Served'
    BY <1>2, <1>7, ServedKept
  <2>6. QED
    BY <1>3, <1>6, <1>7, <2>1, <2>3, <2>4, <2>5
<1>8. CASE ~Reconnect /\ ~Announces /\ ~Own(c) /\ ~RouteFrame
  <2>1. Owed(c) => Owed(c)' \/ Len(toRelay'[c]) = Len(toRelay[c]) + 1
    <3>1. /\ TellsOff(c) => TellsOff(c)'
          /\ TellsOn(c) => TellsOn(c)' \/ Len(toRelay'[c]) = Len(toRelay[c]) + 1
      BY <1>8, TellsKept
    <3>2. conn' = conn /\ greet' = greet
      BY <1>2, <1>8
    <3>3. QED
      BY <3>1, <3>2 DEF Owed
  <2>2. Served => Served'
    BY <1>2, <1>8, ServedKept
  <2>3. att'[c] = att[c]
    BY <1>2, <1>8, OtherSteps
  <2>4. asking[c] # 0 => Len(toRelay[c]) > 0
    BY <1>0 DEF AskingHolds
  <2>5. Len(toRelay'[c]) = Len(toRelay[c]) + 1 => toRelay'[c] # <<>>
    <3>1. Len(<<>>) = 0 /\ Len(toRelay[c]) \in Nat
      BY <1>0
    <3>2. QED
      BY <3>1
  <2>6. att'[c] = "pending" => Served' \/ toRelay'[c] # <<>> \/ Owed(c)'
    BY <1>3, <1>6, <1>8, <2>1, <2>2, <2>3, <2>5
  <2>7. ASSUME Stale(c)'
        PROVE  Owed(c)' \/ Len(toRelay'[c]) > 1
    <3>1. Stale(c) /\ asking[c] # 0 /\ Len(toRelay[c]) > 0
      BY <1>6, <1>8, <2>4, <2>7 DEF Stale
    <3>2. Owed(c) \/ Len(toRelay[c]) > 1
      BY <1>3, <1>6, <1>8, <3>1
    <3>3. Len(toRelay[c]) \in Nat /\ Len(toRelay[c]) <= Len(toRelay'[c])
      BY <1>6, <1>8
    <3>4. Len(toRelay'[c]) \in Nat
      BY RelayTypesKept
    <3>5. QED
      BY <2>1, <3>1, <3>2, <3>3, <3>4
  <2>8. QED
    BY <2>6, <2>7
<1>9. QED
  BY <1>1, <1>4, <1>5, <1>7, <1>8
LEMMA InitPInv == Init => PInv
  BY DEF Init, PInv, PageClosed, ReplayEnds, Shape, OfflineTold, Told, NoneForgotten, Stale, NoJob

LEMMA PInvKept == TInv /\ PInv /\ [Next]_vars => PInv'
<1> SUFFICES ASSUME TInv, PInv, [Next]_vars
             PROVE  PInv'
  OBVIOUS
<1>0. PageClosed /\ ReplayEnds /\ Shape /\ OfflineTold /\ NoneForgotten
  BY DEF PInv
<1>1. CASE Next
  <2>1. PageClosed' /\ ReplayEnds' /\ Shape' /\ OfflineTold' /\ NoneForgotten'
    BY <1>0, <1>1, PageClosedKept, ReplayEndsKept, ShapeKept, OfflineToldKept, NoneForgottenKept
  <2>2. QED
    BY <2>1 DEF PInv
<1>2. CASE UNCHANGED vars
  <2> USE <1>0, <1>2 DEF vars, agentVars, linkVars, relayVars, pageVars
  <2>1. PageClosed' /\ ReplayEnds' /\ Shape'
    BY DEF PageClosed, ReplayEnds, Shape
  <2>2. OfflineTold' /\ NoneForgotten'
    BY DEF OfflineTold, Told, NoneForgotten, Owed, TellsOff, TellsOn, Served, Stale
  <2>3. QED
    BY <2>1, <2>2 DEF PInv
<1>3. QED
  BY <1>1, <1>2

(* A console that is not astray and is marked pending is never forgotten,     *)
(* whatever connections are lost or replaced between agentFor, the marking    *)
(* and the replay: while the agent's connection holds, a snapshot is under     *)
(* way or the page will attach again.                                        *)
THEOREM PendingServed == Spec => []PendingIsServed
<1>1. TInv /\ PInv => PendingIsServed
  <2> SUFFICES ASSUME TInv, PInv, NEW c \in Clients \ astray,
                      att[c] = "pending", link = "up", conn \notin greet
               PROVE  \/ down # <<>> \/ job.kind = "replay" \/ WillAsk(c)
                      \/ \E i \in 1..Len(up) : up[i].kind = "snap" /\ ~up[i].more
    BY DEF PendingIsServed
  <2> DEFINE q == toClient[c]
  <2>1. Served \/ toRelay[c] # <<>> \/ TellsOn(c)
    BY DEF PInv, NoneForgotten, Owed
  <2>2. CASE Served
    BY <2>2 DEF Served, FinalSnap
  <2>3. CASE toRelay[c] # <<>>
    BY <2>3 DEF WillAsk
  <2>4. q \in Seq(Frames \cup States)
    BY TInvParts DEF RelayTypes
  <2>5. CASE q # <<>> /\ q[1] = On /\ was[c] = "offline"
    <3>1. 1 \in 1..Len(q)
      BY <2>4, <2>5
    <3>2. QED
      BY <2>5, <3>1 DEF WillAsk, On
  <2>6. ASSUME NEW i \in 2..Len(q), q[i - 1] = Off, q[i] = On
        PROVE  WillAsk(c)
    <3>1. i \in 1..Len(q) /\ i - 1 \in 1..(i - 1)
      BY <2>4
    <3>2. QED
      BY <2>6, <3>1 DEF WillAsk, On, Off
  <2>7. QED
    BY <2>1, <2>2, <2>3, <2>5, <2>6 DEF TellsOn, Returns
<1>2. TInv /\ PInv /\ [Next]_vars => TInv' /\ PInv'
  BY PInvKept, TInvKept
<1>3. QED
  BY <1>1, <1>2, InitTInv, InitPInv, PTL DEF Spec
===============================================================================
