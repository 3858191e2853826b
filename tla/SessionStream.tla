----------------------------- MODULE SessionStream -----------------------------
(***************************************************************************)
(* One session's output on its way from the agent's PTY to the consoles that *)
(* watch it: emit, flush and Replay (internal/session/session.go), the       *)
(* agent's single relay connection (internal/agent/conn.go, handle.go), the  *)
(* relay's attachment table and frame routing (internal/relay/ws_agent.go,   *)
(* ws_client.go), and the console's attach logic and terminal (web/src/ws.ts, *)
(* TerminalView.tsx).                                                        *)
(*                                                                          *)
(* Bytes are their stream offsets, so a frame is a range of offsets.  The    *)
(* scrollback ring is ByteWindow, which Ring.tla implements: it holds the    *)
(* last Cap bytes.  Whatever can interleave in the code is a step of its own: *)
(* every critical section of a session, of the flush lock's holder, of the   *)
(* relay's lock, and every message sent, routed or received.                 *)
(***************************************************************************)
EXTENDS Naturals, Sequences

CONSTANTS
    Clients,    \* consoles (browser pages), each watching the session
    MaxSeq,     \* bound on the bytes the PTY produces
    Cap,        \* ring capacity
    SnapTail,   \* SnapshotTail
    MaxPayload, \* proto.MaxPayload
    MaxConn,    \* bound on the agent's connections
    MaxDrops    \* bound on console connections lost

ASSUME BoundsAssumption ==
    MaxDrops \in Nat /\ {MaxSeq, Cap, SnapTail, MaxPayload, MaxConn} \subseteq Nat \ {0}

VARIABLES
    seq,        \* Session.info.Seq: bytes written to the ring
    flushed,    \* pendingSeq: the batch still to be flushed is flushed..seq
    job,        \* what the holder of flushMu is doing
    link,       \* the agent's connection: "up", "cut" (the agent gave it up,
                \* the relay still holds it) or "down" (the relay has none)
    conn,       \* which connection the relay registered last
    greet, bye, \* connections whose handler has still to broadcast device.state
                \* when it has registered, and when its read loop has ended
    left,       \* what a replaced connection's handler has not read yet
    up, down,   \* frames to the relay and attaches to the agent on that connection
    att,        \* Server.attachments of the session
    asking,     \* attach handlers between agentFor and marking: the conn they got
    astray,     \* history: consoles that were open when the agent's connection
                \* was replaced and their pages not told that it had been lost,
                \* or that got a replaced connection's frame, and have not
                \* attached since
    toRelay,    \* attaches (last_seq) sent by each console
    toClient,   \* clientConn.out: what the relay has sent to each console
    open,       \* whether the console's WebSocket is open
    was,        \* RelayClient.deviceOnline
    at,         \* the offset after the last byte written on its terminal
    lastSeq,    \* RelayClient.lastSeq
    drops

agentVars == <<seq, flushed, job>>
linkVars == <<link, conn, greet, bye, left>>
relayVars == <<att, asking, astray>>
pageVars == <<open, was, at, lastSeq, drops>>
vars == <<agentVars, linkVars, up, down, relayVars, toRelay, toClient, pageVars>>

-------------------------------------------------------------------------------
Lesser(a, b) == IF a < b THEN a ELSE b
Frame(kind, from, to, more, reset) ==
    [kind |-> kind, from |-> from, to |-> to, more |-> more, reset |-> reset]
State(online) == [kind |-> "state", online |-> online]

(* proto.Chunk of the bytes from..to; an empty payload still is one frame. *)
Chunk_NoClamp(kind, from, to, reset) == \* mutant: the last chunk is not cut short
    LET n == IF to = from THEN 1 ELSE (to - from + MaxPayload - 1) \div MaxPayload
    IN [i \in 1..n |-> Frame(kind, from + (i - 1) * MaxPayload,
                             from + i * MaxPayload, i < n, reset /\ i = 1)]

Chunk(kind, from, to, reset) ==
    LET n == IF to = from THEN 1 ELSE (to - from + MaxPayload - 1) \div MaxPayload
    IN [i \in 1..n |-> Frame(kind, from + (i - 1) * MaxPayload,
                             Lesser(from + i * MaxPayload, to), i < n, reset /\ i = 1)]

NoJob == [kind |-> "none", since |-> 0, todo |-> <<>>, read |-> FALSE]
Online == link # "down"                 \* d.conn != nil
Conns == 1..MaxConn
Retained == Lesser(seq, Cap)

Init ==
    /\ seq = 0 /\ flushed = 0 /\ job = NoJob
    /\ link = "up" /\ conn = 1 /\ greet = {} /\ bye = {} /\ left = [k \in Conns |-> <<>>]
    /\ up = <<>> /\ down = <<>>
    /\ att = [c \in Clients |-> "absent"] /\ asking = [c \in Clients |-> 0]
    /\ astray = {}
    /\ toRelay = [c \in Clients |-> <<>>] /\ toClient = [c \in Clients |-> <<>>]
    /\ open = [c \in Clients |-> FALSE] /\ was = [c \in Clients |-> "unknown"]
    /\ at = [c \in Clients |-> 0] /\ lastSeq = [c \in Clients |-> 0]
    /\ drops = 0

-------------------------------------------------------------------------------
(* The agent *)

(* emit: into the ring and the pending batch, under Session.mu only. *)
Emit ==
    /\ seq < MaxSeq
    /\ seq' = seq + 1
    /\ UNCHANGED <<flushed, job, linkVars, up, down, relayVars, toRelay, toClient, pageVars>>

(* flushLocked takes the whole batch; its frames are then sent one by one. *)
Batch == IF flushed = seq THEN <<>> ELSE Chunk("out", flushed, seq, FALSE)

(* The batch timer (or a batch grown too big): flush. *)
Flush ==
    /\ job = NoJob /\ flushed < seq
    /\ job' = [NoJob EXCEPT !.kind = "flush", !.todo = Batch]
    /\ flushed' = seq
    /\ UNCHANGED <<seq, linkVars, up, down, relayVars, toRelay, toClient, pageVars>>

(* handleAttach: Replay takes flushMu and flushes first. *)
Attach ==
    /\ job = NoJob /\ link = "up" /\ down # <<>>
    /\ job' = [kind |-> "replay", since |-> Head(down), todo |-> Batch, read |-> FALSE]
    /\ flushed' = seq
    /\ down' = Tail(down)
    /\ UNCHANGED <<seq, linkVars, up, relayVars, toRelay, toClient, pageVars>>

(* ... then reads the ring: the delta if it still covers last_seq, else the *)
(* tail after a reset.  Emit is not excluded between the two.                *)
DeltaOK(since) == since >= seq - Retained /\ since <= seq

ReadRing ==
    /\ job.kind = "replay" /\ ~job.read /\ job.todo = <<>>
    /\ job' = [job EXCEPT !.read = TRUE,
                          !.todo = IF DeltaOK(job.since)
                                     THEN Chunk("snap", job.since, seq, FALSE)
                                     ELSE Chunk("snap", seq - Lesser(SnapTail, Retained), seq, TRUE)]
    /\ UNCHANGED <<seq, flushed, linkVars, up, down, relayVars, toRelay, toClient, pageVars>>

(* sendFrame: queued on the connection, dropped without one; the last frame *)
(* of a flush or of a replay releases flushMu.                               *)
SendFrame ==
    /\ job.todo # <<>>
    /\ up' = IF link = "up" THEN Append(up, Head(job.todo)) ELSE up
    /\ job' = IF Len(job.todo) = 1 /\ (job.kind = "flush" \/ job.read)
                THEN NoJob ELSE [job EXCEPT !.todo = Tail(@)]
    /\ UNCHANGED <<seq, flushed, linkVars, down, relayVars, toRelay, toClient, pageVars>>

-------------------------------------------------------------------------------
(* The connection *)

(* readLoop or writeLoop fails at the agent, or its queue is full. *)
AgentLoses ==
    /\ link = "up" /\ conn < MaxConn
    /\ link' = "cut" /\ down' = <<>>
    /\ UNCHANGED <<agentVars, conn, greet, bye, left, up, relayVars, toRelay, toClient, pageVars>>

(* The handler of the registered connection sees its end and unregisters it: *)
(* every attachment needs a snapshot again.                                 *)
Unregister_Keep ==                      \* mutant: attachments stay live
    /\ conn \notin greet
    /\ link' = "down" /\ up' = <<>> /\ down' = <<>> /\ bye' = bye \cup {conn}
    /\ UNCHANGED <<agentVars, conn, greet, left, relayVars, toRelay, toClient, pageVars>>

Unregister ==
    /\ conn \notin greet
    /\ link' = "down" /\ up' = <<>> /\ down' = <<>> /\ bye' = bye \cup {conn}
    /\ att' = [c \in Clients |-> IF att[c] = "absent" THEN "absent" ELSE "pending"]
    /\ UNCHANGED <<agentVars, conn, greet, left, asking, astray, toRelay, toClient, pageVars>>

RelayLoses == link = "up" /\ conn < MaxConn /\ Unregister
RelayNotices == link = "cut" /\ Unregister

Told == link = "down" /\ conn \notin bye  \* pages have been sent the offline state

(* connectLoop dials again once its readLoop, which runs the replays, is    *)
(* over; handleAgentWS registers the connection, in place of the old one     *)
(* where the relay still holds that.  Every attachment stays as it is.       *)
Reconnect ==
    /\ link # "up" /\ conn < MaxConn /\ job.kind # "replay"
    /\ link' = "up" /\ conn' = conn + 1
    /\ greet' = greet \cup {conn + 1}
    /\ bye' = IF link = "cut" THEN bye \cup {conn} ELSE bye
    /\ left' = [left EXCEPT ![conn] = up]
    /\ up' = <<>> /\ down' = <<>>
    /\ astray' = IF Told THEN astray ELSE astray \cup {c \in Clients : open[c]}
    /\ UNCHANGED <<agentVars, att, asking, toRelay, toClient, pageVars>>

(* broadcastDeviceState reads the device's state when it runs. *)
TellAll == toClient' = [c \in Clients |->
                          IF open[c] THEN Append(toClient[c], State(Online)) ELSE toClient[c]]

(* Registered, the handler closes the connection it replaced, whose own      *)
(* handler may still have one frame in hand, and broadcasts.                 *)
InHand(k) == IF k \in greet \/ left[k] = <<>> THEN <<>> ELSE <<Head(left[k])>>

BroadcastOnline(k) ==
    /\ k \in greet /\ greet' = greet \ {k}
    /\ left' = [left EXCEPT ![k - 1] = InHand(k - 1)]
    /\ TellAll
    /\ UNCHANGED <<agentVars, link, conn, bye, up, down, relayVars, toRelay, pageVars>>

(* Its read loop over, the handler of a connection lost or replaced broadcasts. *)
BroadcastOffline(k) ==
    /\ k \in bye \ greet /\ bye' = bye \ {k}
    /\ left' = [left EXCEPT ![k] = <<>>]
    /\ TellAll
    /\ UNCHANGED <<agentVars, link, conn, greet, up, down, relayVars, toRelay, pageVars>>

-------------------------------------------------------------------------------
(* The relay *)

(* routeAgentFrame: a snapshot goes to the pending consoles, output to the  *)
(* live ones; the snapshot's last frame makes them live.                    *)
Gets_All(c, f) == att[c] # "absent"     \* mutant: pending consoles see output too
Gets(c, f) == att[c] = IF f.kind = "snap" THEN "pending" ELSE "live"

Route(f) ==
    /\ att' = [c \in Clients |->
                 IF Gets(c, f) /\ f.kind = "snap" /\ ~f.more THEN "live" ELSE att[c]]
    /\ toClient' = [c \in Clients |->
                      IF Gets(c, f) THEN Append(toClient[c], f) ELSE toClient[c]]

RouteFrame ==
    /\ link # "down" /\ conn \notin greet /\ up # <<>>
    /\ Route(Head(up))
    /\ up' = Tail(up)
    /\ UNCHANGED <<agentVars, linkVars, down, asking, astray, toRelay, pageVars>>

(* It looks at the session's owner, not at the connection the frame came by. *)
RouteLeft(k) ==
    /\ left[k] # <<>> /\ k \notin greet
    /\ Route(Head(left[k]))
    /\ left' = [left EXCEPT ![k] = Tail(@)]
    /\ astray' = astray \cup {c \in Clients : Gets(c, Head(left[k]))}
    /\ UNCHANGED <<agentVars, link, conn, greet, bye, up, down, asking, toRelay, pageVars>>

(* session.attach: agentFor resolves the connection (an offline device is   *)
(* an error to the console) ...                                             *)
ResolveAgent(c) ==
    /\ toRelay[c] # <<>> /\ asking[c] = 0
    /\ IF Online
         THEN asking' = [asking EXCEPT ![c] = conn] /\ UNCHANGED toRelay
         ELSE toRelay' = [toRelay EXCEPT ![c] = Tail(@)] /\ UNCHANGED asking
    /\ UNCHANGED <<agentVars, linkVars, up, down, att, astray, toClient, pageVars>>

(* ... and then the console is marked and the message sent to whatever      *)
(* connection was found, alive or not.                                      *)
MarkAndForward(c) ==
    /\ asking[c] # 0
    /\ att' = [att EXCEPT ![c] = "pending"]
    /\ asking' = [asking EXCEPT ![c] = 0]
    /\ IF link = "up" /\ asking[c] = conn
         THEN down' = Append(down, Head(toRelay[c])) /\ astray' = astray \ {c}
         ELSE UNCHANGED <<down, astray>>
    /\ toRelay' = [toRelay EXCEPT ![c] = Tail(@)]
    /\ UNCHANGED <<agentVars, linkVars, up, toClient, pageVars>>

-------------------------------------------------------------------------------
(* The console *)

(* The WebSocket opens: the relay sends the device list, the page attaches. *)
PageOpens(c) ==
    /\ ~open[c]
    /\ open' = [open EXCEPT ![c] = TRUE]
    /\ toClient' = [toClient EXCEPT ![c] = <<State(Online)>>]
    /\ toRelay' = [toRelay EXCEPT ![c] = <<lastSeq[c]>>]
    /\ UNCHANGED <<agentVars, linkVars, up, down, relayVars, was, at, lastSeq, drops>>

(* It closes; the relay drops the client and its attachments. *)
PageDrops(c) ==
    /\ open[c] /\ drops < MaxDrops /\ asking[c] = 0
    /\ open' = [open EXCEPT ![c] = FALSE]
    /\ drops' = drops + 1
    /\ att' = [att EXCEPT ![c] = "absent"] /\ astray' = astray \ {c}
    /\ toClient' = [toClient EXCEPT ![c] = <<>>]
    /\ toRelay' = [toRelay EXCEPT ![c] = <<>>]
    /\ UNCHANGED <<agentVars, linkVars, up, down, asking, was, at, lastSeq>>

(* trackDevices: attach again on the offline -> online transition. *)
HearsState_Deaf(c) ==                   \* mutant: no attach on the transition
    /\ toClient[c] # <<>> /\ Head(toClient[c]).kind = "state"
    /\ was' = [was EXCEPT ![c] = IF Head(toClient[c]).online THEN "online" ELSE "offline"]
    /\ toClient' = [toClient EXCEPT ![c] = Tail(@)]
    /\ UNCHANGED <<agentVars, linkVars, up, down, relayVars, toRelay, open, at, lastSeq, drops>>

HearsState(c) ==
    /\ toClient[c] # <<>> /\ Head(toClient[c]).kind = "state"
    /\ was' = [was EXCEPT ![c] = IF Head(toClient[c]).online THEN "online" ELSE "offline"]
    /\ toRelay' = IF Head(toClient[c]).online /\ was[c] = "offline"
                    THEN [toRelay EXCEPT ![c] = Append(@, lastSeq[c])] ELSE toRelay
    /\ toClient' = [toClient EXCEPT ![c] = Tail(@)]
    /\ UNCHANGED <<agentVars, linkVars, up, down, relayVars, open, at, lastSeq, drops>>

(* onFrame: write the payload; a partial snapshot does not move last_seq. *)
ShowsFrame(c) ==
    /\ toClient[c] # <<>> /\ Head(toClient[c]).kind # "state"
    /\ LET f == Head(toClient[c]) IN
        /\ at' = [at EXCEPT ![c] = f.to]
        /\ lastSeq' = IF f.kind = "snap" /\ f.more
                        THEN lastSeq ELSE [lastSeq EXCEPT ![c] = f.to]
    /\ toClient' = [toClient EXCEPT ![c] = Tail(@)]
    /\ UNCHANGED <<agentVars, linkVars, up, down, relayVars, toRelay, open, was, drops>>

-------------------------------------------------------------------------------
AgentStep == Flush \/ Attach \/ ReadRing \/ SendFrame
Handler(k) == BroadcastOnline(k) \/ BroadcastOffline(k) \/ RouteLeft(k)
LinkStep == RelayNotices \/ Reconnect \/ \E k \in Conns : Handler(k)
AttachHandler(c) == ResolveAgent(c) \/ MarkAndForward(c)
Page(c) == PageOpens(c) \/ HearsState(c) \/ ShowsFrame(c)
Disturbance == Emit \/ AgentLoses \/ RelayLoses \/ \E c \in Clients : PageDrops(c)

Next ==
    \/ AgentStep \/ LinkStep \/ RouteFrame \/ Disturbance
    \/ \E c \in Clients : AttachHandler(c) \/ Page(c)

(* Every goroutine that can run eventually runs, the batch timer fires, a   *)
(* dead connection is noticed (heartbeat timeout) and agent and page dial    *)
(* again for ever.  Output and lost connections are owed by nobody.          *)
Fairness ==
    /\ WF_vars(Flush) /\ WF_vars(Attach) /\ WF_vars(ReadRing) /\ WF_vars(SendFrame)
    /\ WF_vars(RelayNotices) /\ WF_vars(Reconnect)
    /\ \A k \in Conns : WF_vars(BroadcastOnline(k)) /\ WF_vars(BroadcastOffline(k))
    /\ WF_vars(RouteFrame)
    /\ \A c \in Clients : WF_vars(AttachHandler(c)) /\ WF_vars(Page(c))

Spec == Init /\ [][Next]_vars
FairSpec == Spec /\ Fairness

-------------------------------------------------------------------------------
Offsets == 0..MaxSeq
Frames == [kind : {"out", "snap"}, from : Offsets, to : Offsets,
           more : BOOLEAN, reset : BOOLEAN]
States == [kind : {"state"}, online : BOOLEAN]

TypeOK ==
    /\ seq \in Offsets /\ flushed \in 0..seq
    /\ job \in [kind : {"none", "flush", "replay"}, since : Offsets,
                todo : Seq(Frames), read : BOOLEAN]
    /\ link \in {"up", "cut", "down"} /\ conn \in 1..MaxConn
    /\ greet \subseteq 2..conn /\ bye \subseteq 1..conn /\ left \in [Conns -> Seq(Frames)]
    /\ up \in Seq(Frames) /\ down \in Seq(Offsets)
    /\ att \in [Clients -> {"absent", "pending", "live"}]
    /\ asking \in [Clients -> 0..MaxConn] /\ astray \subseteq Clients
    /\ toRelay \in [Clients -> Seq(Offsets)]
    /\ toClient \in [Clients -> Seq(Frames \cup States)]
    /\ open \in [Clients -> BOOLEAN]
    /\ was \in [Clients -> {"unknown", "offline", "online"}]
    /\ at \in [Clients -> Offsets] /\ lastSeq \in [Clients -> Offsets]
    /\ drops \in 0..MaxDrops

(* A console that has shown the first n messages queued for it is at x or    *)
(* later: the last frame among them ends there, or its terminal was there.   *)
StateOnly(q, i, j) == \A k \in i..j : q[k].kind = "state"
Covers(q, n, p, x) ==
    /\ StateOnly(q, 1, n) => x <= p
    /\ \A i \in 1..n : q[i].kind # "state" /\ StateOnly(q, i + 1, n) => x <= q[i].to
WillReach(c, x) == Covers(toClient[c], Len(toClient[c]), at[c], x)

(* Live output never skips a byte: whatever was attached, replayed, lost and *)
(* attached again before, an Output frame goes to a console behind all the    *)
(* bytes before it.  The console gets what is queued for it in that order.   *)
OutputNeverSkips ==
    up # <<>> /\ Head(up).kind = "out" =>
        \A c \in Clients \ astray : Gets(c, Head(up)) => WillReach(c, Head(up).from)

(* The page will send another attach without being told anything new. *)
WillAsk(c) ==
    \/ toRelay[c] # <<>>
    \/ \E i \in 1..Len(toClient[c]) :
        /\ toClient[c][i] = State(TRUE)
        /\ \/ i = 1 /\ was[c] = "offline"
           \/ \E j \in 1..(i - 1) : toClient[c][j] = State(FALSE)

(* A console marked pending is never forgotten: while the agent's            *)
(* connection holds and has been announced, an attach, a replay or the last  *)
(* frame of a snapshot that will make it live is under way.                  *)
PendingIsServed ==
    \A c \in Clients \ astray : att[c] = "pending" /\ link = "up" /\ conn \notin greet =>
        \/ down # <<>> \/ job.kind = "replay" \/ WillAsk(c)
        \/ \E i \in 1..Len(up) : up[i].kind = "snap" /\ ~up[i].more

(* Once disturbances cease every console ends up showing the stream to its  *)
(* end, and its next attach would ask for nothing it has; one whose page was  *)
(* never told that the agent's connection was replaced may not.              *)
EventuallyCaughtUp ==
    \A c \in Clients :
        <>[](open[c] /\ (c \in astray \/ (at[c] = seq /\ lastSeq[c] = seq)))

-------------------------------------------------------------------------------
(* What docs and comments promise and the code does not keep. *)

(* The frame a console is about to show. *)
About(c, kind) == toClient[c] # <<>> /\ Head(toClient[c]).kind = kind
Due(c) == Head(toClient[c])

(* No exemption: a replaced connection leaves no gap either ("next snapshot   *)
(* must reach them again", handleAgentWS).                                   *)
TerminalNeverSkips == \A c \in Clients : About(c, "out") => Due(c).from <= at[c]

(* Output is never shown twice ("a pending client would otherwise see bytes *)
(* twice", routeAgentFrame; "so the replay and the live stream stay ordered", *)
(* Replay).                                                                  *)
OutputNeverRepeats == \A c \in Clients : About(c, "out") => Due(c).from >= at[c]

(* A delta continues the terminal it is applied to, for every one of several *)
(* consoles of a session.                                                    *)
DeltaContinues ==
    \A c \in Clients : About(c, "snap") /\ ~Due(c).reset => Due(c).from <= at[c]
================================================================================
