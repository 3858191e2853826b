----------------------------- MODULE SessionReport -----------------------------
(***************************************************************************)
(* What the relay and the consoles believe of one session: running, waiting, *)
(* exited.  The agent (internal/agent, internal/session) changes the         *)
(* session's record under its lock and reports the change in a later step,   *)
(* on whatever connection it then has; agent.hello repeats the record after  *)
(* a reconnection; the relay (internal/relay/ws_agent.go) keeps a copy and   *)
(* broadcasts; the console (web/src/store.tsx) keeps another.                *)
(*                                                                          *)
(* Records, messages and cards carry the number of the change they show, a   *)
(* history that no code reads.  Whether an exit is genuine is decided and    *)
(* recorded in one step here; SessionLife has the gap.  A lost tmux client is *)
(* taken back long after the decision, as in the code.  A connection is       *)
(* registered before the agent's next one is accepted, and a send queue is   *)
(* never full; DeviceHub does without the first, and has sessions that close. *)
(***************************************************************************)
EXTENDS Naturals, Sequences

CONSTANTS
    Reporters,   \* goroutines of the agent but for its read loop
    Consoles,
    Signals,     \* the states a tool's signals report
    MaxChanges,  \* bound on the versions of the record, its first included
    MaxConns,    \* bound on the agent's connections
    MaxFaults    \* bound on lost connections, of agents and consoles, lost tmux
                 \* clients and restarts of the relay

Conns == 1..MaxConns
ASSUME BoundsAssumption == {MaxChanges, MaxConns, MaxFaults} \subseteq Nat
ASSUME ReaderAssumption == "reader" \notin Reporters
ASSUME SignalsAssumption == {"none", "exited"} \cap Signals = {}

Live == {"running"} \cup Signals
Goroutines == Reporters \cup {"reader"}

VARIABLES
    info, ver,  \* Session.info.State, and the number of changes so far
    client,     \* the current process, Session.cur: "on", "lost": a tmux client
                \* that is being taken back, "none": its end is recorded
    passed,     \* the takebacks of processes that are not current any more
    killing,    \* the goroutine in kill_resume, "no" without
    listed,     \* the session is in Agent.sessions
    rep,        \* what each goroutine is about to report
    link,       \* the agent's connection: see runConn below
    dialled,    \* its number
    hello,      \* the agent.hello that was built for it
    box,        \* messages on each connection
    waiting, reg,  \* the relay's connection that is not registered yet, and the registered one
    hand,       \* the message each connection's handler is at
    seen,       \* the relay's copy, deviceState.sessions
    view, snap, \* each console: "off", "joining": its list unsent, "on"; and that list
    card,       \* its copy, State.sessions
    faults,
    losses, ends,    \* the changes that gave a tmux client up, and that ended a kill_resume
    overruns,        \* those made by a takeback that something passed
    heard,      \* the latest change of which the relay had a message
    astray,     \* a report was overtaken, or there was none: see RelayShowsState
    crossed     \* broadcasts were: see CardsAgree

procVars == <<client, passed>>
pastVars == <<losses, ends, overruns>>
sessionVars == <<info, ver, procVars, killing, listed, pastVars>>
linkVars == <<link, dialled, hello>>
relayVars == <<waiting, reg, hand, seen, heard>>
consoleVars == <<view, snap, card>>
vars == <<sessionVars, rep, linkVars, box, relayVars, consoleVars, faults, astray, crossed>>

None == [st |-> "none", v |-> 0]
Idle == [t |-> "idle"]
Record == [st |-> info, v |-> ver]

Init ==
    /\ info = "running" /\ ver = 1 /\ client = "on" /\ passed = 0 /\ killing = "no" /\ listed = FALSE
    /\ rep = [g \in Goroutines |-> IF g = "reader" THEN [t |-> "open"] ELSE Idle]
    /\ link = "up" /\ dialled = 1 /\ hello = None
    /\ box = [h \in Conns |-> <<>>] /\ waiting = 0 /\ reg = 1
    /\ hand = [h \in Conns |-> Idle] /\ seen = None
    /\ view = [c \in Consoles |-> "off"] /\ snap = [c \in Consoles |-> None]
    /\ card = [c \in Consoles |-> None]
    /\ faults = 0 /\ losses = {} /\ ends = {} /\ overruns = {} /\ heard = 0
    /\ astray = FALSE /\ crossed = FALSE

-------------------------------------------------------------------------------
(* The session's record *)

Change(st) == ver < MaxChanges /\ info' = st /\ ver' = ver + 1
Reports(g, t, st) == rep[g] = Idle /\ rep' = [rep EXCEPT ![g] = [t |-> t, st |-> st, v |-> ver']]
Fault == faults < MaxFaults /\ faults' = faults + 1

RecordOnly == UNCHANGED <<linkVars, box, relayVars, consoleVars, faults, crossed>>

(* Agent.SessionState, called by hooks, notify and the heuristic: an exited    *)
(* session keeps its state, and one that is not listed has none.               *)
SetState_Any(g, st) ==                   \* mutant: whatever the state is
    /\ listed
    /\ Change(st) /\ Reports(g, "state", st)
    /\ UNCHANGED <<procVars, killing, listed, pastVars, astray>> /\ RecordOnly

SetState(g, st) ==
    /\ listed /\ info # "exited"
    /\ Change(st) /\ Reports(g, "state", st)
    /\ UNCHANGED <<procVars, killing, listed, pastVars, astray>> /\ RecordOnly

(* The read loop is at the messages of a connection. *)
Served == link \in {"up", "broken"}

(* SetMetrics, and SetApprovalMode in the read loop, change the record elsewhere *)
(* and return it.                                                               *)
SetMetrics(g) ==
    /\ listed /\ (g = "reader" => Served)
    /\ Change(info) /\ Reports(g, "updated", info)
    /\ UNCHANGED <<procVars, killing, listed, pastVars, astray>> /\ RecordOnly

(* waitLoop: the shell has ended of its own accord ... *)
Exit(g) ==
    /\ client = "on" /\ killing = "no"
    /\ Change("exited") /\ Reports(g, "exited", "exited")
    /\ client' = "none"
    /\ UNCHANGED <<passed, killing, listed, pastVars, astray>> /\ RecordOnly

(* ... or only its tmux client has, and reattach spawns one without a lock. *)
ClientLost ==
    /\ client = "on" /\ killing = "no" /\ Fault
    /\ client' = "lost"
    /\ UNCHANGED <<info, ver, passed, killing, listed, pastVars, rep, linkVars, box, relayVars,
                   consoleVars, astray, crossed>>

(* Another process becomes the current one; a takeback that is under way goes on. *)
Installs(p) ==
    /\ client' = "on"
    /\ passed' = IF client = "lost" THEN p + 1 ELSE p

(* The session is running again, whatever became of it meanwhile, and nobody   *)
(* is told.                                                                    *)
Runs ==
    IF info = "running" THEN UNCHANGED <<info, ver, astray>>
                        ELSE Change("running") /\ astray' = TRUE

Overrun ==
    /\ passed > 0 /\ Installs(passed - 1) /\ Runs
    /\ overruns' = overruns \cup ({ver'} \ {ver})

Reattach ==
    /\ \/ client = "lost" /\ client' = "on" /\ Runs /\ UNCHANGED <<passed, overruns>>
       \/ Overrun
    /\ UNCHANGED <<killing, listed, rep, losses, ends>> /\ RecordOnly

(* The client is given up, which is reported as an exit. *)
GiveUp(g) ==
    /\ Change("failed") /\ Reports(g, "exited", "exited")
    /\ losses' = losses \cup {ver'}
    /\ \/ client = "lost" /\ client' = "none" /\ UNCHANGED <<passed, overruns>>
       \/ /\ passed > 0 /\ passed' = passed - 1 /\ UNCHANGED client
          /\ overruns' = overruns \cup {ver'}
    /\ UNCHANGED <<killing, listed, ends, astray>> /\ RecordOnly

KillResume(g) ==
    /\ listed /\ Served /\ killing = "no" /\ rep[g] = Idle
    /\ killing' = g /\ rep' = [rep EXCEPT ![g] = [t |-> "kill"]]
    /\ UNCHANGED <<info, ver, procVars, listed, pastVars, astray>> /\ RecordOnly

(* The process is replaced; the record is read again for the report. *)
Resume(g) ==
    /\ killing = g
    /\ Change("running") /\ Installs(passed)
    /\ killing' = "no" /\ ends' = ends \cup {ver'}
    /\ rep' = [rep EXCEPT ![g] = [t |-> "resumed"]]
    /\ UNCHANGED <<listed, losses, overruns, astray>> /\ RecordOnly

(* Spawning failed: the asker has an error for an answer, the others nothing. *)
ResumeFails(g) ==
    /\ killing = g
    /\ Change("failed")
    /\ client' = "none" /\ passed' = IF client = "lost" THEN passed + 1 ELSE passed
    /\ killing' = "no" /\ ends' = ends \cup {ver'}
    /\ rep' = [rep EXCEPT ![g] = Idle]
    /\ astray' = TRUE
    /\ UNCHANGED <<listed, losses, overruns>> /\ RecordOnly

(* openSession lists the session, whose shell has been running for a while. *)
Lists ==
    /\ rep["reader"] = [t |-> "open"]
    /\ listed' = TRUE
    /\ rep' = [rep EXCEPT !["reader"] = [t |-> "opened"]]
    /\ UNCHANGED <<info, ver, procVars, killing, pastVars, astray>> /\ RecordOnly

(* Session.Info: the record as it is now. *)
Look(g) ==
    /\ rep[g] \in {[t |-> "opened"], [t |-> "resumed"]}
    /\ rep' = [rep EXCEPT ![g] = [t |-> "updated", st |-> info, v |-> ver]]
    /\ UNCHANGED <<sessionVars, astray>> /\ RecordOnly

-------------------------------------------------------------------------------
(* The agent's connection: runConn                                             *)
(*   "down"    no connection,                                                  *)
(*   "built"   dialled, and agent.hello built from the records,                *)
(*   "joined"  Agent.conn set, agent.hello not queued yet,                     *)
(*   "up"                                                                      *)
(*   "broken"  the network has failed, the read loop has not ended.            *)

Queue(m) == box' = [box EXCEPT ![dialled] = Append(@, m)]

(* sendMsg: queued, or dropped when there is no connection.  What is dropped   *)
(* is told by the next agent.hello, unless that is built already.              *)
Send(g) ==
    LET m == rep[g] IN
    /\ m.t \in {"state", "updated", "exited"}
    /\ rep' = [rep EXCEPT ![g] = Idle]
    /\ IF link \in {"joined", "up"} THEN Queue(m) ELSE UNCHANGED box
    /\ astray' = (astray \/ (link = "built" /\ m.v > hello.v))
    /\ UNCHANGED <<sessionVars, linkVars, relayVars, consoleVars, faults, crossed>>

Dial ==
    /\ link = "down" /\ dialled < MaxConns /\ waiting = 0
    /\ link' = "built" /\ dialled' = dialled + 1 /\ waiting' = dialled'
    /\ hello' = IF listed THEN Record ELSE None
    /\ UNCHANGED <<sessionVars, rep, box, reg, hand, seen, heard, consoleVars, faults, astray, crossed>>

Publish ==
    /\ link = "built" /\ link' = "joined"
    /\ UNCHANGED <<sessionVars, rep, dialled, hello, box, relayVars, consoleVars, faults, astray, crossed>>

SendHello ==
    /\ link = "joined" /\ link' = "up"
    /\ Queue([t |-> "hello", st |-> hello.st, v |-> hello.v])
    /\ UNCHANGED <<sessionVars, rep, dialled, hello, relayVars, consoleVars, faults, astray, crossed>>

(* What was sent last may not have arrived. *)
Break ==
    /\ link = "up" /\ Fault
    /\ link' = "broken"
    /\ \E n \in 0..Len(box[dialled]) : box' = [box EXCEPT ![dialled] = SubSeq(@, 1, n)]
    /\ UNCHANGED <<sessionVars, rep, dialled, hello, relayVars, consoleVars, astray, crossed>>

(* The read loop ends, once the request it is at has been served. *)
Notice ==
    /\ link = "broken" /\ rep["reader"] = Idle
    /\ link' = "down"
    /\ UNCHANGED <<sessionVars, rep, dialled, hello, box, relayVars, consoleVars, faults, astray, crossed>>

-------------------------------------------------------------------------------
(* The relay *)

(* An older connection is closed, but not the handler it is in. *)
Register ==
    /\ waiting # 0
    /\ reg' = waiting /\ waiting' = 0
    /\ box' = [h \in Conns |-> IF h = waiting THEN box[h] ELSE <<>>]
    /\ UNCHANGED <<sessionVars, rep, linkVars, hand, seen, heard, consoleVars, faults, astray, crossed>>

Read(h) ==
    /\ hand[h] = Idle /\ box[h] # <<>> /\ h # waiting
    /\ hand' = [hand EXCEPT ![h] = [m |-> Head(box[h]), t |-> "lock"]]
    /\ box' = [box EXCEPT ![h] = Tail(@)]
    /\ UNCHANGED <<sessionVars, rep, linkVars, waiting, reg, seen, heard, consoleVars, faults,
                   astray, crossed>>

(* The handler of h changes the copy while another's broadcast, or a console's *)
(* list, of an earlier one is still to be sent.                                *)
Racing(h) ==
    \/ \E g \in Conns \ {h} : hand[g].t = "tell"
    \/ \E c \in Consoles : view[c] = "joining"

(* Every handler's critical section: the copy becomes what new says. *)
Updates(h, new, next) ==
    LET m == hand[h].m IN
    /\ hand[h].t = "lock"
    /\ seen' = new
    /\ hand' = [hand EXCEPT ![h] = IF next = "idle" THEN Idle ELSE [m |-> m, t |-> next]]
    /\ heard' = IF m.v > heard THEN m.v ELSE heard
    /\ astray' = IF m.v < heard THEN TRUE ELSE astray /\ m.v # ver
    /\ crossed' = (Racing(h) \/ (crossed /\ m.t \notin {"hello", "updated"}))
    /\ UNCHANGED <<sessionVars, rep, linkVars, box, waiting, reg, consoleVars, faults>>

Shown(m) == [st |-> m.st, v |-> m.v]

(* onAgentHello: only on the connection that is registered. *)
OnHello_Keep(h) ==                       \* mutant: a session that is known stays as it is
    /\ hand[h].t = "lock" /\ hand[h].m.t = "hello"
    /\ \/ reg = h /\ Updates(h, IF seen = None THEN Shown(hand[h].m) ELSE seen, "list")
       \/ reg # h /\ Updates(h, seen, "idle")

OnHello_Silent(h) ==                     \* mutant: no session.list is sent
    /\ hand[h].t = "lock" /\ hand[h].m.t = "hello"
    /\ Updates(h, IF reg = h THEN Shown(hand[h].m) ELSE seen, "idle")

OnHello(h) ==
    /\ hand[h].t = "lock" /\ hand[h].m.t = "hello"
    /\ \/ reg = h /\ Updates(h, Shown(hand[h].m), "list")
       \/ reg # h /\ Updates(h, seen, "idle")

(* onSessionUpsert, for session.opened and session.updated. *)
OnSessionUpsert(h) ==
    /\ hand[h].t = "lock" /\ hand[h].m.t = "updated"
    /\ Updates(h, Shown(hand[h].m), "tell")

(* onSessionState and onSessionExited: nothing becomes of an unknown session. *)
OnSessionState(h) ==
    /\ hand[h].t = "lock" /\ hand[h].m.t \in {"state", "exited"}
    /\ Updates(h, IF seen = None THEN None ELSE Shown(hand[h].m), "tell")

(* broadcastSessionList reads the copy again. *)
ReadList(h) ==
    /\ hand[h].t = "list"
    /\ hand' = [hand EXCEPT ![h] = [m |-> [t |-> "list", st |-> seen.st, v |-> seen.v], t |-> "tell"]]
    /\ UNCHANGED <<sessionVars, rep, linkVars, box, waiting, reg, seen, heard, consoleVars, faults,
                   astray, crossed>>

(* The console's reducer: a state or an exit is noted on a card it has. *)
Noted(c, m) == IF m.t \in {"state", "exited"} /\ card[c] = None THEN None ELSE Shown(m)

Tell(h) ==
    /\ hand[h].t = "tell"
    /\ card' = [c \in Consoles |-> IF view[c] = "off" THEN card[c] ELSE Noted(c, hand[h].m)]
    /\ hand' = [hand EXCEPT ![h] = Idle]
    /\ UNCHANGED <<sessionVars, rep, linkVars, box, waiting, reg, seen, heard, view, snap, faults,
                   astray, crossed>>

(* The relay remembers no session; its connections end. *)
RelayRestart ==
    /\ Fault
    /\ seen' = None /\ heard' = 0 /\ waiting' = 0 /\ reg' = 0
    /\ box' = [h \in Conns |-> <<>>] /\ hand' = [h \in Conns |-> Idle]
    /\ link' = IF link = "down" THEN "down" ELSE "broken"
    /\ view' = [c \in Consoles |-> "off"] /\ snap' = [c \in Consoles |-> None]
    /\ UNCHANGED <<sessionVars, rep, dialled, hello, card, astray, crossed>>

-------------------------------------------------------------------------------
(* Consoles *)

Join(c) ==
    /\ view[c] = "off"
    /\ view' = [view EXCEPT ![c] = "joining"] /\ snap' = [snap EXCEPT ![c] = seen]
    /\ UNCHANGED <<sessionVars, rep, linkVars, box, relayVars, card, faults, astray, crossed>>

(* session.list replaces what the page has of the device. *)
List(c) ==
    /\ view[c] = "joining"
    /\ view' = [view EXCEPT ![c] = "on"] /\ card' = [card EXCEPT ![c] = snap[c]]
    /\ snap' = [snap EXCEPT ![c] = None]
    /\ UNCHANGED <<sessionVars, rep, linkVars, box, relayVars, faults, astray, crossed>>

Leave(c) ==
    /\ view[c] # "off" /\ Fault
    /\ view' = [view EXCEPT ![c] = "off"] /\ snap' = [snap EXCEPT ![c] = None]
    /\ UNCHANGED <<sessionVars, rep, linkVars, box, relayVars, card, astray, crossed>>

-------------------------------------------------------------------------------
Report(g) == Look(g) \/ Send(g)
Handle(h) ==
    Read(h) \/ OnHello(h) \/ OnSessionUpsert(h) \/ OnSessionState(h) \/ ReadList(h) \/ Tell(h)

Next ==
    \/ \E g \in Reporters :
         \/ Exit(g) \/ GiveUp(g) \/ KillResume(g) \/ Resume(g) \/ ResumeFails(g)
         \/ \E st \in Signals : SetState(g, st)
    \/ \E g \in Goroutines : SetMetrics(g) \/ Report(g)
    \/ ClientLost \/ Reattach \/ Lists
    \/ Dial \/ Publish \/ SendHello \/ Break \/ Notice
    \/ Register \/ RelayRestart \/ \E h \in Conns : Handle(h)
    \/ \E c \in Consoles : Join(c) \/ List(c) \/ Leave(c)

(* Goroutines run, agent and page reconnect.  Tools, people and faults owe     *)
(* nothing, nor does a kill_resume have to end.                                *)
Fairness ==
    /\ \A g \in Goroutines : WF_vars(Report(g))
    /\ WF_vars(Lists) /\ WF_vars(Dial) /\ WF_vars(Publish) /\ WF_vars(SendHello) /\ WF_vars(Notice)
    /\ WF_vars(Register) /\ \A h \in Conns : WF_vars(Handle(h))
    /\ \A c \in Consoles : WF_vars(Join(c)) /\ WF_vars(List(c))

Spec == Init /\ [][Next]_vars
FairSpec == Spec /\ Fairness

-------------------------------------------------------------------------------
(* The relay ends up showing the state the session is in, whatever was lost on *)
(* the way, unless a report was overtaken by a later one, was dropped behind   *)
(* the hello's back, or never made, and nothing was reported since.            *)
RelayShowsState ==
    <>[](astray \/ seen.st = info \/ (info = "failed" /\ seen.st = "exited"))

(* Every console ends up with the relay's view of the session, unless two       *)
(* broadcasts, or one and the console's first list, overtook each other.        *)
CardsAgree == \A c \in Consoles : <>[](crossed \/ card[c] = seen)

(* "Exited sessions keep their state; do not resurrect them in the console"     *)
(* (agent.go:384): a card that showed the exit shows a live session again only  *)
(* after a kill_resume, or a takeback of a tmux client that a kill_resume had   *)
(* passed, or for an older report that was overtaken.                          *)
Undone(c) == card[c].st = "exited" /\ card[c].v \notin losses /\ card'[c].st \in Live
Between(c, changes) == \E v \in changes : card[c].v < v /\ v <= card'[c].v
ExitStands ==
    [][\A c \in Consoles :
         Undone(c) => Between(c, ends \cup overruns) \/ card'[c].v < card[c].v]_vars

(* The same without exception, as the comment has it. *)
ExitIsNeverUndone == [][\A c \in Consoles : Undone(c) => Between(c, ends)]_vars
================================================================================
