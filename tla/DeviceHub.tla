------------------------------- MODULE DeviceHub -------------------------------
(***************************************************************************)
(* The relay's registry (internal/relay/hub.go, ws_agent.go, ws_client.go,   *)
(* server.go): which connection serves a device, which device owns a         *)
(* session and which console is attached to it, while agents redial,         *)
(* connections are replaced, swept and lost, and devices are revoked.        *)
(*                                                                          *)
(* Every critical section of Server.mu is one step.  A connection is handled *)
(* by one goroutine: it authenticates, registers, serves messages one by one *)
(* and unregisters; what it broadcasts is in DevicePresence.                 *)
(* An agent opens and closes sessions only in its read loop, that is while   *)
(* it is connected; a goroutine of it may report a session later.            *)
(***************************************************************************)
EXTENDS Naturals, Sequences, FiniteSets

CONSTANTS
    Devices,
    Sids,       \* session ids, random 31-bit numbers: two agents may collide
    Clients,    \* console connections
    MaxConns,   \* bound on the connections agents dial
    MaxOpens,   \* bound on the sessions opened or reported again
    MaxBox,     \* bound on the messages in one connection
    MaxRevoked, \* bound on the devices revoked
    None

Conns == 1..MaxConns
ASSUME NoneAssumption == None \notin Devices \cup Conns \cup Sids
ASSUME BoundsAssumption == {MaxConns, MaxOpens} \subseteq Nat /\ MaxBox \in Nat \ {0}
ASSUME DistinctAssumption == Conns \cap (Clients \cup {None}) = {}

VARIABLES
    active,     \* rows of the devices table that are not revoked
    table,      \* keys of Server.devices
    conn,       \* deviceState.conn
    sessions,   \* deviceState.sessions
    owner,      \* Server.sidOwner
    atts,       \* Server.attachments
    mine,       \* clientConn.attached
    phase,      \* each connection: "unused", "authed", "serving", "over"
    of,         \* the device that dialled it
    closed,     \* those the relay has closed
    box,        \* messages of the agent not yet handled
    grabbed,    \* connections whose read loop has taken the first of them
    old,        \* the connection each has replaced and is about to close
    evicted,    \* those revocations are about to close
    have, cur,  \* the agent's sessions, and its connection
    opens,      \* how many were opened or are reported again
    held,       \* a session some goroutine of the agent is about to report
    rv,         \* the device whose row was just revoked
    clients,    \* Server.clients
    looking,    \* the device a console's attach was resolved to, and the session
    late,       \* devices a connection of which registered after the revocation
    ghosts      \* sessions of a device last heard of after their close, by a replaced
                \* connection, or when another device had the number

hubVars == <<table, conn, sessions, owner, atts, mine>>
closeVars == <<old, evicted>>
connVars == <<phase, of, closed, box, grabbed, closeVars>>
agentVars == <<have, cur, held, opens>>
clientVars == <<clients, looking>>
rowVars == <<active, rv>>
histVars == <<late, ghosts>>
vars == <<hubVars, connVars, agentVars, clientVars, rowVars, histVars>>

Init ==
    /\ active = Devices /\ table = Devices /\ rv = None
    /\ conn = [d \in Devices |-> None] /\ sessions = [d \in Devices |-> {}]
    /\ owner = [s \in Sids |-> None] /\ atts = [s \in Sids |-> {}]
    /\ mine = [c \in Clients |-> {}]
    /\ phase = [h \in Conns |-> "unused"] /\ of = [h \in Conns |-> None]
    /\ closed = {} /\ box = [h \in Conns |-> <<>>] /\ grabbed = {}
    /\ old = [h \in Conns |-> None] /\ evicted = {}
    /\ have = [d \in Devices |-> {}] /\ cur = [d \in Devices |-> None] /\ opens = 0
    /\ held = [d \in Devices |-> None]
    /\ clients = {} /\ looking = [c \in Clients |-> None]
    /\ late = {} /\ ghosts = {}

-------------------------------------------------------------------------------
(* The agent *)

(* The token's row is found and the connection accepted; the agent sends      *)
(* agent.hello with all its sessions.                                         *)
Dial(h, d) ==
    /\ phase[h] = "unused" /\ \A g \in Conns : g < h => phase[g] # "unused"
    /\ d \in active /\ cur[d] = None
    /\ phase' = [phase EXCEPT ![h] = "authed"] /\ of' = [of EXCEPT ![h] = d]
    /\ cur' = [cur EXCEPT ![d] = h]
    /\ box' = [box EXCEPT ![h] = <<[t |-> "hello", sids |-> have[d]]>>]
    /\ UNCHANGED <<hubVars, closed, grabbed, closeVars, have, held, opens, clientVars, rowVars, histVars>>

Room(d) == cur[d] # None /\ Len(box[cur[d]]) < MaxBox
Tell(d, m) == box' = [box EXCEPT ![cur[d]] = Append(@, m)]
MessageUnchanged ==
    UNCHANGED <<hubVars, phase, of, closed, grabbed, closeVars, clientVars, rowVars>>

(* session.open: openSession draws a number no session of its own has. *)
Open(d, s) ==
    /\ Room(d) /\ s \notin have[d] /\ opens < MaxOpens
    /\ opens' = opens + 1
    /\ have' = [have EXCEPT ![d] = @ \cup {s}]
    /\ Tell(d, [t |-> "upsert", sid |-> s])
    /\ UNCHANGED <<cur, held, histVars>> /\ MessageUnchanged

(* session.close *)
CloseSession(d, s) ==
    /\ Room(d) /\ s \in have[d]
    /\ have' = [have EXCEPT ![d] = @ \ {s}]
    /\ Tell(d, [t |-> "closed", sid |-> s])
    /\ UNCHANGED <<cur, held, opens, histVars>> /\ MessageUnchanged

(* kill_resume and the status line look the session up ... *)
Hold(d, s) ==
    /\ s \in have[d] /\ held[d] = None /\ opens < MaxOpens
    /\ opens' = opens + 1
    /\ held' = [held EXCEPT ![d] = s]
    /\ UNCHANGED <<have, cur, box, histVars>> /\ MessageUnchanged

(* ... and send session.updated afterwards, whatever became of it. *)
Updated(d) ==
    LET s == held[d] IN
    /\ s # None /\ Room(d)
    /\ held' = [held EXCEPT ![d] = None]
    /\ Tell(d, [t |-> "upsert", sid |-> s])
    /\ UNCHANGED <<have, cur, opens, histVars>> /\ MessageUnchanged

(* The agent's read loop ends: the network failed, or the relay closed it. *)
AgentLoses(d) ==
    /\ cur[d] # None
    /\ cur' = [cur EXCEPT ![d] = None]
    /\ UNCHANGED <<have, held, opens, box, histVars>> /\ MessageUnchanged

-------------------------------------------------------------------------------
(* The relay: a connection's goroutine *)

Forgotten(ss) ==                        \* forgetSIDLocked for each of ss
    /\ atts' = [s \in Sids |-> IF s \in ss THEN {} ELSE atts[s]]
    /\ mine' = [c \in Clients |-> mine[c] \ ss]

(* A device that is not in the table gets a new entry; an older connection is *)
(* replaced ...                                                               *)
Register(h) ==
    LET d == of[h] IN
    /\ phase[h] = "authed"
    /\ phase' = [phase EXCEPT ![h] = "serving"]
    /\ table' = table \cup {d}
    /\ conn' = [conn EXCEPT ![d] = h]
    /\ old' = [old EXCEPT ![h] = conn[d]]
    /\ late' = IF d \in active THEN late ELSE late \cup {d}
    /\ UNCHANGED <<sessions, owner, atts, mine, of, closed, box, grabbed, evicted,
                   agentVars, clientVars, rowVars, ghosts>>

(* ... and closed once the lock is released, before the new one is read: the   *)
(* old one may be served as long.                                             *)
CloseOld(h) ==
    /\ old[h] # None
    /\ closed' = closed \cup {old[h]} /\ old' = [old EXCEPT ![h] = None]
    /\ UNCHANGED <<hubVars, phase, of, box, grabbed, evicted, agentVars, clientVars,
                   rowVars, histVars>>

Serves(h) == of[h] \in table /\ conn[of[h]] = h

(* The read loop takes a message, unless its connection was closed ... *)
Read(h) ==
    /\ phase[h] = "serving" /\ old[h] = None
    /\ h \notin closed \cup grabbed /\ box[h] # <<>>
    /\ grabbed' = grabbed \cup {h}
    /\ UNCHANGED <<hubVars, phase, of, closed, box, closeVars, agentVars, clientVars, rowVars, histVars>>

(* ... and its handler comes to the lock later. *)
Takes(h, t) ==
    /\ h \in grabbed /\ Head(box[h]).t = t
    /\ box' = [box EXCEPT ![h] = Tail(@)]
    /\ grabbed' = grabbed \ {h}
Heard(h, s, holds) ==
    ghosts' = IF Serves(h) /\ holds THEN ghosts \ {<<of[h], s>>} ELSE ghosts \cup {<<of[h], s>>}

(* registerSIDLocked: refused while another device has the number. *)
Registrable_Any(s, d) == s \in Sids     \* mutant: taken from the other device
Registrable(s, d) == owner[s] \in {None, d}

(* onAgentHello: the session set is replaced. *)
Hello_Merge(h) ==                       \* mutant: what the agent lost meanwhile stays
    LET d == of[h]
        fresh == {s \in Head(box[h]).sids : Registrable(s, d)} IN
    /\ Takes(h, "hello")
    /\ IF Serves(h)
         THEN /\ sessions' = [sessions EXCEPT ![d] = @ \cup fresh]
              /\ owner' = [s \in Sids |-> IF s \in fresh THEN d ELSE owner[s]]
              /\ ghosts' = (ghosts \ ({d} \X Sids)) \cup ({d} \X (Head(box[h]).sids \ fresh))
         ELSE UNCHANGED <<sessions, owner, ghosts>>
    /\ UNCHANGED <<table, conn, atts, mine, phase, of, closed, closeVars, agentVars,
                   clientVars, rowVars, late>>

Hello(h) ==
    LET d == of[h]
        fresh == {s \in Head(box[h]).sids : Registrable(s, d)}
        gone == sessions[d] \ fresh IN
    /\ Takes(h, "hello")
    /\ IF Serves(h)
         THEN /\ sessions' = [sessions EXCEPT ![d] = fresh]
              /\ owner' = [s \in Sids |-> IF s \in fresh THEN d
                                          ELSE IF s \in gone THEN None ELSE owner[s]]
              /\ Forgotten(gone)
              /\ ghosts' = (ghosts \ ({d} \X Sids)) \cup ({d} \X (Head(box[h]).sids \ fresh))
         ELSE UNCHANGED <<sessions, owner, atts, mine, ghosts>>
    /\ UNCHANGED <<table, conn, phase, of, closed, closeVars, agentVars, clientVars, rowVars, late>>

(* onSessionUpsert, for session.opened and session.updated. *)
Upsert(h) ==
    LET d == of[h]
        s == Head(box[h]).sid IN
    /\ Takes(h, "upsert")
    /\ IF d \in table /\ Registrable(s, d)
         THEN /\ sessions' = [sessions EXCEPT ![d] = @ \cup {s}]
              /\ owner' = [owner EXCEPT ![s] = d]
         ELSE UNCHANGED <<sessions, owner>>
    /\ Heard(h, s, s \in have[d] /\ Registrable(s, d))
    /\ UNCHANGED <<table, conn, atts, mine, phase, of, closed, closeVars, agentVars,
                   clientVars, rowVars, late>>

(* onSessionClosed *)
Closed(h) ==
    LET d == of[h]
        s == Head(box[h]).sid IN
    /\ Takes(h, "closed")
    /\ sessions' = IF d \in table THEN [sessions EXCEPT ![d] = @ \ {s}] ELSE sessions
    /\ IF owner[s] = d THEN owner' = [owner EXCEPT ![s] = None] /\ Forgotten({s})
                       ELSE UNCHANGED <<owner, atts, mine>>
    /\ Heard(h, s, TRUE)
    /\ UNCHANGED <<table, conn, phase, of, closed, closeVars, agentVars, clientVars, rowVars, late>>

(* sweepOnce closes what it collected under the lock: connections that had been *)
(* registered when no heartbeat came for too long, from a lost agent or a slow  *)
(* one, and may have been replaced since.                                      *)
Sweep(h) ==
    /\ phase[h] = "serving" /\ h \notin closed
    /\ closed' = closed \cup {h}
    /\ UNCHANGED <<hubVars, phase, of, box, grabbed, closeVars, agentVars, clientVars, rowVars,
                   histVars>>

(* The read loop ends, and with it the connection; one that was replaced      *)
(* leaves the newer one alone.                                                *)
Unregister_Any(h) ==                    \* mutant: whichever connection is registered
    LET d == of[h] IN
    /\ phase[h] = "serving" /\ old[h] = None
    /\ h \notin grabbed /\ (h \in closed \/ cur[d] # h)
    /\ phase' = [phase EXCEPT ![h] = "over"] /\ box' = [box EXCEPT ![h] = <<>>]
    /\ conn' = [conn EXCEPT ![d] = None]
    /\ closed' = closed \cup {h}
    /\ UNCHANGED <<table, sessions, owner, atts, mine, of, grabbed, closeVars, agentVars,
                   clientVars, rowVars, histVars>>

Unregister(h) ==
    LET d == of[h] IN
    /\ phase[h] = "serving" /\ old[h] = None
    /\ h \notin grabbed /\ (h \in closed \/ cur[d] # h)
    /\ phase' = [phase EXCEPT ![h] = "over"] /\ box' = [box EXCEPT ![h] = <<>>]
    /\ conn' = IF Serves(h) THEN [conn EXCEPT ![d] = None] ELSE conn
    /\ closed' = closed \cup {h}
    /\ UNCHANGED <<table, sessions, owner, atts, mine, of, grabbed, closeVars, agentVars,
                   clientVars, rowVars, histVars>>

-------------------------------------------------------------------------------
(* revokeDevice *)

RevokeRow(d) ==
    /\ d \in active /\ rv = None /\ Cardinality(Devices \ active) < MaxRevoked
    /\ active' = active \ {d} /\ rv' = d
    /\ UNCHANGED <<hubVars, connVars, agentVars, clientVars, histVars>>

RevokeTable_Connected ==                \* mutant: only a connected device is deleted
    LET d == rv IN
    /\ d # None /\ rv' = None
    /\ sessions' = [sessions EXCEPT ![d] = {}]
    /\ owner' = [s \in Sids |-> IF s \in sessions[d] THEN None ELSE owner[s]]
    /\ Forgotten(sessions[d])
    /\ table' = IF conn[d] # None THEN table \ {d} ELSE table
    /\ conn' = [conn EXCEPT ![d] = None]
    /\ evicted' = evicted \cup ({conn[d]} \ {None})
    /\ UNCHANGED <<active, phase, of, closed, box, grabbed, old, agentVars, clientVars,
                   histVars>>

RevokeTable ==
    LET d == rv IN
    /\ d # None /\ rv' = None
    /\ sessions' = [sessions EXCEPT ![d] = {}]
    /\ owner' = [s \in Sids |-> IF s \in sessions[d] THEN None ELSE owner[s]]
    /\ Forgotten(sessions[d])
    /\ table' = table \ {d} /\ conn' = [conn EXCEPT ![d] = None]
    /\ evicted' = evicted \cup ({conn[d]} \ {None})
    /\ UNCHANGED <<active, phase, of, closed, box, grabbed, old, agentVars, clientVars,
                   histVars>>

(* The connection of a revoked device is closed once the lock is released. *)
CloseEvicted(h) ==
    /\ h \in evicted
    /\ closed' = closed \cup {h} /\ evicted' = evicted \ {h}
    /\ UNCHANGED <<hubVars, phase, of, box, grabbed, old, agentVars, clientVars,
                   rowVars, histVars>>

-------------------------------------------------------------------------------
(* Consoles *)

Join(c) ==
    /\ c \notin clients
    /\ clients' = clients \cup {c}
    /\ UNCHANGED <<hubVars, connVars, agentVars, looking, rowVars, histVars>>

(* session.attach finds the owner's connection ... *)
AttachFind(c, s) ==
    /\ c \in clients /\ looking[c] = None
    /\ owner[s] # None /\ conn[owner[s]] # None
    /\ looking' = [looking EXCEPT ![c] = <<s, owner[s]>>]
    /\ UNCHANGED <<hubVars, connVars, agentVars, clients, rowVars, histVars>>

(* ... and is marked if that is still the owner. *)
AttachMark_Blind(c) ==                  \* mutant: the owner is not looked up again
    LET s == looking[c][1] IN
    /\ looking[c] # None
    /\ atts' = [atts EXCEPT ![s] = @ \cup {c}]
    /\ mine' = [mine EXCEPT ![c] = @ \cup {s}]
    /\ looking' = [looking EXCEPT ![c] = None]
    /\ UNCHANGED <<table, conn, sessions, owner, connVars, agentVars, clients,
                   rowVars, histVars>>

AttachMark(c) ==
    LET s == looking[c][1] IN
    /\ looking[c] # None
    /\ IF owner[s] = looking[c][2]
         THEN /\ atts' = [atts EXCEPT ![s] = @ \cup {c}]
              /\ mine' = [mine EXCEPT ![c] = @ \cup {s}]
         ELSE UNCHANGED <<atts, mine>>
    /\ looking' = [looking EXCEPT ![c] = None]
    /\ UNCHANGED <<table, conn, sessions, owner, connVars, agentVars, clients,
                   rowVars, histVars>>

Detach(c, s) ==
    /\ c \in clients /\ looking[c] = None
    /\ atts' = [atts EXCEPT ![s] = @ \ {c}]
    /\ mine' = [mine EXCEPT ![c] = @ \ {s}]
    /\ UNCHANGED <<table, conn, sessions, owner, connVars, agentVars, clientVars,
                   rowVars, histVars>>

Leave(c) ==
    /\ c \in clients /\ looking[c] = None
    /\ clients' = clients \ {c}
    /\ atts' = [s \in Sids |-> IF s \in mine[c] THEN atts[s] \ {c} ELSE atts[s]]
    /\ mine' = [mine EXCEPT ![c] = {}]
    /\ UNCHANGED <<table, conn, sessions, owner, connVars, agentVars, looking,
                   rowVars, histVars>>

-------------------------------------------------------------------------------
Runs(h) == Register(h) \/ CloseOld(h) \/ Read(h) \/ Hello(h) \/ Upsert(h) \/ Closed(h)
Handle(h) == Runs(h) \/ Unregister(h)

Next ==
    \/ \E h \in Conns, d \in Devices : Dial(h, d)
    \/ \E d \in Devices, s \in Sids : Open(d, s) \/ CloseSession(d, s) \/ Hold(d, s)
    \/ \E d \in Devices : Updated(d) \/ AgentLoses(d) \/ RevokeRow(d)
    \/ \E h \in Conns : Handle(h) \/ Sweep(h) \/ CloseEvicted(h)
    \/ RevokeTable
    \/ \E c \in Clients, s \in Sids : AttachFind(c, s) \/ Detach(c, s)
    \/ \E c \in Clients : Join(c) \/ AttachMark(c) \/ Leave(c)

Spec == Init /\ [][Next]_vars

(* Goroutines run, and the sweeper finds a connection whose agent is gone; a   *)
(* read loop ends, and an agent notices, once the relay has closed the         *)
(* connection.  Networks and people owe nothing.                               *)
Ends(h) == h \in closed /\ Unregister(h)
Expires(h) == Sweep(h) /\ Serves(h) /\ cur[of[h]] # h
Notices(d) == cur[d] \in closed /\ AgentLoses(d)
Fairness ==
    /\ \A h \in Conns :
        WF_vars(Runs(h)) /\ WF_vars(Ends(h)) /\ WF_vars(Expires(h)) /\ WF_vars(CloseEvicted(h))
    /\ \A d \in Devices : WF_vars(Notices(d)) /\ WF_vars(Updated(d))
    /\ WF_vars(RevokeTable)
FairSpec == Spec /\ Fairness

-------------------------------------------------------------------------------
Messages == [t : {"hello"}, sids : SUBSET Sids] \cup [t : {"upsert", "closed"}, sid : Sids]

TypeOK ==
    /\ active \subseteq Devices /\ table \subseteq Devices /\ rv \in Devices \cup {None}
    /\ conn \in [Devices -> Conns \cup {None}] /\ sessions \in [Devices -> SUBSET Sids]
    /\ owner \in [Sids -> Devices \cup {None}] /\ atts \in [Sids -> SUBSET Clients]
    /\ mine \in [Clients -> SUBSET Sids]
    /\ phase \in [Conns -> {"unused", "authed", "serving", "over"}]
    /\ of \in [Conns -> Devices \cup {None}] /\ \A h \in Conns : of[h] = None <=> phase[h] = "unused"
    /\ {closed, grabbed, evicted} \subseteq SUBSET Conns
    /\ old \in [Conns -> Conns \cup {None}] /\ box \in [Conns -> Seq(Messages)]
    /\ have \in [Devices -> SUBSET Sids] /\ cur \in [Devices -> Conns \cup {None}]
    /\ held \in [Devices -> Sids \cup {None}] /\ opens \in 0..MaxOpens
    /\ clients \subseteq Clients /\ looking \in [Clients -> (Sids \X Devices) \cup {None}]
    /\ late \subseteq Devices /\ ghosts \subseteq Devices \X Sids

(* A session number is owned by exactly the device that lists it, a device of  *)
(* the table, through collisions, hellos of new connections, messages of old   *)
(* ones and revocations: frames are routed by sidOwner and shown by sessions.  *)
SidOwned ==
    \A s \in Sids, d \in Devices :
        (owner[s] = d <=> s \in sessions[d]) /\ (owner[s] = d => d \in table)

(* The two attachment tables agree, and name registered consoles and sessions  *)
(* somebody owns: none outlives its session, its device or its console.        *)
AttachmentsAgree ==
    \A c \in Clients, s \in Sids :
        /\ c \in atts[s] <=> s \in mine[c]
        /\ c \in atts[s] => c \in clients /\ owner[s] # None

(* Whatever connections were replaced, revoked or swept in whatever order, one *)
(* that may still be read is the one registered for its device, or whoever     *)
(* took its place is about to close it: none is forgotten open, to be served   *)
(* beside the newer one for good.                                              *)
ServedIsRegistered ==
    \A h \in Conns :
        phase[h] = "serving" /\ h \notin closed
            => Serves(h) \/ h \in evicted \/ \E g \in Conns : old[g] = h

(* A revoked device is out of the table with its sessions, unless one of its   *)
(* connections had been authenticated before and registered after.             *)
RevokedIsGone ==
    \A d \in Devices : d \notin active /\ rv # d /\ d \notin late => d \notin table

Stands(d) == d \in table /\ conn[d] # None /\ conn[d] = cur[d]

(* While a connection stands the relay ends up with exactly the sessions of    *)
(* the agent, whatever was opened and closed while it was away or an older     *)
(* connection was served, but for one last heard of out of order or refused    *)
(* because another device had its number.                                      *)
SessionsFollow ==
    \A d \in Devices, s \in Sids :
        <>[](Stands(d) /\ <<d, s>> \notin ghosts)
            => <>[](owner[s] = d <=> s \in have[d])
================================================================================
