---------------------------- MODULE DeviceHubProofs ----------------------------
(***************************************************************************)
(* For any number of devices, sessions, consoles and connections: the tables *)
(* of the registry agree with each other, a connection that lost its place is *)
(* about to be closed, and a revoked device stays out.                       *)
(*                                                                          *)
(* The argument: a handler writes owner and sessions in one section, and      *)
(* forgets a session's attachments in the section that frees its number.  It  *)
(* may do so long after its message was read: GrabbedServe keeps the message  *)
(* and the device its connection belongs to, LookersJoined the console that   *)
(* waits between the two sections of an attach, ReplacersServe the connection *)
(* one has replaced until it is closed.                                      *)
(***************************************************************************)
EXTENDS DeviceHub, TLAPS

GrabbedServe == \A h \in grabbed : phase[h] = "serving" /\ box[h] # <<>>
ReplacersServe == \A h \in Conns : old[h] # None => phase[h] = "serving"
LookersJoined == \A c \in Clients : looking[c] # None => c \in clients

IInv ==
    /\ TypeOK /\ GrabbedServe /\ ReplacersServe /\ LookersJoined
    /\ SidOwned /\ AttachmentsAgree /\ ServedIsRegistered /\ RevokedIsGone

-------------------------------------------------------------------------------
(* Types: the variables of the registry, the connections, the agents and the   *)
(* consoles apart.                                                            *)

HubTypes ==
    /\ table \subseteq Devices
    /\ conn \in [Devices -> Conns \cup {None}] /\ sessions \in [Devices -> SUBSET Sids]
    /\ owner \in [Sids -> Devices \cup {None}] /\ atts \in [Sids -> SUBSET Clients]
    /\ mine \in [Clients -> SUBSET Sids]
ConnTypes ==
    /\ phase \in [Conns -> {"unused", "authed", "serving", "over"}]
    /\ of \in [Conns -> Devices \cup {None}]
    /\ \A h \in Conns : of[h] = None <=> phase[h] = "unused"
    /\ closed \subseteq Conns /\ grabbed \subseteq Conns /\ evicted \subseteq Conns
    /\ old \in [Conns -> Conns \cup {None}]
    /\ box \in [Conns -> Seq(Messages)]
AgentTypes ==
    /\ have \in [Devices -> SUBSET Sids] /\ cur \in [Devices -> Conns \cup {None}]
    /\ held \in [Devices -> Sids \cup {None}] /\ opens \in 0..MaxOpens
ClientTypes ==
    /\ clients \subseteq Clients /\ looking \in [Clients -> (Sids \X Devices) \cup {None}]
RowTypes == active \subseteq Devices /\ rv \in Devices \cup {None}
HistTypes == late \subseteq Devices /\ ghosts \subseteq Devices \X Sids

LEMMA TypeParts ==
    TypeOK <=> HubTypes /\ ConnTypes /\ AgentTypes /\ ClientTypes /\ RowTypes /\ HistTypes
  BY DEF TypeOK, HubTypes, ConnTypes, AgentTypes, ClientTypes, RowTypes, HistTypes

LEMMA Numbers == MaxOpens \in Nat /\ MaxConns \in Nat /\ MaxBox \in Nat
<1>1. MaxOpens \in Nat /\ MaxConns \in Nat
  BY BoundsAssumption, Zenon
<1>2. QED
  BY <1>1, BoundsAssumption

(* A message that a handler has taken, and whose device it is. *)
LEMMA TakenTyped ==
    ASSUME ConnTypes, GrabbedServe, NEW h \in Conns, h \in grabbed
    PROVE  /\ of[h] \in Devices /\ phase[h] = "serving" /\ box[h] # <<>>
           /\ Tail(box[h]) \in Seq(Messages)
           /\ Head(box[h]).t = "hello" => Head(box[h]).sids \subseteq Sids
           /\ Head(box[h]).t \in {"upsert", "closed"} => Head(box[h]).sid \in Sids
<1>1. phase[h] = "serving" /\ box[h] # <<>>
  BY DEF GrabbedServe
<1>2. of[h] \in Devices
  BY <1>1 DEF ConnTypes
<1>3. box[h] \in Seq(Messages)
  BY DEF ConnTypes
<1>4. Head(box[h]) \in Messages /\ Tail(box[h]) \in Seq(Messages)
  BY <1>1, <1>3
<1>5. QED
  BY <1>1, <1>2, <1>4 DEF Messages

LEMMA TellTyped ==
    ASSUME ConnTypes, NEW d \in Devices, AgentTypes, Room(d), NEW m \in Messages, Tell(d, m)
    PROVE  /\ box' \in [Conns -> Seq(Messages)]
           /\ \A h \in Conns : box[h] # <<>> => box'[h] # <<>>
<1>1. cur[d] \in Conns
  BY DEF Room, AgentTypes
<1>2. box' = [box EXCEPT ![cur[d]] = Append(box[cur[d]], m)]
  BY DEF Tell
<1>3. box[cur[d]] \in Seq(Messages)
  BY <1>1 DEF ConnTypes
<1>4. Append(box[cur[d]], m) \in Seq(Messages) /\ Append(box[cur[d]], m) # <<>>
  BY <1>3
<1>5. QED
  BY <1>1, <1>2, <1>4 DEF ConnTypes

-------------------------------------------------------------------------------
(* What the steps of each actor leave alone. *)

AgentStep ==
    \/ \E d \in Devices, s \in Sids : Open(d, s) \/ CloseSession(d, s) \/ Hold(d, s)
    \/ \E d \in Devices : Updated(d) \/ AgentLoses(d)
HandlerStep(h) == Hello(h) \/ Upsert(h) \/ Closed(h)
Closing(h) == CloseOld(h) \/ CloseEvicted(h) \/ Sweep(h)
ConsoleStep ==
    \/ \E c \in Clients, s \in Sids : AttachFind(c, s) \/ Detach(c, s)
    \/ \E c \in Clients : Join(c) \/ AttachMark(c) \/ Leave(c)

LEMMA Actors ==
    ASSUME Next
    PROVE  \/ AgentStep \/ ConsoleStep \/ RevokeTable
           \/ \E h \in Conns, d \in Devices : Dial(h, d)
           \/ \E h \in Conns : Register(h) \/ Read(h) \/ HandlerStep(h) \/ Unregister(h)
           \/ \E h \in Conns : Closing(h)
           \/ \E d \in Devices : RevokeRow(d)
  BY DEF Next, Handle, Runs, AgentStep, HandlerStep, Closing, ConsoleStep

LEMMA AgentStepKeeps ==
    ASSUME AgentStep
    PROVE  UNCHANGED <<table, conn, sessions, owner, atts, mine, phase, of, closed, grabbed,
                       old, evicted, clients, looking, active, rv, late, ghosts>>
  BY DEF AgentStep, Open, CloseSession, Hold, Updated, AgentLoses, MessageUnchanged,
         hubVars, closeVars, clientVars, rowVars, histVars

LEMMA HandlerStepKeeps ==
    ASSUME NEW h \in Conns, HandlerStep(h)
    PROVE  /\ h \in grabbed
           /\ box' = [box EXCEPT ![h] = Tail(@)] /\ grabbed' = grabbed \ {h}
           /\ UNCHANGED <<table, conn, phase, of, closed, old, evicted, have, cur, held, opens,
                          clients, looking, active, rv, late>>
  BY DEF HandlerStep, Hello, Upsert, Closed, Takes, closeVars, agentVars, clientVars, rowVars

LEMMA ConsoleStepKeeps ==
    ASSUME ConsoleStep
    PROVE  UNCHANGED <<table, conn, sessions, owner, phase, of, closed, box, grabbed, old, evicted,
                       have, cur, held, opens, active, rv, late, ghosts>>
  BY DEF ConsoleStep, AttachFind, Detach, Join, AttachMark, Leave, hubVars, connVars,
         closeVars, agentVars, rowVars, histVars

-------------------------------------------------------------------------------
(* Types and messages *)

LEMMA AgentTypesKept ==
    ASSUME TypeOK, GrabbedServe, AgentStep
    PROVE  TypeOK' /\ GrabbedServe'
<1>0. HubTypes /\ ConnTypes /\ AgentTypes /\ ClientTypes /\ RowTypes /\ HistTypes
  BY TypeParts
<1>1. UNCHANGED <<table, conn, sessions, owner, atts, mine, phase, of, closed, grabbed,
                  old, evicted, clients, looking, active, rv, late, ghosts>>
  BY AgentStepKeeps
<1>2. opens' \in 0..MaxOpens
  <2>1. opens' = opens \/ (opens < MaxOpens /\ opens' = opens + 1)
    BY DEF AgentStep, Open, CloseSession, Hold, Updated, AgentLoses
  <2>2. opens \in 0..MaxOpens
    BY <1>0 DEF AgentTypes
  <2>3. QED
    BY <2>1, <2>2, Numbers
<1>3. have' \in [Devices -> SUBSET Sids] /\ cur' \in [Devices -> Conns \cup {None}]
      /\ held' \in [Devices -> Sids \cup {None}]
  <2>1. /\ have \in [Devices -> SUBSET Sids] /\ cur \in [Devices -> Conns \cup {None}]
        /\ held \in [Devices -> Sids \cup {None}]
    BY <1>0 DEF AgentTypes
  <2>2. ASSUME NEW d \in Devices, NEW s \in Sids, Open(d, s) \/ CloseSession(d, s)
        PROVE  /\ have' \in [Devices -> SUBSET Sids] /\ cur' \in [Devices -> Conns \cup {None}]
               /\ held' \in [Devices -> Sids \cup {None}]
    BY <2>1, <2>2 DEF Open, CloseSession
  <2>3. ASSUME NEW d \in Devices, NEW s \in Sids, Hold(d, s)
        PROVE  /\ have' \in [Devices -> SUBSET Sids] /\ cur' \in [Devices -> Conns \cup {None}]
               /\ held' \in [Devices -> Sids \cup {None}]
    BY <2>1, <2>3 DEF Hold
  <2>4. ASSUME NEW d \in Devices, Updated(d) \/ AgentLoses(d)
        PROVE  /\ have' \in [Devices -> SUBSET Sids] /\ cur' \in [Devices -> Conns \cup {None}]
               /\ held' \in [Devices -> Sids \cup {None}]
    BY <2>1, <2>4 DEF Updated, AgentLoses
  <2>5. QED
    BY <2>2, <2>3, <2>4 DEF AgentStep
<1> DEFINE BoxKept == /\ box' \in [Conns -> Seq(Messages)]
                      /\ \A h \in Conns : box[h] # <<>> => box'[h] # <<>>
<1>4. BoxKept
  <2>1. CASE box' = box
    BY <1>0, <2>1 DEF ConnTypes
  <2>2. ASSUME NEW d \in Devices, NEW s \in Sids, Open(d, s) \/ CloseSession(d, s)
        PROVE  BoxKept
    <3>1. PICK m \in Messages : Room(d) /\ Tell(d, m)
      BY <2>2 DEF Open, CloseSession, Messages
    <3>2. QED
      BY <1>0, <3>1, TellTyped
  <2>3. ASSUME NEW d \in Devices, Updated(d)
        PROVE  BoxKept
    <3>1. held[d] \in Sids
      BY <1>0, <2>3 DEF Updated, AgentTypes
    <3>2. PICK m \in Messages : Room(d) /\ Tell(d, m)
      BY <2>3, <3>1 DEF Updated, Messages
    <3>3. QED
      BY <1>0, <3>2, TellTyped
  <2>4. QED
    BY <2>1, <2>2, <2>3 DEF AgentStep, Hold, AgentLoses
<1>5. ConnTypes' /\ AgentTypes'
  BY <1>0, <1>1, <1>2, <1>3, <1>4 DEF ConnTypes, AgentTypes
<1>6. HubTypes' /\ ClientTypes' /\ RowTypes' /\ HistTypes'
  BY <1>0, <1>1 DEF HubTypes, ClientTypes, RowTypes, HistTypes
<1>7. GrabbedServe'
  BY <1>0, <1>1, <1>4 DEF GrabbedServe, ConnTypes
<1>8. QED
  BY <1>5, <1>6, <1>7 DEF TypeOK, HubTypes, ConnTypes, AgentTypes, ClientTypes, RowTypes,
                          HistTypes

LEMMA ConsoleTypesKept ==
    ASSUME TypeOK, LookersJoined, ConsoleStep
    PROVE  TypeOK' /\ LookersJoined'
<1>0. HubTypes /\ ClientTypes
  BY TypeParts
<1>1. UNCHANGED <<table, conn, sessions, owner, phase, of, closed, box, grabbed, old, evicted,
                  have, cur, held, opens, active, rv, late, ghosts>>
  BY ConsoleStepKeeps
<1>2. ASSUME NEW c \in Clients, NEW s \in Sids, AttachFind(c, s)
      PROVE  clients' = clients /\ ClientTypes' /\ LookersJoined' /\ UNCHANGED <<atts, mine>>
  <2>1. owner[s] \in Devices /\ c \in clients /\ UNCHANGED <<atts, mine, clients>>
        /\ looking' = [looking EXCEPT ![c] = <<s, owner[s]>>]
    BY <1>0, <1>2 DEF HubTypes, AttachFind, hubVars
  <2>2. QED
    BY <1>0, <2>1 DEF ClientTypes, LookersJoined
<1>3. ASSUME NEW c \in Clients, NEW s \in Sids, Detach(c, s)
      PROVE  /\ ClientTypes' /\ LookersJoined'
             /\ atts' \in [Sids -> SUBSET Clients] /\ mine' \in [Clients -> SUBSET Sids]
  BY <1>0, <1>3 DEF HubTypes, ClientTypes, LookersJoined, Detach, clientVars
<1>4. ASSUME NEW c \in Clients, Join(c)
      PROVE  ClientTypes' /\ LookersJoined' /\ UNCHANGED <<atts, mine>>
  BY <1>0, <1>4 DEF ClientTypes, LookersJoined, Join, hubVars
<1>5. ASSUME NEW c \in Clients, AttachMark(c)
      PROVE  /\ ClientTypes' /\ LookersJoined'
             /\ atts' \in [Sids -> SUBSET Clients] /\ mine' \in [Clients -> SUBSET Sids]
  <2>1. looking[c] \in Sids \X Devices /\ looking[c][1] \in Sids
    BY <1>0, <1>5 DEF ClientTypes, AttachMark
  <2>2. clients' = clients /\ looking' = [looking EXCEPT ![c] = None]
    BY <1>5 DEF AttachMark
  <2>3. ClientTypes' /\ LookersJoined'
    BY <1>0, <2>2 DEF ClientTypes, LookersJoined
  <2>4. atts' \in [Sids -> SUBSET Clients] /\ mine' \in [Clients -> SUBSET Sids]
    BY <1>0, <1>5, <2>1 DEF HubTypes, AttachMark
  <2>5. QED
    BY <2>3, <2>4
<1>6. ASSUME NEW c \in Clients, Leave(c)
      PROVE  /\ ClientTypes' /\ LookersJoined'
             /\ atts' \in [Sids -> SUBSET Clients] /\ mine' \in [Clients -> SUBSET Sids]
  BY <1>0, <1>6 DEF HubTypes, ClientTypes, LookersJoined, Leave
<1>7. /\ ClientTypes' /\ LookersJoined'
      /\ atts' \in [Sids -> SUBSET Clients] /\ mine' \in [Clients -> SUBSET Sids]
  BY <1>0, <1>2, <1>3, <1>4, <1>5, <1>6 DEF ConsoleStep, HubTypes
<1>8. QED
  BY <1>1, <1>7 DEF TypeOK, ClientTypes

LEMMA HandlerTypesKept ==
    ASSUME TypeOK, GrabbedServe, NEW h \in Conns, HandlerStep(h)
    PROVE  TypeOK' /\ GrabbedServe'
<1> DEFINE d == of[h]
<1>0. HubTypes /\ ConnTypes /\ AgentTypes /\ ClientTypes /\ RowTypes /\ HistTypes
  BY TypeParts
<1>1. /\ h \in grabbed
      /\ box' = [box EXCEPT ![h] = Tail(@)] /\ grabbed' = grabbed \ {h}
      /\ UNCHANGED <<table, conn, phase, of, closed, old, evicted, have, cur, held, opens,
                     clients, looking, active, rv, late>>
  BY HandlerStepKeeps
<1>2. /\ d \in Devices /\ Tail(box[h]) \in Seq(Messages)
      /\ Head(box[h]).t = "hello" => Head(box[h]).sids \subseteq Sids
      /\ Head(box[h]).t \in {"upsert", "closed"} => Head(box[h]).sid \in Sids
  BY <1>0, <1>1, TakenTyped
<1>3. ConnTypes' /\ GrabbedServe'
  <2>1. box' \in [Conns -> Seq(Messages)] /\ \A g \in Conns \ {h} : box'[g] = box[g]
    BY <1>0, <1>1, <1>2 DEF ConnTypes
  <2>2. QED
    BY <1>0, <1>1, <2>1 DEF ConnTypes, GrabbedServe
<1>4. AgentTypes' /\ ClientTypes' /\ RowTypes'
  BY <1>0, <1>1 DEF AgentTypes, ClientTypes, RowTypes
<1>5. ASSUME NEW ss \in SUBSET Sids, Forgotten(ss)
      PROVE  atts' \in [Sids -> SUBSET Clients] /\ mine' \in [Clients -> SUBSET Sids]
  BY <1>0, <1>5 DEF Forgotten, HubTypes
<1>6. HubTypes' /\ HistTypes'
  <2>1. CASE Hello(h)
    <3> DEFINE fresh == {s \in Head(box[h]).sids : Registrable(s, d)}
               gone == sessions[d] \ fresh
    <3>1. fresh \subseteq Sids /\ gone \subseteq Sids /\ Head(box[h]).sids \subseteq Sids
      BY <1>0, <1>2, <2>1 DEF Hello, Takes, HubTypes
    <3>2. CASE Serves(h)
      <4>1. /\ sessions' = [sessions EXCEPT ![d] = fresh]
            /\ owner' = [s \in Sids |-> IF s \in fresh THEN d
                                        ELSE IF s \in gone THEN None ELSE owner[s]]
            /\ Forgotten(gone)
            /\ ghosts' = (ghosts \ ({d} \X Sids)) \cup ({d} \X (Head(box[h]).sids \ fresh))
        BY <2>1, <3>2 DEF Hello
      <4>2. sessions' \in [Devices -> SUBSET Sids] /\ owner' \in [Sids -> Devices \cup {None}]
        BY <1>0, <1>2, <3>1, <4>1 DEF HubTypes
      <4>3. ghosts' \subseteq Devices \X Sids
        BY <1>0, <1>2, <3>1, <4>1 DEF HistTypes
      <4>4. QED
        BY <1>0, <1>1, <1>5, <3>1, <4>1, <4>2, <4>3 DEF HubTypes, HistTypes
    <3>3. CASE ~Serves(h)
      BY <1>0, <1>1, <2>1, <3>3 DEF Hello, HubTypes, HistTypes
    <3>4. QED
      BY <3>2, <3>3
  <2>2. CASE Upsert(h) \/ Closed(h)
    <3> DEFINE s == Head(box[h]).sid
    <3>1. s \in Sids
      BY <1>2, <2>2 DEF Upsert, Closed, Takes
    <3>2. ghosts' \subseteq Devices \X Sids
      BY <1>0, <1>2, <2>2, <3>1 DEF Upsert, Closed, Heard, HistTypes
    <3>3. HubTypes'
      <4>1. CASE Upsert(h)
        BY <1>0, <1>1, <1>2, <3>1, <4>1 DEF Upsert, HubTypes
      <4>2. CASE Closed(h)
        <5>1. sessions' \in [Devices -> SUBSET Sids]
          BY <1>0, <1>2, <3>1, <4>2 DEF Closed, HubTypes
        <5>2. CASE owner[s] = d
          <6>1. owner' = [owner EXCEPT ![s] = None] /\ Forgotten({s})
            BY <4>2, <5>2 DEF Closed
          <6>2. QED
            BY <1>0, <1>1, <1>5, <3>1, <5>1, <6>1 DEF HubTypes
        <5>3. CASE owner[s] # d
          BY <1>0, <1>1, <4>2, <5>1, <5>3 DEF Closed, HubTypes
        <5>4. QED
          BY <5>2, <5>3
      <4>3. QED
        BY <2>2, <4>1, <4>2
    <3>4. QED
      BY <1>0, <1>1, <3>2, <3>3 DEF HistTypes
  <2>3. QED
    BY <2>1, <2>2 DEF HandlerStep
<1>7. QED
  BY <1>3, <1>4, <1>6
     DEF TypeOK, HubTypes, ConnTypes, AgentTypes, ClientTypes, RowTypes, HistTypes

LEMMA ConnectionTypesKept ==
    ASSUME TypeOK, GrabbedServe, NEW h \in Conns,
           Register(h) \/ Read(h) \/ Unregister(h) \/ Closing(h)
               \/ \E d \in Devices : Dial(h, d)
    PROVE  TypeOK' /\ GrabbedServe'
<1>0. HubTypes /\ ConnTypes /\ AgentTypes /\ ClientTypes /\ RowTypes /\ HistTypes
  BY TypeParts
<1>1. CASE Register(h)
  <2>1. of[h] \in Devices /\ h \notin grabbed
    BY <1>0, <1>1 DEF Register, ConnTypes, GrabbedServe
  <2>2. conn[of[h]] \in Conns \cup {None}
    BY <1>0, <2>1 DEF HubTypes
  <2>3. HubTypes' /\ HistTypes'
    BY <1>0, <1>1, <2>1 DEF Register, HubTypes, HistTypes
  <2>4. ConnTypes' /\ GrabbedServe'
    BY <1>0, <1>1, <2>1, <2>2 DEF Register, ConnTypes, GrabbedServe
  <2>5. QED
    BY <1>0, <1>1, <2>3, <2>4
       DEF Register, TypeOK, HubTypes, ConnTypes, AgentTypes, ClientTypes, RowTypes, HistTypes,
           agentVars, clientVars, rowVars
<1>2. CASE Read(h)
  <2>1. ConnTypes' /\ GrabbedServe'
    BY <1>0, <1>2 DEF Read, closeVars, ConnTypes, GrabbedServe
  <2>2. QED
    BY <1>0, <1>2, <2>1
       DEF Read, TypeOK, HubTypes, ConnTypes, AgentTypes, ClientTypes, RowTypes, HistTypes,
           hubVars, agentVars, clientVars, rowVars, histVars
<1>3. CASE Unregister(h)
  <2>1. ConnTypes' /\ GrabbedServe'
    <3>1. <<>> \in Seq(Messages)
      OBVIOUS
    <3>2. QED
      BY <1>0, <1>3, <3>1 DEF Unregister, closeVars, ConnTypes, GrabbedServe
  <2>2. HubTypes'
    BY <1>0, <1>3 DEF Unregister, HubTypes
  <2>3. QED
    BY <1>0, <1>3, <2>1, <2>2
       DEF Unregister, TypeOK, HubTypes, ConnTypes, AgentTypes, ClientTypes, RowTypes, HistTypes,
           agentVars, clientVars, rowVars, histVars
<1>4. CASE Closing(h)
  <2>1. old[h] \in Conns \cup {None}
    BY <1>0 DEF ConnTypes
  <2>2. ConnTypes' /\ GrabbedServe'
    BY <1>0, <1>4, <2>1 DEF Closing, CloseOld, CloseEvicted, Sweep, closeVars, ConnTypes, GrabbedServe
  <2>3. UNCHANGED <<hubVars, agentVars, clientVars, rowVars, histVars>>
    BY <1>4 DEF Closing, CloseOld, CloseEvicted, Sweep
  <2>4. QED
    BY <1>0, <2>2, <2>3
       DEF TypeOK, HubTypes, ConnTypes, AgentTypes, ClientTypes, RowTypes, HistTypes,
           hubVars, agentVars, clientVars, rowVars, histVars
<1>5. ASSUME NEW d \in Devices, Dial(h, d) PROVE TypeOK' /\ GrabbedServe'
  <2> DEFINE B == <<[t |-> "hello", sids |-> have[d]]>>
  <2>1. B \in Seq(Messages)
    <3>1. [t |-> "hello", sids |-> have[d]] \in Messages
      BY <1>0 DEF AgentTypes, Messages
    <3>2. QED
      BY <3>1
  <2>2. h \notin grabbed /\ d # None
    BY <1>0, <1>5, NoneAssumption DEF Dial, GrabbedServe
  <2>3. ConnTypes' /\ GrabbedServe'
    <3>1. /\ phase' = [phase EXCEPT ![h] = "authed"] /\ of' = [of EXCEPT ![h] = d]
          /\ box' = [box EXCEPT ![h] = B] /\ UNCHANGED <<closed, grabbed, old, evicted>>
      BY <1>5 DEF Dial, closeVars
    <3>2. QED
      BY <1>0, <2>1, <2>2, <3>1 DEF ConnTypes, GrabbedServe
  <2>4. AgentTypes'
    BY <1>0, <1>5 DEF Dial, AgentTypes
  <2>5. QED
    BY <1>0, <1>5, <2>3, <2>4
       DEF Dial, TypeOK, HubTypes, ConnTypes, AgentTypes, ClientTypes, RowTypes, HistTypes,
           hubVars, clientVars, rowVars, histVars
<1>6. QED
  BY <1>1, <1>2, <1>3, <1>4, <1>5

LEMMA RevocationTypesKept ==
    ASSUME TypeOK, GrabbedServe, RevokeTable \/ \E d \in Devices : RevokeRow(d)
    PROVE  TypeOK' /\ GrabbedServe'
<1>0. HubTypes /\ ConnTypes /\ AgentTypes /\ ClientTypes /\ RowTypes /\ HistTypes
  BY TypeParts
<1>1. ASSUME NEW d \in Devices, RevokeRow(d) PROVE TypeOK' /\ GrabbedServe'
  BY <1>0, <1>1
     DEF RevokeRow, TypeOK, GrabbedServe, HubTypes, ConnTypes, AgentTypes, ClientTypes, RowTypes,
         HistTypes, hubVars, connVars, closeVars, agentVars, clientVars, histVars
<1>2. CASE RevokeTable
  <2>1. rv \in Devices /\ sessions[rv] \subseteq Sids /\ conn[rv] \in Conns \cup {None}
    BY <1>0, <1>2 DEF RevokeTable, RowTypes, HubTypes
  <2>2. HubTypes'
    BY <1>0, <1>2, <2>1 DEF RevokeTable, Forgotten, HubTypes
  <2>3. ConnTypes' /\ GrabbedServe'
    BY <1>0, <1>2, <2>1 DEF RevokeTable, ConnTypes, GrabbedServe
  <2>4. QED
    BY <1>0, <1>2, <2>2, <2>3
       DEF RevokeTable, TypeOK, HubTypes, ConnTypes, AgentTypes, ClientTypes, RowTypes, HistTypes,
           agentVars, clientVars, histVars
<1>3. QED
  BY <1>1, <1>2

-------------------------------------------------------------------------------
(* One lemma per invariant: what a handler, a registration, an unregistration, *)
(* a revocation or a console can disturb.                                     *)

LEMMA HandlerKeepsTables ==
    ASSUME TypeOK, GrabbedServe, SidOwned, AttachmentsAgree, NEW h \in Conns, HandlerStep(h)
    PROVE  SidOwned' /\ AttachmentsAgree'
<1> DEFINE d == of[h]
<1>0. HubTypes /\ ConnTypes
  BY TypeParts
<1>1. h \in grabbed /\ UNCHANGED <<table, clients>>
  BY HandlerStepKeeps
<1>2. /\ d \in Devices /\ d # None
      /\ Head(box[h]).t = "hello" => Head(box[h]).sids \subseteq Sids
      /\ Head(box[h]).t \in {"upsert", "closed"} => Head(box[h]).sid \in Sids
  BY <1>0, <1>1, TakenTyped, NoneAssumption
<1>3. CASE Hello(h) /\ Serves(h)
  <2> DEFINE fresh == {s \in Head(box[h]).sids : Registrable(s, d)}
             gone == sessions[d] \ fresh
  <2>1. /\ sessions' = [sessions EXCEPT ![d] = fresh]
        /\ owner' = [s \in Sids |-> IF s \in fresh THEN d
                                    ELSE IF s \in gone THEN None ELSE owner[s]]
        /\ Forgotten(gone)
    BY <1>3 DEF Hello
  <2>2. d \in table /\ \A s \in fresh : owner[s] \in {None, d}
    BY <1>3 DEF Serves, Registrable
  <2>3. sessions'[d] = fresh /\ \A e \in Devices \ {d} : sessions'[e] = sessions[e]
    BY <1>0, <1>2, <2>1 DEF HubTypes
  <2>4. \A s \in Sids : s \in gone <=> owner[s] = d /\ s \notin fresh
    BY <1>2 DEF SidOwned
  <2>5. \A s \in Sids : owner'[s] = IF s \in fresh THEN d
                                    ELSE IF owner[s] = d THEN None ELSE owner[s]
    BY <2>1, <2>4
  <2>6. SidOwned'
    <3>1. ASSUME NEW s \in Sids, NEW e \in Devices
          PROVE  (owner'[s] = e <=> s \in sessions'[e]) /\ (owner'[s] = e => e \in table)
      <4>1. e # None /\ (owner[s] = e <=> s \in sessions[e]) /\ (owner[s] = e => e \in table)
        BY NoneAssumption DEF SidOwned
      <4>2. CASE e = d
        BY <1>2, <2>2, <2>3, <2>5, <4>1, <4>2
      <4>3. CASE e # d
        BY <1>2, <2>2, <2>3, <2>5, <4>1, <4>3
      <4>4. QED
        BY <4>2, <4>3
    <3>2. QED
      BY <1>1, <3>1 DEF SidOwned
  <2>7. AttachmentsAgree'
    <3>1. \A s \in Sids : atts'[s] = IF s \in gone THEN {} ELSE atts[s]
      BY <2>1 DEF Forgotten
    <3>2. \A c \in Clients : mine'[c] = mine[c] \ gone
      BY <2>1 DEF Forgotten
    <3>3. \A s \in Sids : s \notin gone => owner'[s] # None \/ owner[s] = None
      BY <1>2, <2>4, <2>5
    <3>4. QED
      BY <1>1, <3>1, <3>2, <3>3 DEF AttachmentsAgree
  <2>8. QED
    BY <2>6, <2>7
<1>4. CASE Hello(h) /\ ~Serves(h)
  BY <1>1, <1>4 DEF Hello, SidOwned, AttachmentsAgree
<1>5. CASE Upsert(h)
  <2> DEFINE s == Head(box[h]).sid
  <2>1. s \in Sids
    BY <1>2, <1>5 DEF Upsert, Takes
  <2>2. CASE d \in table /\ Registrable(s, d)
    <3>1. /\ sessions' = [sessions EXCEPT ![d] = @ \cup {s}]
          /\ owner' = [owner EXCEPT ![s] = d] /\ UNCHANGED <<atts, mine>>
      BY <1>5, <2>2 DEF Upsert
    <3>2. owner[s] \in {None, d}
      BY <2>2 DEF Registrable
    <3>3. SidOwned'
      <4>1. ASSUME NEW u \in Sids, NEW e \in Devices
            PROVE  (owner'[u] = e <=> u \in sessions'[e]) /\ (owner'[u] = e => e \in table)
        <5>1. e # None /\ (owner[u] = e <=> u \in sessions[e]) /\ (owner[u] = e => e \in table)
          BY NoneAssumption DEF SidOwned
        <5>2. CASE u = s
          BY <1>0, <1>2, <2>2, <3>1, <3>2, <5>1, <5>2 DEF HubTypes
        <5>3. CASE u # s
          BY <1>0, <1>2, <3>1, <5>1, <5>3 DEF HubTypes
        <5>4. QED
          BY <5>2, <5>3
      <4>2. QED
        BY <1>1, <4>1 DEF SidOwned
    <3>4. AttachmentsAgree'
      <4>1. \A u \in Sids : owner[u] # None => owner'[u] # None
        BY <1>0, <1>2, <2>1, <3>1 DEF HubTypes
      <4>2. QED
        BY <1>1, <3>1, <4>1 DEF AttachmentsAgree
    <3>5. QED
      BY <3>3, <3>4
  <2>3. CASE ~(d \in table /\ Registrable(s, d))
    BY <1>1, <1>5, <2>3 DEF Upsert, SidOwned, AttachmentsAgree
  <2>4. QED
    BY <2>2, <2>3
<1>6. CASE Closed(h)
  <2> DEFINE s == Head(box[h]).sid
  <2>1. s \in Sids
    BY <1>2, <1>6 DEF Closed, Takes
  <2>2. CASE owner[s] = d
    <3>1. d \in table /\ s \in sessions[d]
      BY <1>2, <2>1, <2>2 DEF SidOwned
    <3>2. /\ sessions' = [sessions EXCEPT ![d] = @ \ {s}]
          /\ owner' = [owner EXCEPT ![s] = None] /\ Forgotten({s})
      BY <1>6, <2>2, <3>1 DEF Closed
    <3>3. SidOwned'
      <4>1. ASSUME NEW u \in Sids, NEW e \in Devices
            PROVE  (owner'[u] = e <=> u \in sessions'[e]) /\ (owner'[u] = e => e \in table)
        <5>1. e # None /\ (owner[u] = e <=> u \in sessions[e]) /\ (owner[u] = e => e \in table)
          BY NoneAssumption DEF SidOwned
        <5>2. CASE u = s
          BY <1>0, <1>2, <2>2, <3>2, <5>1, <5>2 DEF HubTypes
        <5>3. CASE u # s
          BY <1>0, <1>2, <3>2, <5>1, <5>3 DEF HubTypes
        <5>4. QED
          BY <5>2, <5>3
      <4>2. QED
        BY <1>1, <4>1 DEF SidOwned
    <3>4. AttachmentsAgree'
      <4>1. \A u \in Sids : atts'[u] = IF u = s THEN {} ELSE atts[u]
        BY <3>2 DEF Forgotten
      <4>2. \A c \in Clients : mine'[c] = mine[c] \ {s}
        BY <3>2 DEF Forgotten
      <4>3. \A u \in Sids \ {s} : owner'[u] = owner[u]
        BY <1>0, <3>2 DEF HubTypes
      <4>4. QED
        BY <1>1, <4>1, <4>2, <4>3 DEF AttachmentsAgree
    <3>5. QED
      BY <3>3, <3>4
  <2>3. CASE owner[s] # d
    <3>1. s \notin sessions[d]
      BY <1>2, <2>1, <2>3 DEF SidOwned
    <3>2. sessions' = sessions
      BY <1>0, <1>2, <1>6, <3>1 DEF Closed, HubTypes
    <3>3. QED
      BY <1>1, <1>6, <2>3, <3>2 DEF Closed, SidOwned, AttachmentsAgree
  <2>4. QED
    BY <2>2, <2>3
<1>7. QED
  BY <1>3, <1>4, <1>5, <1>6 DEF HandlerStep

LEMMA RevokeKeepsTables ==
    ASSUME TypeOK, SidOwned, AttachmentsAgree, RevokeTable
    PROVE  SidOwned' /\ AttachmentsAgree'
<1> DEFINE d == rv
<1>0. HubTypes /\ d \in Devices
  BY TypeParts DEF RowTypes, RevokeTable
<1>1. /\ sessions' = [sessions EXCEPT ![d] = {}]
      /\ owner' = [s \in Sids |-> IF s \in sessions[d] THEN None ELSE owner[s]]
      /\ Forgotten(sessions[d])
      /\ table' = table \ {d} /\ clients' = clients
  BY DEF RevokeTable, clientVars
<1>2. SidOwned'
  <2>1. ASSUME NEW s \in Sids, NEW e \in Devices
        PROVE  (owner'[s] = e <=> s \in sessions'[e]) /\ (owner'[s] = e => e \in table')
    <3>1. e # None /\ (owner[s] = e <=> s \in sessions[e]) /\ (owner[s] = e => e \in table)
      BY NoneAssumption DEF SidOwned
    <3>2. owner[s] = d <=> s \in sessions[d]
      BY <1>0 DEF SidOwned
    <3>3. CASE e = d
      BY <1>0, <1>1, <3>1, <3>2, <3>3 DEF HubTypes
    <3>4. CASE e # d
      BY <1>0, <1>1, <3>1, <3>2, <3>4 DEF HubTypes
    <3>5. QED
      BY <3>3, <3>4
  <2>2. QED
    BY <2>1 DEF SidOwned
<1>3. AttachmentsAgree'
  <2>1. \A s \in Sids : atts'[s] = IF s \in sessions[d] THEN {} ELSE atts[s]
    BY <1>1 DEF Forgotten
  <2>2. \A c \in Clients : mine'[c] = mine[c] \ sessions[d]
    BY <1>1 DEF Forgotten
  <2>3. QED
    BY <1>1, <2>1, <2>2 DEF AttachmentsAgree
<1>4. QED
  BY <1>2, <1>3

LEMMA ConsolesKeepAttachments ==
    ASSUME TypeOK, LookersJoined, AttachmentsAgree, ConsoleStep
    PROVE  AttachmentsAgree'
<1>0. HubTypes /\ ClientTypes
  BY TypeParts
<1>1. owner' = owner
  BY ConsoleStepKeeps
<1>2. ASSUME NEW c \in Clients, NEW s \in Sids, AttachFind(c, s) PROVE AttachmentsAgree'
  BY <1>2 DEF AttachFind, hubVars, AttachmentsAgree
<1>3. ASSUME NEW c \in Clients, NEW s \in Sids, Detach(c, s) PROVE AttachmentsAgree'
  BY <1>0, <1>1, <1>3 DEF Detach, clientVars, AttachmentsAgree, HubTypes
<1>4. ASSUME NEW c \in Clients, Join(c) PROVE AttachmentsAgree'
  BY <1>4 DEF Join, hubVars, AttachmentsAgree
<1>5. ASSUME NEW c \in Clients, AttachMark(c) PROVE AttachmentsAgree'
  <2> DEFINE s == looking[c][1]
  <2>1. s \in Sids /\ looking[c][2] \in Devices /\ c \in clients /\ clients' = clients
    BY <1>0, <1>5 DEF ClientTypes, AttachMark, LookersJoined
  <2>2. CASE owner[s] = looking[c][2]
    <3>1. owner[s] # None
      BY <2>1, <2>2, NoneAssumption
    <3>2. atts' = [atts EXCEPT ![s] = @ \cup {c}] /\ mine' = [mine EXCEPT ![c] = @ \cup {s}]
      BY <1>5, <2>2 DEF AttachMark
    <3>3. ASSUME NEW e \in Clients, NEW u \in Sids
          PROVE  /\ e \in atts'[u] <=> u \in mine'[e]
                 /\ e \in atts'[u] => e \in clients /\ owner[u] # None
      <4>1. /\ e \in atts'[u] <=> e \in atts[u] \/ (e = c /\ u = s)
            /\ u \in mine'[e] <=> u \in mine[e] \/ (e = c /\ u = s)
        BY <1>0, <2>1, <3>2 DEF HubTypes
      <4>2. QED
        BY <2>1, <3>1, <4>1 DEF AttachmentsAgree
    <3>4. QED
      BY <1>1, <2>1, <3>3 DEF AttachmentsAgree
  <2>3. CASE owner[s] # looking[c][2]
    BY <1>1, <1>5, <2>1, <2>3 DEF AttachMark, AttachmentsAgree
  <2>4. QED
    BY <2>2, <2>3
<1>6. ASSUME NEW c \in Clients, Leave(c) PROVE AttachmentsAgree'
  <2>1. ASSUME NEW e \in Clients, NEW u \in Sids
        PROVE  /\ e \in atts'[u] <=> u \in mine'[e]
               /\ e \in atts'[u] => e \in clients' /\ owner[u] # None
    <3>1. /\ e \in atts'[u] <=> e \in atts[u] /\ ~(e = c /\ u \in mine[c])
          /\ u \in mine'[e] <=> u \in mine[e] /\ e # c
          /\ clients' = clients \ {c}
      BY <1>0, <1>6 DEF Leave, HubTypes
    <3>2. QED
      BY <3>1 DEF AttachmentsAgree
  <2>2. QED
    BY <1>1, <2>1 DEF AttachmentsAgree
<1>7. QED
  BY <1>2, <1>3, <1>4, <1>5, <1>6 DEF ConsoleStep

LEMMA ReplacersKept ==
    ASSUME TypeOK, ReplacersServe, NEW h \in Conns,
           Register(h) \/ Read(h) \/ Unregister(h) \/ Closing(h) \/ \E d \in Devices : Dial(h, d)
    PROVE  ReplacersServe'
<1>0. ConnTypes
  BY TypeParts
<1>1. CASE Register(h)
  BY <1>0, <1>1 DEF Register, ConnTypes, ReplacersServe
<1>2. CASE Read(h) \/ Closing(h)
  <2>1. phase' = phase /\ \A g \in Conns : old'[g] # None => old[g] # None
    BY <1>0, <1>2 DEF Read, Closing, CloseOld, CloseEvicted, Sweep, closeVars, ConnTypes
  <2>2. QED
    BY <2>1 DEF ReplacersServe
<1>3. CASE Unregister(h)
  BY <1>0, <1>3 DEF Unregister, closeVars, ConnTypes, ReplacersServe
<1>4. ASSUME NEW d \in Devices, Dial(h, d) PROVE ReplacersServe'
  BY <1>0, <1>4 DEF Dial, closeVars, ConnTypes, ReplacersServe
<1>5. QED
  BY <1>1, <1>2, <1>3, <1>4

(* Every step that takes a connection's place leaves it to somebody to close.  *)
Watched(g) == Serves(g) \/ g \in evicted \/ \E k \in Conns : old[k] = g
LEMMA ServedIsWatched ==
    ServedIsRegistered <=>
        \A g \in Conns : phase[g] = "serving" /\ g \notin closed => Watched(g)
  BY DEF ServedIsRegistered, Watched

LEMMA ServedKept ==
    ASSUME TypeOK, ReplacersServe, ServedIsRegistered,
           RevokeTable \/ \E h \in Conns : Register(h) \/ Unregister(h) \/ Closing(h)
    PROVE  ServedIsRegistered'
<1>0. HubTypes /\ ConnTypes /\ RowTypes
  BY TypeParts
<1>1. \A g \in Conns : phase[g] = "serving" /\ g \notin closed
                         => of[g] \in Devices /\ g # None /\ Watched(g)
  BY <1>0, ServedIsWatched, NoneAssumption DEF ConnTypes
<1>2. SUFFICES ASSUME NEW g \in Conns, phase'[g] = "serving", g \notin closed' PROVE Watched(g)'
  BY DEF ServedIsRegistered, Watched
<1>3. ASSUME NEW h \in Conns, Register(h) PROVE Watched(g)'
  <2> DEFINE d == of[h]
  <2>1. /\ phase[h] = "authed" /\ phase' = [phase EXCEPT ![h] = "serving"] /\ of' = of
        /\ table' = table \cup {d} /\ conn' = [conn EXCEPT ![d] = h]
        /\ old' = [old EXCEPT ![h] = conn[d]] /\ UNCHANGED <<closed, evicted>>
    BY <1>3 DEF Register
  <2>2. d \in Devices /\ old[h] = None
    BY <1>0, <2>1 DEF ConnTypes, ReplacersServe
  <2>3. CASE g = h
    BY <1>0, <2>1, <2>2, <2>3 DEF HubTypes, Watched, Serves
  <2>4. CASE g # h
    <3>1. g # None /\ of[g] \in Devices /\ Watched(g)
      BY <1>0, <1>1, <1>2, <2>1, <2>4 DEF ConnTypes
    <3>2. CASE of[g] = d /\ conn[d] = g
      <4>1. old'[h] = g
        BY <1>0, <2>1, <3>2 DEF ConnTypes
      <4>2. QED
        BY <4>1 DEF Watched
    <3>3. CASE Serves(g) /\ ~(of[g] = d /\ conn[d] = g)
      BY <1>0, <2>1, <2>2, <3>1, <3>3 DEF HubTypes, Watched, Serves
    <3>4. CASE g \in evicted
      BY <2>1, <3>4 DEF Watched
    <3>5. ASSUME NEW k \in Conns, old[k] = g PROVE Watched(g)'
      <4>1. old'[k] = g
        BY <1>0, <2>1, <2>2, <3>1, <3>5 DEF ConnTypes
      <4>2. QED
        BY <4>1 DEF Watched
    <3>6. QED
      BY <3>1, <3>2, <3>3, <3>4, <3>5 DEF Watched
  <2>5. QED
    BY <2>3, <2>4
<1>4. ASSUME NEW h \in Conns, Unregister(h) PROVE Watched(g)'
  <2> DEFINE d == of[h]
  <2>1. /\ phase' = [phase EXCEPT ![h] = "over"] /\ of' = of /\ table' = table
        /\ conn' = (IF Serves(h) THEN [conn EXCEPT ![d] = None] ELSE conn)
        /\ closed' = closed \cup {h} /\ UNCHANGED <<old, evicted>>
    BY <1>4 DEF Unregister, closeVars
  <2>2. g # h /\ of[g] \in Devices /\ g # None /\ Watched(g)
    BY <1>0, <1>1, <1>2, <2>1 DEF ConnTypes
  <2>3. Serves(g) => Serves(g)'
    <3>1. Serves(g) /\ Serves(h) => of[g] # d
      BY <2>2 DEF Serves
    <3>2. QED
      BY <1>0, <2>1, <2>2, <3>1 DEF HubTypes, Serves
  <2>4. QED
    BY <2>1, <2>2, <2>3 DEF Watched
<1>5. ASSUME NEW h \in Conns, Closing(h) PROVE Watched(g)'
  <2>1. /\ UNCHANGED <<table, conn, of, phase>> /\ closed \subseteq closed'
        /\ \A k \in Conns : old[k] # None /\ old'[k] # old[k] => old[k] \in closed'
        /\ \A k \in evicted : k \notin evicted' => k \in closed'
    <3>1. CASE CloseOld(h)
      BY <1>0, <3>1 DEF CloseOld, hubVars, ConnTypes
    <3>2. CASE CloseEvicted(h) \/ Sweep(h)
      BY <3>2 DEF CloseEvicted, Sweep, closeVars, hubVars
    <3>3. QED
      BY <1>5, <3>1, <3>2 DEF Closing
  <2>2. g # None /\ Watched(g)
    BY <1>1, <1>2, <2>1
  <2>3. QED
    BY <1>2, <2>1, <2>2 DEF Watched, Serves
<1>6. CASE RevokeTable
  <2> DEFINE d == rv
  <2>1. /\ d \in Devices /\ table' = table \ {d} /\ conn' = [conn EXCEPT ![d] = None]
        /\ evicted' = evicted \cup ({conn[d]} \ {None}) /\ UNCHANGED <<phase, of, closed, old>>
    BY <1>0, <1>6 DEF RevokeTable, RowTypes
  <2>2. of[g] \in Devices /\ g # None /\ Watched(g)
    BY <1>1, <1>2, <2>1
  <2>3. Serves(g) => Serves(g)' \/ g \in evicted'
    <3>1. CASE of[g] = d
      BY <2>1, <2>2, <3>1 DEF Serves
    <3>2. CASE of[g] # d
      BY <1>0, <2>1, <2>2, <3>2 DEF HubTypes, Serves
    <3>3. QED
      BY <3>1, <3>2
  <2>4. QED
    BY <2>1, <2>2, <2>3 DEF Watched
<1>7. QED
  BY <1>3, <1>4, <1>5, <1>6

LEMMA RevokedKept ==
    ASSUME TypeOK, RevokedIsGone,
           RevokeTable \/ (\E d \in Devices : RevokeRow(d)) \/ (\E h \in Conns : Register(h))
    PROVE  RevokedIsGone'
<1>1. CASE RevokeTable
  BY <1>1 DEF RevokeTable, RevokedIsGone, histVars
<1>2. ASSUME NEW d \in Devices, RevokeRow(d) PROVE RevokedIsGone'
  <2>1. /\ active' = active \ {d} /\ rv' = d /\ rv = None
        /\ UNCHANGED <<table, late>>
    BY <1>2 DEF RevokeRow, hubVars, histVars
  <2>2. QED
    BY <2>1, NoneAssumption DEF RevokedIsGone
<1>3. ASSUME NEW h \in Conns, Register(h) PROVE RevokedIsGone'
  BY <1>3 DEF Register, rowVars, RevokedIsGone
<1>4. QED
  BY <1>1, <1>2, <1>3

-------------------------------------------------------------------------------
(* The theorems. *)

LEMMA InitIInv == Init => IInv
<1> SUFFICES ASSUME Init PROVE IInv
  OBVIOUS
<1>1. TypeOK
  <2>1. <<>> \in Seq(Messages)
    OBVIOUS
  <2>2. QED
    BY <2>1, Numbers DEF Init, TypeOK
<1>2. GrabbedServe /\ ReplacersServe /\ LookersJoined /\ RevokedIsGone /\ ServedIsRegistered
  BY DEF Init, GrabbedServe, ReplacersServe, LookersJoined, RevokedIsGone, ServedIsRegistered
<1>3. SidOwned /\ AttachmentsAgree
  BY NoneAssumption DEF Init, SidOwned, AttachmentsAgree
<1>4. QED
  BY <1>1, <1>2, <1>3 DEF IInv

LEMMA NextIInv == IInv /\ [Next]_vars => IInv'
<1> SUFFICES ASSUME IInv, [Next]_vars PROVE IInv'
  OBVIOUS
<1>0. /\ TypeOK /\ GrabbedServe /\ ReplacersServe /\ LookersJoined
      /\ SidOwned /\ AttachmentsAgree /\ ServedIsRegistered /\ RevokedIsGone
  BY DEF IInv
<1>1. CASE AgentStep
  <2>1. TypeOK' /\ GrabbedServe'
    BY <1>0, <1>1, AgentTypesKept
  <2>2. QED
    BY <1>0, <1>1, <2>1, AgentStepKeeps
       DEF IInv, ReplacersServe, LookersJoined, SidOwned, AttachmentsAgree, ServedIsRegistered,
           Serves, RevokedIsGone
<1>2. CASE ConsoleStep
  <2>1. TypeOK' /\ LookersJoined' /\ AttachmentsAgree'
    BY <1>0, <1>2, ConsoleTypesKept, ConsolesKeepAttachments
  <2>2. QED
    BY <1>0, <1>2, <2>1, ConsoleStepKeeps
       DEF IInv, GrabbedServe, ReplacersServe, SidOwned, ServedIsRegistered, Serves,
           RevokedIsGone
<1>3. ASSUME NEW h \in Conns, HandlerStep(h) PROVE IInv'
  <2>1. TypeOK' /\ GrabbedServe' /\ SidOwned' /\ AttachmentsAgree'
    BY <1>0, <1>3, HandlerTypesKept, HandlerKeepsTables
  <2>2. QED
    BY <1>0, <1>3, <2>1, HandlerStepKeeps
       DEF IInv, ReplacersServe, LookersJoined, ServedIsRegistered, Serves, RevokedIsGone
<1>4. CASE RevokeTable
  <2>1. TypeOK' /\ GrabbedServe' /\ SidOwned' /\ AttachmentsAgree'
        /\ ServedIsRegistered' /\ RevokedIsGone'
    BY <1>0, <1>4, RevocationTypesKept, RevokeKeepsTables, ServedKept, RevokedKept
  <2>2. QED
    BY <1>0, <1>4, <2>1 DEF IInv, RevokeTable, clientVars, ReplacersServe, LookersJoined
<1>5. ASSUME NEW d \in Devices, RevokeRow(d) PROVE IInv'
  <2>1. TypeOK' /\ GrabbedServe' /\ RevokedIsGone'
    BY <1>0, <1>5, RevocationTypesKept, RevokedKept
  <2>2. QED
    BY <1>0, <1>5, <2>1
       DEF IInv, RevokeRow, hubVars, connVars, closeVars, clientVars, ReplacersServe,
           LookersJoined, SidOwned, AttachmentsAgree, ServedIsRegistered, Serves
<1>6. ASSUME NEW h \in Conns, Register(h) PROVE IInv'
  <2>1. TypeOK' /\ GrabbedServe' /\ ReplacersServe' /\ ServedIsRegistered' /\ RevokedIsGone'
    BY <1>0, <1>6, ConnectionTypesKept, ReplacersKept, ServedKept, RevokedKept
  <2>2. UNCHANGED <<sessions, owner, atts, mine, clients, looking>> /\ table \subseteq table'
    BY <1>6 DEF Register, clientVars
  <2>3. QED
    BY <1>0, <2>1, <2>2 DEF IInv, LookersJoined, SidOwned, AttachmentsAgree
<1>7. ASSUME NEW h \in Conns, Unregister(h) PROVE IInv'
  <2>1. TypeOK' /\ GrabbedServe' /\ ReplacersServe' /\ ServedIsRegistered'
    BY <1>0, <1>7, ConnectionTypesKept, ReplacersKept, ServedKept
  <2>2. UNCHANGED <<table, sessions, owner, atts, mine, clients, looking, active, rv, late>>
    BY <1>7 DEF Unregister, clientVars, rowVars, histVars
  <2>3. QED
    BY <1>0, <2>1, <2>2 DEF IInv, LookersJoined, SidOwned, AttachmentsAgree, RevokedIsGone
<1>8. ASSUME NEW h \in Conns, Read(h) \/ Closing(h) \/ \E d \in Devices : Dial(h, d)
      PROVE  IInv'
  <2>1. TypeOK' /\ GrabbedServe' /\ ReplacersServe'
    BY <1>0, <1>8, ConnectionTypesKept, ReplacersKept
  <2>2. UNCHANGED <<table, conn, sessions, owner, atts, mine, clients, looking, active, rv, late>>
    BY <1>8 DEF Read, Closing, CloseOld, CloseEvicted, Sweep, Dial, hubVars, clientVars, rowVars,
                histVars
  <2>3. ServedIsRegistered'
    <3>1. CASE Closing(h)
      BY <1>0, <3>1, ServedKept
    <3>2. CASE Read(h) \/ \E d \in Devices : Dial(h, d)
      <4>1. ConnTypes
        BY <1>0, TypeParts
      <4>2. \A g \in Conns : phase'[g] = "serving" /\ g \notin closed'
              => phase[g] = "serving" /\ g \notin closed /\ of'[g] = of[g]
        BY <3>2, <4>1 DEF Read, Dial, ConnTypes
      <4>3. UNCHANGED <<old, evicted>>
        BY <3>2 DEF Read, Dial, closeVars
      <4>4. QED
        BY <1>0, <2>2, <4>2, <4>3 DEF ServedIsRegistered, Serves
    <3>3. QED
      BY <1>8, <3>1, <3>2
  <2>4. QED
    BY <1>0, <2>1, <2>2, <2>3 DEF IInv, LookersJoined, SidOwned, AttachmentsAgree, RevokedIsGone
<1>9. CASE UNCHANGED vars
  <2>1. UNCHANGED <<table, conn, sessions, owner, atts, mine, phase, of, closed, box, grabbed,
                    old, evicted, have, cur, held, opens, clients, looking, active, rv, late, ghosts>>
    BY <1>9 DEF vars, hubVars, connVars, closeVars, agentVars, clientVars, rowVars, histVars
  <2>2. QED
    BY <1>0, <2>1 DEF IInv, TypeOK, GrabbedServe, ReplacersServe, LookersJoined, SidOwned, AttachmentsAgree,
                      ServedIsRegistered, Serves, RevokedIsGone
<1>10. QED
  BY <1>1, <1>2, <1>3, <1>4, <1>5, <1>6, <1>7, <1>8, <1>9, Actors

THEOREM Invariant == Spec => []IInv
  BY InitIInv, NextIInv, PTL DEF Spec

(* Every variable stays in its set. *)
THEOREM TypeCorrect == Spec => []TypeOK
<1>1. IInv => TypeOK
  BY DEF IInv
<1>2. QED
  BY <1>1, Invariant, PTL

(* registerSIDLocked, onAgentHello, onSessionClosed and revokeDevice keep      *)
(* sidOwner and the sessions of the devices the same, whoever collides.        *)
THEOREM OwnersAgree == Spec => []SidOwned
<1>1. IInv => SidOwned
  BY DEF IInv
<1>2. QED
  BY <1>1, Invariant, PTL

(* The two attachment tables agree, and no attachment outlives its session or  *)
(* its console.                                                               *)
THEOREM AttachmentsHold == Spec => []AttachmentsAgree
<1>1. IInv => AttachmentsAgree
  BY DEF IInv
<1>2. QED
  BY <1>1, Invariant, PTL

(* A connection that may still be read is the one registered for its device,   *)
(* or the goroutine that took its place still has it to close.                 *)
THEOREM OneIsServed == Spec => []ServedIsRegistered
<1>1. IInv => ServedIsRegistered
  BY DEF IInv
<1>2. QED
  BY <1>1, Invariant, PTL

(* A revoked device comes back only through a registration after it.           *)
THEOREM RevokedStaysOut == Spec => []RevokedIsGone
<1>1. IInv => RevokedIsGone
  BY DEF IInv
<1>2. QED
  BY <1>1, Invariant, PTL
================================================================================
