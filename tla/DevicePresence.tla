---------------------------- MODULE DevicePresence ----------------------------
(***************************************************************************)
(* DeviceHub with what consoles are told of it: device.state after a         *)
(* connection registered, said hello, beat or unregistered, device.list      *)
(* after a revocation and to a new console (internal/relay/hub.go,           *)
(* ws_agent.go, ws_client.go; web/src/store.tsx).  A broadcast reads the      *)
(* table under the lock and is sent without it, so those of two connections  *)
(* overtake one another.  Sessions and attachments change nothing of what is  *)
(* shown of a device: their steps are left to DeviceHub.                      *)
(***************************************************************************)
EXTENDS DeviceHub

VARIABLES
    cast,       \* what a connection's goroutine, or the revoker, has to broadcast
    snap,       \* the device list a new console is still to be sent
    shown,      \* what each console shows of each device
    misled      \* devices of which a state was sent that had passed

castVars == <<cast, snap, shown, misled>>
allVars == <<vars, castVars>>

Revoker == 0
Workers == Conns \cup {Revoker}
Quiet == [t |-> "none"]

PresenceInit ==
    /\ Init
    /\ cast = [w \in Workers |-> Quiet]
    /\ snap = [c \in Clients |-> None]
    /\ shown = [c \in Clients |-> [d \in Devices |-> "absent"]]
    /\ misled = {}

Ready(w) == cast[w] = Quiet
Announce(w, what) ==
    /\ Ready(w) /\ cast' = [cast EXCEPT ![w] = [t |-> what]]
    /\ UNCHANGED <<snap, shown, misled>>

-------------------------------------------------------------------------------
(* The steps of a connection's goroutine. *)
RegisterState(h) == Register(h) /\ Announce(h, "state")
CloseFirst(h) == CloseOld(h) /\ UNCHANGED castVars
HelloState(h) ==
    /\ Hello(h) /\ Ready(h)
    /\ IF Serves(h) THEN Announce(h, "state") ELSE UNCHANGED castVars
SilentStep(h) == Read(h) /\ Ready(h) /\ UNCHANGED castVars

UnregisterState_Silent(h) ==            \* mutant: the end is not announced
    Unregister(h) /\ Ready(h) /\ UNCHANGED castVars
UnregisterState(h) == Unregister(h) /\ Announce(h, "state")

(* onHeartbeat: the agent beats as long as the connection stands. *)
Heartbeat_Quiet(h) ==                   \* mutant: a heartbeat is only noted
    /\ phase[h] = "serving" /\ h \notin closed /\ box[h] = <<>> /\ cur[of[h]] = h
    /\ Serves(h) /\ Ready(h) /\ UNCHANGED <<vars, castVars>>

Heartbeat(h) ==
    /\ phase[h] = "serving" /\ h \notin closed /\ box[h] = <<>> /\ cur[of[h]] = h
    /\ Serves(h) /\ Announce(h, "state")
    /\ UNCHANGED vars

RevokeState(d) == RevokeRow(d) /\ Ready(Revoker) /\ UNCHANGED castVars
RevokeList == RevokeTable /\ Announce(Revoker, "devices")

-------------------------------------------------------------------------------
(* Broadcasts *)

Presence(d) ==
    IF d \notin table THEN "absent" ELSE IF conn[d] = None THEN "offline" ELSE "online"

Closing(w) == IF w = Revoker THEN evicted # {} ELSE old[w] # None

(* broadcastDeviceState and broadcastDeviceList read under the lock, once what *)
(* their goroutine had to close is closed ...                                 *)
Content(w) ==
    IF cast[w].t = "devices" THEN [t |-> "say", v |-> [d \in Devices |-> Presence(d)]]
    ELSE IF of[w] \in table THEN [t |-> "say", v |-> [d \in {of[w]} |-> Presence(d)]]
    ELSE Quiet
Fetch(w) ==
    /\ cast[w].t \in {"state", "devices"} /\ ~Closing(w)
    /\ cast' = [cast EXCEPT ![w] = Content(w)]
    /\ UNCHANGED <<vars, snap, shown, misled>>

(* ... and send without it. *)
Mixed(last, new) == [d \in Devices |-> IF d \in DOMAIN new THEN new[d] ELSE last[d]]
Say(w) ==
    LET v == cast[w].v IN
    /\ cast[w].t = "say"
    /\ shown' = [c \in Clients |-> IF c \in clients THEN Mixed(shown[c], v) ELSE shown[c]]
    /\ misled' = misled \cup {d \in DOMAIN v : v[d] # Presence(d)}
    /\ cast' = [cast EXCEPT ![w] = Quiet]
    /\ UNCHANGED <<vars, snap>>

-------------------------------------------------------------------------------
(* A console is registered, and its device.list, read with the same lock, is   *)
(* sent after.                                                                 *)
JoinSnap(c) ==
    /\ Join(c)
    /\ snap' = [snap EXCEPT ![c] = [d \in Devices |-> Presence(d)]]
    /\ UNCHANGED <<cast, shown, misled>>

Greet(c) ==
    /\ snap[c] # None
    /\ shown' = [shown EXCEPT ![c] = snap[c]]
    /\ snap' = [snap EXCEPT ![c] = None]
    /\ misled' = misled \cup {d \in Devices : snap[c][d] # Presence(d)}
    /\ UNCHANGED <<vars, cast>>

(* Its read loop starts with its list sent. *)
LeaveQuiet(c) == snap[c] = None /\ Leave(c) /\ UNCHANGED castVars

AgentStep(d) ==
    (AgentLoses(d) \/ \E h \in Conns : Dial(h, d)) /\ UNCHANGED castVars

Serve(h) == RegisterState(h) \/ CloseFirst(h) \/ HelloState(h) \/ SilentStep(h)
SweepStep(h) == Sweep(h) /\ UNCHANGED castVars
CloseStep(h) == CloseEvicted(h) /\ UNCHANGED castVars

PresenceNext ==
    \/ \E d \in Devices : AgentStep(d) \/ RevokeState(d)
    \/ \E h \in Conns : Serve(h) \/ UnregisterState(h) \/ Heartbeat(h) \/ SweepStep(h) \/ CloseStep(h)
    \/ \E w \in Workers : Fetch(w) \/ Say(w)
    \/ RevokeList
    \/ \E c \in Clients : JoinSnap(c) \/ Greet(c) \/ LeaveQuiet(c)

(* Goroutines run, an agent notices a connection the relay closed, and its     *)
(* heartbeats come as long as one stands.  Networks and people owe nothing.    *)
PresenceFairness ==
    /\ \A h \in Conns :
        /\ WF_allVars(Serve(h)) /\ WF_allVars(h \in closed /\ UnregisterState(h))
        /\ WF_allVars(Heartbeat(h)) /\ WF_allVars(CloseStep(h))
        /\ WF_allVars(Expires(h) /\ UNCHANGED castVars)
    /\ \A w \in Workers : WF_allVars(Fetch(w) \/ Say(w))
    /\ \A d \in Devices : WF_allVars(cur[d] \in closed /\ AgentLoses(d) /\ UNCHANGED castVars)
    /\ \A c \in Clients : WF_allVars(Greet(c))
    /\ WF_allVars(RevokeList)

PresenceSpec == PresenceInit /\ [][PresenceNext]_allVars
PresenceFairSpec == PresenceSpec /\ PresenceFairness

-------------------------------------------------------------------------------
(* A console that stays ends up showing as online a device whose connection    *)
(* stands, whichever stale state was broadcast last: the next heartbeat says   *)
(* so again.                                                                   *)
OnlineIsShown ==
    \A c \in Clients, d \in Devices :
        <>[](c \in clients /\ Stands(d)) => <>[](shown[c][d] = "online")

(* Nor does it go on showing as online a device that is lost or revoked,       *)
(* unless one broadcast overtook another.                                      *)
GoneIsShown ==
    \A c \in Clients, d \in Devices :
        <>[](c \in clients /\ Presence(d) # "online")
            => <>(d \in misled) \/ <>[](shown[c][d] # "online")
================================================================================
