---------------------------- MODULE ApprovalRelay ----------------------------
(***************************************************************************)
(* The relay's side of approvals (internal/relay/ws_agent.go, hub.go,        *)
(* ws_client.go, store/store.go): the cache under Server.mu, the database    *)
(* rows written after it, the agent's connection, the consoles' cards        *)
(* (web/src/store.tsx), and the agent's own store at the far end             *)
(* (internal/agent/agent.go), which keeps no approval across a restart and   *)
(* drops what it has to say while it is offline.                             *)
(*                                                                          *)
(* A handler changes the cache in one critical section and then writes the   *)
(* database, sends and broadcasts in steps of their own; each handler that   *)
(* is under way is a job of a worker.  raced and lost are history: they name *)
(* the keys whose handlers overtook one another, and those a message about   *)
(* which was dropped.                                                        *)
(***************************************************************************)
EXTENDS Naturals, Sequences, FiniteSets

CONSTANTS
    Keys,        \* approval keys
    Hooked,      \* those registered at level A, answered through the hook
    Consoles,
    MaxJobs,     \* bound on handlers under way at once
    MaxRaise,    \* bound on the registrations of a key
    MaxAsks,     \* bound on the decisions consoles ask for
    MaxFaults    \* bound on lost connections and restarts, of either end

ASSUME KeysAssumption == Hooked \subseteq Keys
ASSUME BoundsAssumption == {MaxJobs, MaxRaise, MaxAsks, MaxFaults} \subseteq Nat

Workers == 1..MaxJobs
Decisions == {"allowed", "denied"}      \* what allow and deny make of an item
Statuses == {"pending", "closed"} \cup Decisions   \* closed_local or fallback

VARIABLES
    store,      \* the agent's item under each key, "none" without
    raised,     \* how often it was registered
    link,       \* "up", "broken": only the relay still holds it, "down"
    conn,       \* the number of the newest connection
    up, down,   \* control messages on the connection
    cache,      \* Server.approvals, "none" without an entry
    db,         \* the status column of the approvals table
    job,        \* what each worker is doing
    view,       \* each console: "off", "joining": registered, its list unsent, "on"
    snap,       \* the pending keys of that list
    cards,      \* each console's State.approvals
    asked, faults,
    sent,       \* decisions sent since the key was last announced
    raced, lost

agentVars == <<store, raised>>
linkVars == <<link, conn, up, down>>
consoleVars == <<view, snap, cards>>
countVars == <<asked, faults>>
vars == <<agentVars, linkVars, cache, db, job, consoleVars, countVars, sent, raced, lost>>

Idle == [kind |-> "idle"]
Busy(w) == job[w] # Idle
Working(k) == \E w \in Workers : Busy(w) /\ job[w].key = k
(* The next handler's goroutine. *)
Free(w) == ~Busy(w) /\ \A v \in Workers : v < w => Busy(v)

Goto(w, stage) == job' = [job EXCEPT ![w].stage = stage]
Finish(w) == job' = [job EXCEPT ![w] = Idle]

(* Worker w changes the entry of k while another handler is between its own   *)
(* steps on k, or a console between its registration and its list.            *)
Races(w, k) ==
    \/ \E v \in Workers \ {w} : Busy(v) /\ job[v].key = k
    \/ \E c \in Consoles : view[c] = "joining"
(* A decision may moreover be about an item the agent has replaced. *)
Superseded(k) == \E i \in 1..Len(up) : up[i] = [t |-> "new", key |-> k]
MarkRace(w, k) == raced' = IF Races(w, k) \/ Superseded(k) THEN raced \cup {k} ELSE raced

Init ==
    /\ store = [k \in Keys |-> "none"] /\ raised = [k \in Keys |-> 0]
    /\ link = "down" /\ conn = 0 /\ up = <<>> /\ down = <<>>
    /\ cache = [k \in Keys |-> "none"] /\ db = [k \in Keys |-> "none"]
    /\ job = [w \in Workers |-> Idle]
    /\ view = [c \in Consoles |-> "off"] /\ snap = [c \in Consoles |-> {}]
    /\ cards = [c \in Consoles |-> [k \in Keys |-> "none"]]
    /\ asked = 0 /\ faults = 0
    /\ sent = [k \in Keys |-> 0] /\ raced = {} /\ lost = {}

-------------------------------------------------------------------------------
(* The agent *)

Carried == {up[i].key : i \in 1..Len(up)} \cup {down[i].key : i \in 1..Len(down)}

(* sendMsg: queued, or dropped when there is no connection. *)
Report(t, k) ==
    IF link = "up" THEN up' = Append(up, [t |-> t, key |-> k]) /\ UNCHANGED lost
                   ELSE lost' = lost \cup {k} /\ UNCHANGED up

(* A request registers, or after a while registers again, and is announced.   *)
(* What is still under way is then about an earlier registration.             *)
Raise(k) ==
    /\ raised[k] < MaxRaise
    /\ raised' = [raised EXCEPT ![k] = @ + 1]
    /\ store' = [store EXCEPT ![k] = "pending"]
    /\ raced' = IF k \in Carried \/ Working(k) THEN raced \cup {k} ELSE raced
    /\ Report("new", k)
    /\ UNCHANGED <<link, conn, down, cache, db, job, consoleVars, countVars, sent>>

(* Answered at the terminal, timed out, or its session ended. *)
Settle(k) ==
    /\ store[k] = "pending"
    /\ store' = [store EXCEPT ![k] = "closed"]
    /\ Report("closed", k)
    /\ UNCHANGED <<raised, link, conn, down, cache, db, job, consoleVars, countVars, sent, raced>>

(* approval.decide: the tool gets the answer, or the asker an error. *)
Apply ==
    /\ link = "up" /\ down # <<>>
    /\ LET m == Head(down) IN
       store' = IF store[m.key] = "pending" THEN [store EXCEPT ![m.key] = m.st] ELSE store
    /\ down' = Tail(down)
    /\ UNCHANGED <<raised, link, conn, up, cache, db, job, consoleVars, countVars, sent,
                   raced, lost>>

-------------------------------------------------------------------------------
(* The connection *)

Fault == faults < MaxFaults /\ faults' = faults + 1
Drop == up' = <<>> /\ down' = <<>> /\ UNCHANGED conn

Break ==
    /\ link = "up" /\ Fault
    /\ link' = "broken" /\ Drop
    /\ lost' = lost \cup Carried
    /\ UNCHANGED <<agentVars, cache, db, job, consoleVars, asked, sent, raced>>

(* The relay's read loop ends, or its heartbeat deadline passes. *)
Unregister ==
    /\ link = "broken" /\ link' = "down"
    /\ UNCHANGED <<agentVars, conn, up, down, cache, db, job, consoleVars, countVars, sent,
                   raced, lost>>

(* agent.hello names sessions, and no approvals. *)
Connect ==
    /\ link # "up" /\ link' = "up"
    /\ conn' = conn + 1
    /\ up' = <<>> /\ down' = <<>>
    /\ UNCHANGED <<agentVars, cache, db, job, consoleVars, countVars, sent, raced, lost>>

(* The agent starts again with an empty store. *)
AgentRestart ==
    /\ Fault
    /\ store' = [k \in Keys |-> "none"]
    /\ link' = (IF link = "up" THEN "broken" ELSE link) /\ Drop
    /\ lost' = lost \cup Carried \cup {k \in Keys : store[k] = "pending"}
    /\ UNCHANGED <<raised, cache, db, job, consoleVars, asked, sent, raced>>

-------------------------------------------------------------------------------
(* The relay: messages of the agent, one at a time per connection *)

Receive(w) ==
    /\ link = "up" /\ up # <<>> /\ Free(w)
    /\ \A v \in Workers : Busy(v) => job[v].conn # conn
    /\ up' = Tail(up)
    /\ job' = [job EXCEPT ![w] = [kind |-> Head(up).t, key |-> Head(up).key, stage |-> "lock",
                                  st |-> "pending", conn |-> conn]]
    /\ UNCHANGED <<agentVars, link, conn, down, cache, db, consoleVars, countVars, sent,
                   raced, lost>>

(* A handler of a connection that has been replaced acts on what is old. *)
Outdated(w) == job[w].conn # conn

(* onApprovalNew *)
CacheNew(w) ==
    LET k == job[w].key IN
    /\ job[w].kind = "new" /\ job[w].stage = "lock"
    /\ cache' = [cache EXCEPT ![k] = "pending"]
    /\ sent' = [sent EXCEPT ![k] = 0]
    /\ raced' = IF Races(w, k) \/ Outdated(w) THEN raced \cup {k} ELSE raced
    /\ Goto(w, "db")
    /\ UNCHANGED <<agentVars, linkVars, db, consoleVars, countVars, lost>>

(* onApprovalClosed: what is no longer pending is only broadcast again. *)
CacheClosed_Keep(w) ==                  \* mutant: the cached item is not closed
    LET k == job[w].key IN
    /\ job[w].kind = "closed" /\ job[w].stage = "lock"
    /\ job' = [job EXCEPT ![w].st = "closed", ![w].stage = "db"]
    /\ raced' = IF Races(w, k) \/ Outdated(w) THEN raced \cup {k} ELSE raced
    /\ UNCHANGED <<agentVars, linkVars, cache, db, consoleVars, countVars, sent, lost>>

CacheClosed(w) ==
    LET k == job[w].key IN
    /\ job[w].kind = "closed" /\ job[w].stage = "lock"
    /\ \/ /\ cache[k] = "pending"
          /\ cache' = [cache EXCEPT ![k] = "closed"]
          /\ job' = [job EXCEPT ![w].st = "closed", ![w].stage = "db"]
          /\ raced' = IF Races(w, k) \/ Outdated(w) THEN raced \cup {k} ELSE raced
       \/ /\ cache[k] # "pending"
          /\ job' = [job EXCEPT ![w].st = IF cache[k] = "none" THEN "closed" ELSE cache[k],
                                ![w].stage = "tell"]
          /\ UNCHANGED <<cache, raced>>
    /\ UNCHANGED <<agentVars, linkVars, db, consoleVars, countVars, sent, lost>>

UpsertApproval(k, st) == [db EXCEPT ![k] = st]
(* UPDATE changes no row where there is none. *)
SetApprovalStatus(k, st) == IF db[k] # "none" THEN [db EXCEPT ![k] = st] ELSE db

Persist_Unpersisted(w) ==               \* mutant: a decision or a close is not written
    LET j == job[w] IN
    /\ Busy(w) /\ j.stage = "db"
    /\ db' = IF j.kind = "new" THEN UpsertApproval(j.key, j.st) ELSE db
    /\ Goto(w, IF j.kind = "decide" THEN "send" ELSE "tell")
    /\ UNCHANGED <<agentVars, linkVars, cache, consoleVars, countVars, sent, raced, lost>>

Persist(w) ==
    LET j == job[w] IN
    /\ Busy(w) /\ j.stage = "db"
    /\ db' = IF j.kind = "new" THEN UpsertApproval(j.key, j.st) ELSE SetApprovalStatus(j.key, j.st)
    /\ Goto(w, IF j.kind = "decide" THEN "send" ELSE "tell")
    /\ UNCHANGED <<agentVars, linkVars, cache, consoleVars, countVars, sent, raced, lost>>

(* The console's reducer: an end is noted only on a card it has. *)
Noted(c, k, st) ==
    IF st = "pending" \/ cards[c][k] # "none" THEN [cards[c] EXCEPT ![k] = st] ELSE cards[c]

(* The broadcast to every registered console. *)
Tell(w) ==
    LET k == job[w].key
        st == job[w].st IN
    /\ Busy(w) /\ job[w].stage = "tell"
    /\ cards' = [c \in Consoles |->
                   IF view[c] # "off" THEN Noted(c, k, st) ELSE cards[c]]
    /\ Finish(w)
    /\ UNCHANGED <<agentVars, linkVars, cache, db, view, snap, countVars, sent, raced, lost>>

-------------------------------------------------------------------------------
(* The relay: decideApproval, for a WebSocket console or an HTTP request *)

Ask(w, k, st, stage) ==
    /\ asked < MaxAsks /\ asked' = asked + 1 /\ Free(w)
    /\ job' = [job EXCEPT ![w] = [kind |-> "decide", key |-> k, stage |-> stage, st |-> st,
                                  conn |-> conn, row |-> "none"]]
    /\ UNCHANGED <<agentVars, linkVars, db, consoleVars, faults, sent, lost>>

(* Pending, level A, and the device online. *)
Decidable_Stale(k, status) == k \in Hooked /\ link # "down"
                                        \* mutant: a settled item is decided again
Decidable(k, status) == status = "pending" /\ k \in Hooked /\ link # "down"

(* Answered with an error otherwise, which changes nothing. *)
Decide(w, k, st) ==
    /\ Decidable(k, cache[k]) /\ cache[k] # "none"
    /\ cache' = [cache EXCEPT ![k] = st]
    /\ MarkRace(w, k)
    /\ Ask(w, k, st, "db")

(* Not cached: the row is read without the lock ... *)
DecideUncached(w, k, st) ==
    /\ cache[k] = "none" /\ db[k] # "none"
    /\ Ask(w, k, st, "row")
    /\ UNCHANGED <<cache, raced>>

ReadRow(w) ==
    /\ Busy(w) /\ job[w].stage = "row"
    /\ job' = [job EXCEPT ![w].row = db[job[w].key], ![w].stage = "relock"]
    /\ UNCHANGED <<agentVars, linkVars, cache, db, consoleVars, countVars, sent, raced, lost>>

(* ... and put into the cache, whatever is there by now. *)
CacheRow(w) ==
    LET j == job[w] IN
    /\ Busy(w) /\ j.stage = "relock"
    /\ MarkRace(w, j.key)
    /\ \/ /\ Decidable(j.key, j.row)
          /\ cache' = [cache EXCEPT ![j.key] = j.st]
          /\ job' = [job EXCEPT ![w].stage = "db", ![w].conn = conn]
       \/ /\ ~Decidable(j.key, j.row)
          /\ cache' = [cache EXCEPT ![j.key] = j.row]
          /\ Finish(w)
    /\ UNCHANGED <<agentVars, linkVars, db, consoleVars, countVars, sent, lost>>

(* To the connection the device had when the decision was taken. *)
Send(w) ==
    LET j == job[w] IN
    /\ Busy(w) /\ j.stage = "send"
    /\ Goto(w, "tell")
    /\ sent' = [sent EXCEPT ![j.key] = @ + 1]
    /\ IF link = "up" /\ j.conn = conn
         THEN down' = Append(down, [key |-> j.key, st |-> j.st]) /\ UNCHANGED lost
         ELSE lost' = lost \cup {j.key} /\ UNCHANGED down
    /\ UNCHANGED <<agentVars, link, conn, up, cache, db, consoleVars, countVars, raced>>

-------------------------------------------------------------------------------
(* Consoles, and the relay's own restart *)

(* pendingApprovalsLocked, and ListApprovals of the rows. *)
PendingCached == {k \in Keys : cache[k] = "pending"}
PendingStored == {k \in Keys : db[k] = "pending"}

Join(c) ==
    /\ view[c] = "off"
    /\ view' = [view EXCEPT ![c] = "joining"]
    /\ snap' = [snap EXCEPT ![c] = PendingCached]
    /\ UNCHANGED <<agentVars, linkVars, cache, db, job, cards, countVars, sent, raced, lost>>

(* approval.list replaces every card. *)
List_Merge(c) ==                        \* mutant: the list is added to the cards
    /\ view[c] = "joining"
    /\ view' = [view EXCEPT ![c] = "on"]
    /\ cards' = [cards EXCEPT ![c] = [k \in Keys |-> IF k \in snap[c] THEN "pending" ELSE @[k]]]
    /\ snap' = [snap EXCEPT ![c] = {}]
    /\ UNCHANGED <<agentVars, linkVars, cache, db, job, countVars, sent, raced, lost>>

List(c) ==
    /\ view[c] = "joining"
    /\ view' = [view EXCEPT ![c] = "on"]
    /\ cards' = [cards EXCEPT ![c] = [k \in Keys |-> IF k \in snap[c] THEN "pending" ELSE "none"]]
    /\ snap' = [snap EXCEPT ![c] = {}]
    /\ UNCHANGED <<agentVars, linkVars, cache, db, job, countVars, sent, raced, lost>>

Leave(c) ==
    /\ view[c] # "off" /\ Fault
    /\ view' = [view EXCEPT ![c] = "off"]
    /\ snap' = [snap EXCEPT ![c] = {}]
    /\ UNCHANGED <<agentVars, linkVars, cache, db, job, cards, asked, sent, raced, lost>>

(* loadState: the pending rows, and nothing of what was under way. *)
RelayRestart ==
    /\ Fault
    /\ cache' = [k \in Keys |-> IF k \in PendingStored THEN "pending" ELSE "none"]
    /\ job' = [w \in Workers |-> Idle]
    /\ link' = "down" /\ Drop
    /\ lost' = lost \cup Carried \cup {k \in Keys : Working(k)}
    /\ view' = [c \in Consoles |-> "off"] /\ snap' = [c \in Consoles |-> {}]
    /\ UNCHANGED <<agentVars, db, cards, asked, sent, raced>>

-------------------------------------------------------------------------------
Serve(w) ==
    \/ Receive(w) \/ CacheNew(w) \/ CacheClosed(w) \/ Persist(w) \/ Tell(w)
    \/ ReadRow(w) \/ CacheRow(w) \/ Send(w)

Next ==
    \/ \E k \in Keys : Raise(k) \/ Settle(k)
    \/ Apply \/ Break \/ Unregister \/ Connect \/ AgentRestart \/ RelayRestart
    \/ \E w \in Workers : Serve(w)
    \/ \E w \in Workers, k \in Keys, st \in Decisions : Decide(w, k, st) \/ DecideUncached(w, k, st)
    \/ \E c \in Consoles : Join(c) \/ List(c) \/ Leave(c)

(* Goroutines run, messages arrive, the agent and the page reconnect.  Tools, *)
(* people and faults owe nothing.                                             *)
Fairness ==
    /\ \A w \in Workers : WF_vars(Serve(w))
    /\ WF_vars(Apply) /\ WF_vars(Unregister) /\ WF_vars(Connect)
    /\ \A c \in Consoles : WF_vars(Join(c)) /\ WF_vars(List(c))

Spec == Init /\ [][Next]_vars
FairSpec == Spec /\ Fairness

-------------------------------------------------------------------------------
Entries == Statuses \cup {"none"}
Messages == [t : {"new", "closed"}, key : Keys]
Orders == [key : Keys, st : Decisions]
Jobs ==
    [kind : {"new", "closed"}, key : Keys, stage : {"lock", "db", "tell"}, st : Statuses,
     conn : Nat]
    \cup [kind : {"decide"}, key : Keys, stage : {"row", "relock", "db", "send", "tell"},
          st : Decisions, conn : Nat, row : Entries]

TypeOK ==
    /\ store \in [Keys -> Entries] /\ raised \in [Keys -> 0..MaxRaise]
    /\ link \in {"up", "broken", "down"} /\ conn \in Nat
    /\ up \in Seq(Messages) /\ down \in Seq(Orders)
    /\ cache \in [Keys -> Entries] /\ db \in [Keys -> Entries]
    /\ job \in [Workers -> Jobs \cup {Idle}]
    /\ view \in [Consoles -> {"off", "joining", "on"}] /\ snap \in [Consoles -> SUBSET Keys]
    /\ cards \in [Consoles -> [Keys -> Entries]]
    /\ asked \in 0..MaxAsks /\ faults \in 0..MaxFaults
    /\ sent \in [Keys -> Nat] /\ {raced, lost} \subseteq SUBSET Keys

(* However many consoles answer an item, and though the relay may die between *)
(* any two steps of an answer, at most one answer goes out per announcement.  *)
DecidedOnce == \A k \in Keys \ raced : sent[k] <= 1

(* What the relay would find after a restart is what it has now. *)
RowsMatch ==
    \A k \in Keys \ raced : ~Working(k) => ((db[k] = "pending") <=> (cache[k] = "pending"))

(* A decision the tool is given is the one the relay has recorded. *)
AnswerIsRecorded ==
    \A k \in Keys \ (raced \cup lost) :
        store[k] \in Decisions /\ ~Working(k) => cache[k] \in {store[k], "none"} /\ db[k] = store[k]

(* A console that stays connected ends up showing as pending what the relay    *)
(* holds as pending, whatever it missed while it was away.                     *)
ConsoleFollows ==
    \A c \in Consoles, k \in Keys :
        <>(k \in raced) \/ <>[](cards[c][k] = "pending" <=> cache[k] = "pending")

(* The relay ends up with the agent's view of an item, unless a message about  *)
(* it was dropped.                                                             *)
RelayFollows ==
    \A k \in Keys :
        <>(k \in raced \cup lost) \/ <>[](cache[k] = "pending" <=> store[k] = "pending")

-------------------------------------------------------------------------------
(* While the agent is connected the relay hears of every pending approval:     *)
(* "after a recovery the approvals that were not delivered are sent again"     *)
(* (docs/02, section 3.5).                                                     *)
PendingIsReported ==
    \A k \in Keys :
        (store[k] = "pending" /\ link = "up")
            ~> (cache[k] # "none" \/ store[k] # "pending" \/ link # "up")
================================================================================
