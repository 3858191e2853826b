-------------------------- MODULE ApprovalRelayProofs --------------------------
(***************************************************************************)
(* For any number of keys, consoles, handlers, faults and decisions: one      *)
(* answer goes out per announcement, the rows agree with the cache, and what  *)
(* a tool is told is what the relay has recorded.                            *)
(*                                                                          *)
(* The argument, for a key whose handlers did not overtake one another: at    *)
(* most one handler is between its change of the cache and its last use of    *)
(* it, the cache then holds what it will write, and until it has sent its     *)
(* answer none was sent (Tidy).  An answer on its way, or given, is the row's *)
(* and the cache's, and no announcement is on its way with it (Told).         *)
(***************************************************************************)
EXTENDS ApprovalRelay, TLAPS

On(w, k) == Busy(w) /\ job[w].key = k
Changing(w, k) == On(w, k) /\ job[w].stage \in {"db", "send"}
Reading(w, k) == On(w, k) /\ job[w].stage \in {"row", "relock"}

(* At most one handler changes the key, and none then reads its row. *)
OneChanges(k) ==
    \A w, v \in Workers : Changing(w, k) /\ (Changing(v, k) \/ Reading(v, k)) => w = v

(* A change that is not complete: nothing was sent, and the cache holds what   *)
(* the row will.                                                              *)
Half(k) ==
    \A w \in Workers : Changing(w, k) =>
        /\ sent[k] = 0 /\ cache[k] = job[w].st
        /\ job[w].kind = "decide" => db[k] = IF job[w].stage = "db" THEN "pending" ELSE job[w].st

Agrees(k) ==
    (\A w \in Workers : ~(On(w, k) /\ job[w].stage = "db"))
        => (db[k] = "pending" <=> cache[k] = "pending")

(* A row is read only for want of a cached one, and is still what was read. *)
RowIsRead(k) ==
    \A w \in Workers : Reading(w, k) =>
        cache[k] = "none" /\ (job[w].stage = "relock" => job[w].row = db[k])

Unsent(k) == sent[k] <= 1 /\ (cache[k] = "pending" => sent[k] = 0)

Tidy(k) == OneChanges(k) /\ Half(k) /\ Agrees(k) /\ RowIsRead(k) /\ Unsent(k)

Announced(k) ==
    \/ \E i \in 1..Len(up) : up[i] = [t |-> "new", key |-> k]
    \/ \E w \in Workers : On(w, k) /\ job[w].kind = "new" /\ job[w].stage = "lock"
Answers(k, st) == store[k] = st \/ \E i \in 1..Len(down) : down[i] = [key |-> k, st |-> st]

(* No answer is under way to an announcement that is still under way. *)
NewIsFirst(k) ==
    Announced(k) =>
        /\ \A st \in Decisions : ~Answers(k, st)
        /\ \A w \in Workers : ~(Changing(w, k) /\ job[w].kind = "decide")

AnswerIsKept(k) ==
    \A st \in Decisions : Answers(k, st) =>
        sent[k] > 0 /\ db[k] = st /\ cache[k] \in {st, "none"}

Told(k) == NewIsFirst(k) /\ AnswerIsKept(k)

(* What an announcement makes of an item, and a close of one that was pending. *)
StatusSaid ==
    \A w \in Workers :
        /\ job[w].kind = "new" => job[w].st = "pending"
        /\ job[w].kind = "closed" /\ job[w].stage = "db" => job[w].st = "closed"

AllTidy == \A k \in Keys \ raced : Tidy(k)
AllTold == \A k \in Keys \ (raced \cup lost) : Told(k)
IInv == TypeOK /\ StatusSaid /\ AllTidy /\ AllTold

-------------------------------------------------------------------------------
(* Types *)

HandlerJobs ==
    [kind : {"new", "closed"}, key : Keys, stage : {"lock", "db", "tell"}, st : Statuses,
     conn : Nat]
DecideJobs ==
    [kind : {"decide"}, key : Keys, stage : {"row", "relock", "db", "send", "tell"},
     st : Decisions, conn : Nat, row : Entries]

LEMMA Numbers == MaxJobs \in Nat /\ MaxRaise \in Nat /\ MaxAsks \in Nat /\ MaxFaults \in Nat
  BY BoundsAssumption, Zenon

LEMMA JobTyped ==
    ASSUME job \in [Workers -> Jobs \cup {Idle}], NEW w \in Workers, Busy(w)
    PROVE  job[w] \in HandlerJobs \/ job[w] \in DecideJobs
  BY DEF Busy, Jobs, HandlerJobs, DecideJobs

LEMMA JobsAreBusy ==
    /\ \A j \in HandlerJobs : j # Idle
    /\ \A j \in DecideJobs : j # Idle
    /\ HandlerJobs \subseteq Jobs /\ DecideJobs \subseteq Jobs
  BY DEF Jobs, HandlerJobs, DecideJobs, Idle

StoreTypes ==
    /\ store \in [Keys -> Entries] /\ raised \in [Keys -> 0..MaxRaise]
    /\ cache \in [Keys -> Entries] /\ db \in [Keys -> Entries] /\ sent \in [Keys -> Nat]
LinkTypes ==
    /\ link \in {"up", "broken", "down"} /\ conn \in Nat
    /\ up \in Seq(Messages) /\ down \in Seq(Orders)
JobTypes == job \in [Workers -> Jobs \cup {Idle}]
ViewTypes ==
    /\ view \in [Consoles -> {"off", "joining", "on"}] /\ snap \in [Consoles -> SUBSET Keys]
    /\ cards \in [Consoles -> [Keys -> Entries]]
CountTypes == asked \in 0..MaxAsks /\ faults \in 0..MaxFaults
HistTypes == raced \subseteq Keys /\ lost \subseteq Keys

LEMMA TypeParts ==
    TypeOK <=> StoreTypes /\ LinkTypes /\ JobTypes /\ ViewTypes /\ CountTypes /\ HistTypes
  BY DEF TypeOK, StoreTypes, LinkTypes, JobTypes, ViewTypes, CountTypes, HistTypes

LEMMA CarriedTyped == ASSUME LinkTypes PROVE Carried \subseteq Keys
<1>1. /\ \A i \in 1..Len(up) : up[i] \in Messages
      /\ \A i \in 1..Len(down) : down[i] \in Orders
  BY DEF LinkTypes
<1>2. (\A m \in Messages : m.key \in Keys) /\ (\A o \in Orders : o.key \in Keys)
  BY DEF Messages, Orders
<1>3. QED
  BY <1>1, <1>2 DEF Carried

LEMMA ReportTyped ==
    ASSUME LinkTypes, HistTypes, NEW t \in {"new", "closed"}, NEW k \in Keys, Report(t, k)
    PROVE  up' \in Seq(Messages) /\ lost' \subseteq Keys
<1>1. [t |-> t, key |-> k] \in Messages
  BY DEF Messages
<1>2. \A m \in Messages : Append(up, m) \in Seq(Messages)
  BY DEF LinkTypes
<1>3. Append(up, [t |-> t, key |-> k]) \in Seq(Messages)
  BY <1>1, <1>2, Zenon
<1>4. up' \in Seq(Messages)
  BY <1>3, Zenon DEF LinkTypes, Report
<1>5. QED
  BY <1>4 DEF HistTypes, Report

(* A handler's next stage. *)
LEMMA GotoTyped ==
    ASSUME JobTypes, NEW w \in Workers, Busy(w), NEW stage, Goto(w, stage),
           \/ job[w] \in HandlerJobs /\ stage \in {"lock", "db", "tell"}
           \/ job[w] \in DecideJobs /\ stage \in {"row", "relock", "db", "send", "tell"}
    PROVE  JobTypes'
<1>1. [job[w] EXCEPT !.stage = stage] \in HandlerJobs \cup DecideJobs
  BY DEF HandlerJobs, DecideJobs
<1>2. QED
  BY <1>1, JobsAreBusy DEF JobTypes, Goto

LEMMA FinishTyped ==
    ASSUME JobTypes, NEW w \in Workers, Finish(w) PROVE JobTypes'
  BY DEF JobTypes, Finish

LEMMA AskTyped ==
    ASSUME JobTypes, LinkTypes, CountTypes, NEW w \in Workers, NEW k \in Keys, NEW st \in Decisions,
           NEW stage \in {"row", "db"}, Ask(w, k, st, stage)
    PROVE  JobTypes' /\ CountTypes'
<1>1. [kind |-> "decide", key |-> k, stage |-> stage, st |-> st, conn |-> conn, row |-> "none"]
        \in DecideJobs
  BY DEF DecideJobs, LinkTypes, Entries
<1>2. QED
  BY <1>1, JobsAreBusy, Numbers DEF JobTypes, CountTypes, Ask

LEMMA AgentTyped ==
    ASSUME TypeOK, (\E k \in Keys : Raise(k) \/ Settle(k)) \/ Apply
    PROVE  TypeOK'
<1>0. StoreTypes /\ LinkTypes /\ JobTypes /\ ViewTypes /\ CountTypes /\ HistTypes
  BY TypeParts
<1>1. ASSUME NEW k \in Keys, Raise(k) PROVE TypeOK'
  <2>1. StoreTypes'
    BY <1>0, <1>1, Numbers DEF StoreTypes, Raise, Entries, Statuses
  <2>2. up' \in Seq(Messages) /\ lost' \subseteq Keys
    BY <1>0, <1>1, ReportTyped DEF Raise
  <2>3. LinkTypes' /\ HistTypes'
    BY <1>0, <1>1, <2>2 DEF LinkTypes, HistTypes, Raise
  <2>4. JobTypes' /\ ViewTypes' /\ CountTypes'
    BY <1>0, <1>1 DEF JobTypes, ViewTypes, CountTypes, Raise, consoleVars, countVars
  <2>5. QED
    BY <2>1, <2>3, <2>4 DEF TypeOK, StoreTypes, LinkTypes, JobTypes, ViewTypes, CountTypes, HistTypes
<1>2. ASSUME NEW k \in Keys, Settle(k) PROVE TypeOK'
  <2>1. StoreTypes'
    BY <1>0, <1>2 DEF StoreTypes, Settle, Entries, Statuses
  <2>2. up' \in Seq(Messages) /\ lost' \subseteq Keys
    BY <1>0, <1>2, ReportTyped DEF Settle
  <2>3. LinkTypes' /\ HistTypes'
    BY <1>0, <1>2, <2>2 DEF LinkTypes, HistTypes, Settle
  <2>4. JobTypes' /\ ViewTypes' /\ CountTypes'
    BY <1>0, <1>2 DEF JobTypes, ViewTypes, CountTypes, Settle, consoleVars, countVars
  <2>5. QED
    BY <2>1, <2>3, <2>4 DEF TypeOK, StoreTypes, LinkTypes, JobTypes, ViewTypes, CountTypes, HistTypes
<1>3. ASSUME Apply PROVE TypeOK'
  <2>1. Head(down) \in Orders /\ Tail(down) \in Seq(Orders)
    BY <1>0, <1>3 DEF LinkTypes, Apply
  <2>2. Head(down).key \in Keys /\ Head(down).st \in Entries
    BY <2>1 DEF Orders, Entries, Statuses
  <2>3. StoreTypes'
    BY <1>0, <1>3, <2>2 DEF StoreTypes, Apply
  <2>4. LinkTypes' /\ HistTypes' /\ JobTypes' /\ ViewTypes' /\ CountTypes'
    BY <1>0, <1>3, <2>1
    DEF LinkTypes, HistTypes, JobTypes, ViewTypes, CountTypes, Apply, consoleVars, countVars
  <2>5. QED
    BY <2>3, <2>4 DEF TypeOK, StoreTypes, LinkTypes, JobTypes, ViewTypes, CountTypes, HistTypes
<1>4. QED
  BY <1>1, <1>2, <1>3

LEMMA LinkTyped ==
    ASSUME TypeOK, Break \/ Unregister \/ Connect \/ AgentRestart \/ RelayRestart
    PROVE  TypeOK'
<1>0. StoreTypes /\ LinkTypes /\ JobTypes /\ ViewTypes /\ CountTypes /\ HistTypes
  BY TypeParts
<1>1. Carried \subseteq Keys /\ {k \in Keys : Working(k)} \subseteq Keys
  BY <1>0, CarriedTyped
<1>2. /\ raised' = raised /\ db' = db /\ sent' = sent /\ asked' = asked /\ raced' = raced
      /\ cards' = cards
  BY DEF Break, Unregister, Connect, AgentRestart, RelayRestart, agentVars, consoleVars, countVars
<1>3. StoreTypes'
  <2>1. store' = store \/ store' = [k \in Keys |-> "none"]
    BY DEF Break, Unregister, Connect, AgentRestart, RelayRestart, agentVars
  <2>2. cache' = cache \/ cache' = [k \in Keys |-> IF k \in PendingStored THEN "pending" ELSE "none"]
    BY DEF Break, Unregister, Connect, AgentRestart, RelayRestart
  <2>3. QED
    BY <1>0, <1>2, <2>1, <2>2 DEF StoreTypes, Entries, Statuses
<1>4. LinkTypes'
  <2>1. <<>> \in Seq(Messages) /\ <<>> \in Seq(Orders)
    OBVIOUS
  <2>2. up' \in {up, <<>>} /\ down' \in {down, <<>>} /\ conn' \in {conn, conn + 1}
    BY DEF Break, Unregister, Connect, AgentRestart, RelayRestart, Drop
  <2>3. link' \in {link, "up", "broken", "down"}
    BY DEF Break, Unregister, Connect, AgentRestart, RelayRestart
  <2>4. up' \in Seq(Messages) /\ down' \in Seq(Orders)
    BY <1>0, <2>1, <2>2, Zenon DEF LinkTypes
  <2>5. link' \in {"up", "broken", "down"} /\ conn' \in Nat
    BY <1>0, <2>2, <2>3 DEF LinkTypes
  <2>6. QED
    BY <2>4, <2>5 DEF LinkTypes
<1>5. JobTypes'
  <2>1. job' = job \/ job' = [w \in Workers |-> Idle]
    BY DEF Break, Unregister, Connect, AgentRestart, RelayRestart
  <2>2. QED
    BY <1>0, <2>1 DEF JobTypes
<1>6. ViewTypes'
  <2>1. \/ view' = view /\ snap' = snap
        \/ view' = [c \in Consoles |-> "off"] /\ snap' = [c \in Consoles |-> {}]
    BY DEF Break, Unregister, Connect, AgentRestart, RelayRestart, consoleVars
  <2>2. QED
    BY <1>0, <1>2, <2>1 DEF ViewTypes
<1>7. CountTypes'
  <2>1. faults' = faults \/ Fault
    BY DEF Break, Unregister, Connect, AgentRestart, RelayRestart, countVars
  <2>2. QED
    BY <1>0, <1>2, <2>1, Numbers DEF CountTypes, Fault
<1>8. HistTypes'
  BY <1>0, <1>1, <1>2 DEF HistTypes, Break, Unregister, Connect, AgentRestart, RelayRestart
<1>9. QED
  BY <1>3, <1>4, <1>5, <1>6, <1>7, <1>8
  DEF TypeOK, StoreTypes, LinkTypes, JobTypes, ViewTypes, CountTypes, HistTypes

LEMMA ConsoleTyped ==
    ASSUME TypeOK, NEW c \in Consoles, Join(c) \/ List(c) \/ Leave(c) PROVE TypeOK'
<1>0. StoreTypes /\ LinkTypes /\ JobTypes /\ ViewTypes /\ CountTypes /\ HistTypes
  BY TypeParts
<1>1. StoreTypes' /\ LinkTypes' /\ JobTypes' /\ HistTypes'
  BY <1>0 DEF StoreTypes, LinkTypes, JobTypes, HistTypes, Join, List, Leave, agentVars, linkVars
<1>2. CountTypes'
  BY <1>0, Numbers DEF CountTypes, Join, List, Leave, countVars, Fault
<1>3. ViewTypes'
  <2>1. PendingCached \subseteq Keys
    BY DEF PendingCached
  <2>2. CASE Join(c)
    BY <1>0, <2>1, <2>2 DEF ViewTypes, Join
  <2>3. CASE List(c)
    <3>1. [k \in Keys |-> IF k \in snap[c] THEN "pending" ELSE "none"] \in [Keys -> Entries]
      BY DEF Entries, Statuses
    <3>2. QED
      BY <1>0, <2>3, <3>1 DEF ViewTypes, List
  <2>4. CASE Leave(c)
    BY <1>0, <2>4 DEF ViewTypes, Leave
  <2>5. QED
    BY <2>2, <2>3, <2>4
<1>4. QED
  BY <1>1, <1>2, <1>3
  DEF TypeOK, StoreTypes, LinkTypes, JobTypes, ViewTypes, CountTypes, HistTypes

(* What the steps of a handler leave alone. *)
LEMMA ServeTyped == ASSUME TypeOK, NEW w \in Workers, Serve(w) PROVE TypeOK'
<1>0. StoreTypes /\ LinkTypes /\ JobTypes /\ ViewTypes /\ CountTypes /\ HistTypes
  BY TypeParts
<1>1. CountTypes' /\ (~Tell(w) => ViewTypes')
  <2>1. asked' = asked /\ faults' = faults
    BY DEF Serve, Receive, CacheNew, CacheClosed, Persist, Tell, ReadRow, CacheRow, Send, countVars
  <2>2. Tell(w) \/ UNCHANGED <<view, snap, cards>>
    BY DEF Serve, Receive, CacheNew, CacheClosed, Persist, ReadRow, CacheRow, Send, consoleVars
  <2>3. QED
    BY <1>0, <2>1, <2>2 DEF CountTypes, ViewTypes
<1>2. CASE Receive(w)
  <2>1. Head(up) \in Messages /\ Tail(up) \in Seq(Messages)
    BY <1>0, <1>2 DEF LinkTypes, Receive
  <2>2. [kind |-> Head(up).t, key |-> Head(up).key, stage |-> "lock", st |-> "pending",
         conn |-> conn] \in HandlerJobs
    BY <1>0, <2>1 DEF Messages, HandlerJobs, Statuses, LinkTypes
  <2>3. JobTypes'
    BY <1>0, <1>2, <2>2, JobsAreBusy DEF JobTypes, Receive
  <2>4. StoreTypes' /\ LinkTypes' /\ HistTypes' /\ ViewTypes'
    BY <1>0, <1>2, <2>1 DEF StoreTypes, LinkTypes, HistTypes, ViewTypes, Receive, agentVars, consoleVars
  <2>5. QED
    BY <1>1, <2>3, <2>4 DEF TypeOK, StoreTypes, LinkTypes, JobTypes, ViewTypes, CountTypes, HistTypes
<1>3. CASE CacheNew(w)
  <2>1. job[w] \in HandlerJobs /\ job[w].key \in Keys
    BY <1>0, <1>3 DEF JobTypes, CacheNew, Jobs, HandlerJobs, Idle
  <2>2. JobTypes'
    BY <1>0, <1>3, <2>1, GotoTyped, JobsAreBusy DEF CacheNew, Busy
  <2>3. StoreTypes'
    BY <1>0, <1>3, <2>1 DEF StoreTypes, CacheNew, Entries, Statuses, agentVars
  <2>4. LinkTypes' /\ HistTypes' /\ ViewTypes'
    BY <1>0, <1>3, <2>1 DEF LinkTypes, HistTypes, ViewTypes, CacheNew, linkVars, consoleVars
  <2>5. QED
    BY <1>1, <2>2, <2>3, <2>4 DEF TypeOK, StoreTypes, LinkTypes, JobTypes, ViewTypes, CountTypes, HistTypes
<1>4. CASE CacheClosed(w)
  <2>1. job[w] \in HandlerJobs /\ job[w].key \in Keys
    BY <1>0, <1>4 DEF JobTypes, CacheClosed, Jobs, HandlerJobs, Idle
  <2>2. JobTypes'
    <3>1. \A st \in Statuses, stage \in {"db", "tell"} :
            [job[w] EXCEPT !.st = st, !.stage = stage] \in HandlerJobs
      BY <2>1 DEF HandlerJobs
    <3>2. cache[job[w].key] \in Entries
      BY <1>0, <2>1 DEF StoreTypes
    <3>3. \E st \in Statuses, stage \in {"db", "tell"} :
            job' = [job EXCEPT ![w] = [job[w] EXCEPT !.st = st, !.stage = stage]]
      <4>1. \/ job' = [job EXCEPT ![w].st = "closed", ![w].stage = "db"]
            \/ job' = [job EXCEPT ![w].st = IF cache[job[w].key] = "none" THEN "closed"
                                            ELSE cache[job[w].key], ![w].stage = "tell"]
        BY <1>4 DEF CacheClosed
      <4>2. job[w] = [job[w] EXCEPT !.kind = job[w].kind]
        BY <2>1 DEF HandlerJobs
      <4>3. CASE job' = [job EXCEPT ![w].st = "closed", ![w].stage = "db"]
        BY <1>0, <4>3 DEF JobTypes, Statuses
      <4>4. CASE job' = [job EXCEPT ![w].st = IF cache[job[w].key] = "none" THEN "closed"
                                              ELSE cache[job[w].key], ![w].stage = "tell"]
        <5>1. PICK st \in Statuses : st = IF cache[job[w].key] = "none" THEN "closed"
                                          ELSE cache[job[w].key]
          BY <3>2 DEF Entries, Statuses
        <5>2. job' = [job EXCEPT ![w].st = st, ![w].stage = "tell"]
          BY <4>4, <5>1
        <5>3. QED
          BY <1>0, <5>2 DEF JobTypes
      <4>5. QED
        BY <4>1, <4>3, <4>4
    <3>4. QED
      BY <1>0, <3>1, <3>3, JobsAreBusy DEF JobTypes
  <2>3. StoreTypes'
    BY <1>0, <1>4, <2>1 DEF StoreTypes, CacheClosed, Entries, Statuses, agentVars
  <2>4. LinkTypes' /\ HistTypes' /\ ViewTypes'
    BY <1>0, <1>4, <2>1 DEF LinkTypes, HistTypes, ViewTypes, CacheClosed, linkVars, consoleVars
  <2>5. QED
    BY <1>1, <2>2, <2>3, <2>4 DEF TypeOK, StoreTypes, LinkTypes, JobTypes, ViewTypes, CountTypes, HistTypes
<1>5. CASE Persist(w)
  <2>1. job[w] \in HandlerJobs \cup DecideJobs /\ job[w].key \in Keys /\ job[w].st \in Entries
    BY <1>0, <1>5, JobTyped DEF JobTypes, Persist, HandlerJobs, DecideJobs, Entries, Statuses
  <2>2. JobTypes'
    <3>1. CASE job[w].kind = "decide"
      BY <1>0, <1>5, <2>1, <3>1, GotoTyped DEF Persist, HandlerJobs
    <3>2. CASE job[w].kind # "decide"
      BY <1>0, <1>5, <2>1, <3>2, GotoTyped DEF Persist, DecideJobs
    <3>3. QED
      BY <3>1, <3>2
  <2>3. StoreTypes'
    BY <1>0, <1>5, <2>1 DEF StoreTypes, Persist, UpsertApproval, SetApprovalStatus, agentVars
  <2>4. LinkTypes' /\ HistTypes' /\ ViewTypes'
    BY <1>0, <1>5 DEF LinkTypes, HistTypes, ViewTypes, Persist, linkVars, consoleVars
  <2>5. QED
    BY <1>1, <2>2, <2>3, <2>4 DEF TypeOK, StoreTypes, LinkTypes, JobTypes, ViewTypes, CountTypes, HistTypes
<1>6. CASE Tell(w)
  <2>1. job[w].key \in Keys /\ job[w].st \in Entries
    BY <1>0, <1>6, JobTyped DEF JobTypes, Tell, HandlerJobs, DecideJobs, Entries, Statuses
  <2>2. JobTypes'
    BY <1>0, <1>6, FinishTyped DEF Tell
  <2>3. ViewTypes'
    <3>1. \A c \in Consoles : Noted(c, job[w].key, job[w].st) \in [Keys -> Entries]
      BY <1>0, <2>1 DEF ViewTypes, Noted
    <3>2. QED
      BY <1>0, <1>6, <3>1 DEF ViewTypes, Tell
  <2>4. LinkTypes' /\ HistTypes' /\ StoreTypes'
    BY <1>0, <1>6 DEF LinkTypes, HistTypes, StoreTypes, Tell, linkVars, agentVars
  <2>5. QED
    BY <1>1, <2>2, <2>3, <2>4 DEF TypeOK, StoreTypes, LinkTypes, JobTypes, ViewTypes, CountTypes, HistTypes
<1>7. CASE ReadRow(w)
  <2>1. job[w] \in DecideJobs /\ db[job[w].key] \in Entries
    BY <1>0, <1>7, JobTyped DEF JobTypes, StoreTypes, ReadRow, HandlerJobs, DecideJobs
  <2>2. [job[w] EXCEPT !.row = db[job[w].key], !.stage = "relock"] \in DecideJobs
    BY <2>1 DEF DecideJobs
  <2>3. JobTypes'
    BY <1>0, <1>7, <2>1, <2>2, JobsAreBusy DEF JobTypes, ReadRow
  <2>4. LinkTypes' /\ HistTypes' /\ StoreTypes' /\ ViewTypes'
    BY <1>0, <1>7 DEF LinkTypes, HistTypes, StoreTypes, ViewTypes, ReadRow, linkVars, agentVars, consoleVars
  <2>5. QED
    BY <1>1, <2>3, <2>4 DEF TypeOK, StoreTypes, LinkTypes, JobTypes, ViewTypes, CountTypes, HistTypes
<1>8. CASE CacheRow(w)
  <2>1. job[w] \in DecideJobs
    BY <1>0, <1>8, JobTyped DEF JobTypes, CacheRow, HandlerJobs
  <2>2. job[w].key \in Keys /\ job[w].row \in Entries /\ job[w].st \in Entries
    BY <2>1 DEF DecideJobs, Entries, Statuses
  <2>3. JobTypes'
    <3>1. [job[w] EXCEPT !.stage = "db", !.conn = conn] \in DecideJobs
      BY <1>0, <2>1 DEF DecideJobs, LinkTypes
    <3>2. job' = [job EXCEPT ![w].stage = "db", ![w].conn = conn] \/ Finish(w)
      BY <1>8 DEF CacheRow
    <3>3. QED
      BY <1>0, <3>1, <3>2, FinishTyped, JobsAreBusy DEF JobTypes
  <2>4. StoreTypes'
    BY <1>0, <1>8, <2>2 DEF StoreTypes, CacheRow, agentVars
  <2>5. LinkTypes' /\ HistTypes' /\ ViewTypes'
    BY <1>0, <1>8, <2>2 DEF LinkTypes, HistTypes, ViewTypes, CacheRow, MarkRace, linkVars, consoleVars
  <2>6. QED
    BY <1>1, <2>3, <2>4, <2>5 DEF TypeOK, StoreTypes, LinkTypes, JobTypes, ViewTypes, CountTypes, HistTypes
<1>9. CASE Send(w)
  <2>1. job[w] \in DecideJobs
    BY <1>0, <1>9, JobTyped DEF JobTypes, Send, HandlerJobs
  <2>2. job[w].key \in Keys /\ [key |-> job[w].key, st |-> job[w].st] \in Orders
    BY <2>1 DEF DecideJobs, Orders
  <2>3. JobTypes'
    BY <1>0, <1>9, <2>1, GotoTyped DEF Send
  <2>4. StoreTypes'
    BY <1>0, <1>9, <2>2 DEF StoreTypes, Send, agentVars
  <2>5. down' \in Seq(Orders) /\ lost' \subseteq Keys
    <3>1. \A o \in Orders : Append(down, o) \in Seq(Orders)
      BY <1>0 DEF LinkTypes
    <3>2. Append(down, [key |-> job[w].key, st |-> job[w].st]) \in Seq(Orders)
      BY <2>2, <3>1, Zenon
    <3>3. down' \in Seq(Orders)
      BY <1>0, <1>9, <3>2, Zenon DEF LinkTypes, Send
    <3>4. QED
      BY <1>0, <1>9, <2>2, <3>3 DEF HistTypes, Send
  <2>6. LinkTypes' /\ HistTypes' /\ ViewTypes'
    BY <1>0, <1>9, <2>5 DEF LinkTypes, HistTypes, ViewTypes, Send, consoleVars
  <2>7. QED
    BY <1>1, <2>3, <2>4, <2>6 DEF TypeOK, StoreTypes, LinkTypes, JobTypes, ViewTypes, CountTypes, HistTypes
<1>10. QED
  BY <1>2, <1>3, <1>4, <1>5, <1>6, <1>7, <1>8, <1>9 DEF Serve

LEMMA DecideTyped ==
    ASSUME TypeOK, NEW w \in Workers, NEW k \in Keys, NEW st \in Decisions,
           Decide(w, k, st) \/ DecideUncached(w, k, st)
    PROVE  TypeOK'
<1>0. StoreTypes /\ LinkTypes /\ JobTypes /\ ViewTypes /\ CountTypes /\ HistTypes
  BY TypeParts
<1>1. JobTypes' /\ CountTypes'
  BY <1>0, AskTyped DEF Decide, DecideUncached
<1>2. StoreTypes'
  BY <1>0 DEF StoreTypes, Decide, DecideUncached, Ask, Entries, Statuses, agentVars
<1>3. LinkTypes' /\ HistTypes' /\ ViewTypes'
  BY <1>0 DEF LinkTypes, HistTypes, ViewTypes, Decide, DecideUncached, Ask, MarkRace, linkVars, consoleVars
<1>4. QED
  BY <1>1, <1>2, <1>3 DEF TypeOK, StoreTypes, LinkTypes, JobTypes, ViewTypes, CountTypes, HistTypes

LEMMA InitTyped == Init => TypeOK
<1> SUFFICES ASSUME Init PROVE TypeOK
  OBVIOUS
<1>1. StoreTypes /\ JobTypes
  BY Numbers DEF Init, StoreTypes, JobTypes, Entries, Statuses
<1>2. LinkTypes /\ ViewTypes /\ CountTypes /\ HistTypes
  BY Numbers DEF Init, LinkTypes, ViewTypes, CountTypes, HistTypes, Entries, Statuses
<1>3. QED
  BY <1>1, <1>2, TypeParts

LEMMA NextTyped == ASSUME TypeOK, [Next]_vars PROVE TypeOK'
<1>1. CASE UNCHANGED vars
  BY <1>1 DEF TypeOK, vars, agentVars, linkVars, consoleVars, countVars
<1>2. QED
  BY <1>1, AgentTyped, LinkTyped, ConsoleTyped, ServeTyped, DecideTyped DEF Next

-------------------------------------------------------------------------------
(* What the steps of a handler do to the handlers *)

LEMMA Moves ==
    ASSUME JobTypes, NEW w \in Workers, Busy(w), NEW stage, Goto(w, stage)
    PROVE  /\ Busy(w)' /\ job'[w].stage = stage
           /\ job'[w].kind = job[w].kind /\ job'[w].key = job[w].key /\ job'[w].st = job[w].st
           /\ \A v \in Workers : v # w => job'[v] = job[v]
<1>1. job[w] \in HandlerJobs \/ job[w] \in DecideJobs
  BY JobTyped DEF JobTypes
<1>2. job'[w] = [job[w] EXCEPT !.stage = stage]
  BY DEF JobTypes, Goto
<1>3. job[w].kind # "idle" /\ job'[w].kind = job[w].kind
  BY <1>1, <1>2 DEF HandlerJobs, DecideJobs
<1>4. Busy(w)'
  BY <1>3 DEF Busy, Idle
<1>5. job'[w].stage = stage /\ job'[w].key = job[w].key /\ job'[w].st = job[w].st
  BY <1>1, <1>2 DEF HandlerJobs, DecideJobs
<1>6. \A v \in Workers : v # w => job'[v] = job[v]
  BY DEF JobTypes, Goto
<1>7. QED
  BY <1>3, <1>4, <1>5, <1>6

LEMMA Finishes ==
    ASSUME JobTypes, NEW w \in Workers, Finish(w)
    PROVE  ~Busy(w)' /\ \A v \in Workers : v # w => job'[v] = job[v]
  BY DEF JobTypes, Finish, Busy

LEMMA Starts ==
    ASSUME JobTypes, NEW w \in Workers, NEW k \in Keys, NEW st, NEW stage, Ask(w, k, st, stage)
    PROVE  /\ ~Busy(w) /\ Busy(w)' /\ job'[w].stage = stage
           /\ job'[w].kind = "decide" /\ job'[w].key = k /\ job'[w].st = st
           /\ \A v \in Workers : v # w => job'[v] = job[v]
<1>1. job'[w] = [kind |-> "decide", key |-> k, stage |-> stage, st |-> st, conn |-> conn,
                 row |-> "none"]
  BY DEF JobTypes, Ask
<1>2. Busy(w)'
  BY <1>1 DEF Busy, Idle
<1>3. QED
  BY <1>1, <1>2 DEF JobTypes, Ask, Free

LEMMA Receives ==
    ASSUME JobTypes, LinkTypes, NEW w \in Workers, Receive(w)
    PROVE  /\ ~Busy(w) /\ job'[w].stage = "lock" /\ job'[w].st = "pending"
           /\ job'[w].kind \in {"new", "closed"}
           /\ up[1] = [t |-> job'[w].kind, key |-> job'[w].key]
           /\ \A v \in Workers : v # w => job'[v] = job[v]
<1>1. Head(up) = up[1] /\ up[1] \in Messages
  BY DEF LinkTypes, Receive
<1>2. job'[w] = [kind |-> up[1].t, key |-> up[1].key, stage |-> "lock", st |-> "pending",
                 conn |-> conn]
  BY <1>1 DEF JobTypes, Receive
<1>3. up[1] = [t |-> up[1].t, key |-> up[1].key] /\ up[1].t \in {"new", "closed"}
  BY <1>1 DEF Messages
<1>4. QED
  BY <1>2, <1>3 DEF JobTypes, Receive, Free

(* onApprovalClosed goes on to the row, or says again what the item is. *)
LEMMA Closes ==
    ASSUME JobTypes, NEW w \in Workers, CacheClosed(w)
    PROVE  /\ job[w] \in HandlerJobs /\ Busy(w)' /\ job'[w].kind = "closed"
           /\ job'[w].key = job[w].key
           /\ IF cache[job[w].key] = "pending"
                THEN job'[w].stage = "db" /\ job'[w].st = "closed"
                ELSE job'[w].stage = "tell"
           /\ \A v \in Workers : v # w => job'[v] = job[v]
<1>1. job[w] \in HandlerJobs
  BY DEF JobTypes, CacheClosed, Jobs, HandlerJobs, Idle
<1>2. \E st, stage :
         /\ job' = [job EXCEPT ![w].st = st, ![w].stage = stage]
         /\ IF cache[job[w].key] = "pending" THEN stage = "db" /\ st = "closed" ELSE stage = "tell"
  BY DEF CacheClosed
<1>3. PICK st, stage :
         /\ job' = [job EXCEPT ![w].st = st, ![w].stage = stage]
         /\ IF cache[job[w].key] = "pending" THEN stage = "db" /\ st = "closed" ELSE stage = "tell"
  BY <1>2
<1>4. job'[w] = [job[w] EXCEPT !.st = st, !.stage = stage]
  BY <1>1, <1>3 DEF JobTypes
<1>5. /\ job'[w].kind = "closed" /\ job'[w].key = job[w].key
      /\ job'[w].st = st /\ job'[w].stage = stage
  BY <1>1, <1>4 DEF HandlerJobs, CacheClosed
<1>6. Busy(w)'
  BY <1>5 DEF Busy, Idle
<1>7. \A v \in Workers : v # w => job'[v] = job[v]
  BY <1>3 DEF JobTypes
<1>8. QED
  BY <1>1, <1>3, <1>5, <1>6, <1>7

LEMMA Reads ==
    ASSUME JobTypes, NEW w \in Workers, ReadRow(w)
    PROVE  /\ Busy(w)' /\ job'[w].stage = "relock" /\ job'[w].row = db[job[w].key]
           /\ job'[w].kind = "decide" /\ job'[w].key = job[w].key
           /\ \A v \in Workers : v # w => job'[v] = job[v]
<1>1. job[w] \in DecideJobs
  BY JobTyped DEF JobTypes, ReadRow, HandlerJobs
<1>2. job'[w] = [job[w] EXCEPT !.row = db[job[w].key], !.stage = "relock"]
  BY <1>1 DEF JobTypes, ReadRow
<1>3. /\ job'[w].stage = "relock" /\ job'[w].row = db[job[w].key]
      /\ job'[w].kind = "decide" /\ job'[w].key = job[w].key
  BY <1>1, <1>2 DEF DecideJobs
<1>4. Busy(w)'
  BY <1>3 DEF Busy, Idle
<1>5. QED
  BY <1>3, <1>4 DEF JobTypes, ReadRow

(* Handlers keep the status their message gave them. *)
LEMMA StatusKept == ASSUME TypeOK, StatusSaid, [Next]_vars PROVE StatusSaid'
<1>0. JobTypes /\ LinkTypes
  BY TypeParts
<1>1. ASSUME NEW w \in Workers, \A v \in Workers : v # w => job'[v] = job[v],
             job'[w].kind = "new" => job'[w].st = "pending",
             job'[w].kind = "closed" /\ job'[w].stage = "db" => job'[w].st = "closed"
      PROVE  StatusSaid'
  BY <1>1 DEF StatusSaid
<1>2. ASSUME job' \in {job, [w \in Workers |-> Idle]} PROVE StatusSaid'
  BY <1>2 DEF StatusSaid, Idle
<1>3. ASSUME NEW w \in Workers, Serve(w) PROVE StatusSaid'
  <2>1. CASE Receive(w)
    <3>1. /\ job'[w].stage = "lock" /\ job'[w].st = "pending"
          /\ \A v \in Workers : v # w => job'[v] = job[v]
      BY <1>0, <2>1, Receives
    <3>2. QED
      BY <1>1, <3>1
  <2>2. CASE CacheNew(w)
    <3>1. Busy(w) /\ Goto(w, "db") /\ job[w].kind = "new"
      BY <2>2 DEF CacheNew, Busy, Idle
    <3>2. job'[w].kind = "new" /\ job'[w].st = job[w].st
      BY <1>0, <3>1, Moves
    <3>3. \A v \in Workers : v # w => job'[v] = job[v]
      BY <1>0, <3>1, Moves
    <3>4. QED
      BY <1>1, <3>1, <3>2, <3>3 DEF StatusSaid
  <2>3. CASE CacheClosed(w)
    <3>1. /\ job'[w].kind = "closed" /\ job'[w].stage = "db" => job'[w].st = "closed"
          /\ job'[w].kind = "closed"
          /\ \A v \in Workers : v # w => job'[v] = job[v]
      BY <1>0, <2>3, Closes
    <3>2. QED
      BY <1>1, <3>1
  <2>4. ASSUME Persist(w) \/ Send(w) PROVE StatusSaid'
    <3>1. PICK stage \in {"send", "tell"} : Busy(w) /\ Goto(w, stage)
      BY <2>4 DEF Persist, Send
    <3>2. job'[w].stage # "db" /\ job'[w].kind = job[w].kind /\ job'[w].st = job[w].st
      BY <1>0, <3>1, Moves
    <3>3. \A v \in Workers : v # w => job'[v] = job[v]
      BY <1>0, <3>1, Moves
    <3>4. QED
      BY <1>1, <3>2, <3>3 DEF StatusSaid
  <2>5. CASE ReadRow(w)
    <3>1. job'[w].kind = "decide" /\ \A v \in Workers : v # w => job'[v] = job[v]
      BY <1>0, <2>5, Reads
    <3>2. QED
      BY <1>1, <3>1
  <2>6. ASSUME Tell(w) \/ CacheRow(w) PROVE StatusSaid'
    <3>1. CASE Finish(w)
      <4>1. job'[w] = Idle /\ \A v \in Workers : v # w => job'[v] = job[v]
        BY <1>0, <3>1, Finishes DEF Busy
      <4>2. QED
        BY <1>1, <4>1 DEF Idle
    <3>2. CASE CacheRow(w) /\ job' = [job EXCEPT ![w].stage = "db", ![w].conn = conn]
      <4>1. job[w] \in DecideJobs
        BY <1>0, <3>2, JobTyped DEF JobTypes, CacheRow, HandlerJobs
      <4>2. job'[w].kind = "decide" /\ \A v \in Workers : v # w => job'[v] = job[v]
        BY <1>0, <3>2, <4>1 DEF JobTypes, DecideJobs
      <4>3. QED
        BY <1>1, <4>2
    <3>3. QED
      BY <2>6, <3>1, <3>2 DEF Tell, CacheRow
  <2>7. QED
    BY <1>3, <2>1, <2>2, <2>3, <2>4, <2>5, <2>6 DEF Serve
<1>4. ASSUME NEW w \in Workers, NEW k \in Keys, NEW st \in Decisions,
             Decide(w, k, st) \/ DecideUncached(w, k, st)
      PROVE  StatusSaid'
  <2>1. PICK stage \in {"db", "row"} : Ask(w, k, st, stage)
    BY <1>4 DEF Decide, DecideUncached
  <2>2. job'[w].kind = "decide"
    BY <1>0, <2>1, Starts
  <2>3. \A v \in Workers : v # w => job'[v] = job[v]
    BY <1>0, <2>1, Starts
  <2>4. QED
    BY <1>1, <2>2, <2>3
<1>5. CASE UNCHANGED vars
  BY <1>2, <1>5 DEF vars
<1>6. ASSUME (\E k \in Keys : Raise(k) \/ Settle(k)) \/ Apply \/ Break \/ Unregister \/ Connect
             \/ AgentRestart \/ RelayRestart \/ (\E c \in Consoles : Join(c) \/ List(c) \/ Leave(c))
      PROVE  StatusSaid'
  <2>1. job' \in {job, [w \in Workers |-> Idle]}
    BY <1>6 DEF Raise, Settle, Apply, Break, Unregister, Connect, AgentRestart, RelayRestart,
                Join, List, Leave
  <2>2. QED
    BY <1>2, <2>1
<1>7. QED
  BY <1>3, <1>4, <1>5, <1>6 DEF Next

-------------------------------------------------------------------------------
(* Tidiness *)

LEMMA HistoryGrows == ASSUME [Next]_vars PROVE raced \subseteq raced' /\ lost \subseteq lost'
<1>1. CASE UNCHANGED vars
  BY <1>1 DEF vars
<1>2. ASSUME NEW k \in Keys, Raise(k) \/ Settle(k) PROVE raced \subseteq raced' /\ lost \subseteq lost'
  BY <1>2 DEF Raise, Settle, Report
<1>3. ASSUME NEW w \in Workers, Serve(w) PROVE raced \subseteq raced' /\ lost \subseteq lost'
  BY <1>3 DEF Serve, Receive, CacheNew, CacheClosed, Persist, Tell, ReadRow, CacheRow, Send, MarkRace
<1>4. ASSUME NEW w \in Workers, NEW k \in Keys, NEW st \in Decisions,
             Decide(w, k, st) \/ DecideUncached(w, k, st)
      PROVE  raced \subseteq raced' /\ lost \subseteq lost'
  BY <1>4 DEF Decide, DecideUncached, Ask, MarkRace
<1>5. QED
  BY <1>1, <1>2, <1>3, <1>4
  DEF Next, Apply, Break, Unregister, Connect, AgentRestart, RelayRestart, Join, List, Leave

(* Only handlers that change the item, or read its row, matter. *)
LEMMA TidyKept ==
    ASSUME NEW k, Tidy(k),
           \A v \in Workers : Changing(v, k) \/ Changing(v, k)' \/ Reading(v, k)'
                                  => job'[v] = job[v],
           cache'[k] = cache[k], db'[k] = db[k], sent'[k] = sent[k]
    PROVE  Tidy(k)'
<1>1. \A v \in Workers : Changing(v, k)' => Changing(v, k) /\ job'[v] = job[v]
  BY DEF Changing, On, Busy
<1>2. \A v \in Workers : Reading(v, k)' => Reading(v, k) /\ job'[v] = job[v]
  BY DEF Reading, On, Busy
<1>3. OneChanges(k)'
  BY <1>1, <1>2 DEF Tidy, OneChanges
<1>4. Half(k)'
  BY <1>1 DEF Tidy, Half
<1>5. Agrees(k)'
  <2>1. \A v \in Workers : On(v, k) /\ job[v].stage = "db" => (On(v, k) /\ job[v].stage = "db")'
    BY DEF Changing, On, Busy
  <2>2. QED
    BY <2>1 DEF Tidy, Agrees
<1>6. RowIsRead(k)'
  BY <1>2 DEF Tidy, RowIsRead
<1>7. Unsent(k)'
  BY DEF Tidy, Unsent
<1>8. QED
  BY <1>3, <1>4, <1>5, <1>6, <1>7 DEF Tidy

(* A handler that is alone at the item leaves no change half done. *)
LEMMA TidyAlone ==
    ASSUME NEW k,
           \A v \in Workers : ~Changing(v, k)' /\ ~Reading(v, k)',
           (db[k] = "pending" <=> cache[k] = "pending")', Unsent(k)'
    PROVE  Tidy(k)'
<1>1. OneChanges(k)' /\ Half(k)' /\ RowIsRead(k)'
  BY DEF OneChanges, Half, RowIsRead
<1>2. QED
  BY <1>1 DEF Tidy, Agrees

(* A handler that has changed the cache of an item no other is at. *)
LEMMA TidyBegun ==
    ASSUME NEW w \in Workers, NEW k,
           \A v \in Workers : v # w => ~On(v, k)',
           Changing(w, k)', (job[w].stage = "db")', sent'[k] = 0, cache'[k] = job'[w].st,
           job'[w].kind = "decide" => db'[k] = "pending"
    PROVE  Tidy(k)'
<1>1. \A v \in Workers : Changing(v, k)' \/ Reading(v, k)' => v = w
  BY DEF Changing, Reading
<1>2. ~Reading(w, k)'
  BY DEF Reading
<1>3. OneChanges(k)' /\ RowIsRead(k)'
  BY <1>1, <1>2 DEF OneChanges, RowIsRead
<1>4. Half(k)'
  BY <1>1 DEF Half
<1>5. Agrees(k)'
  BY DEF Agrees, Changing
<1>6. Unsent(k)'
  BY DEF Unsent
<1>7. QED
  BY <1>3, <1>4, <1>5, <1>6 DEF Tidy

(* An item whose only step is another item's. *)
LEMMA TidyElsewhere ==
    ASSUME NEW w \in Workers, NEW k, Tidy(k), ~On(w, k), ~On(w, k)',
           \A v \in Workers : v # w => job'[v] = job[v],
           cache'[k] = cache[k], db'[k] = db[k], sent'[k] = sent[k]
    PROVE  Tidy(k)'
<1>1. ~Changing(w, k) /\ ~Changing(w, k)' /\ ~Reading(w, k)'
  BY DEF Changing, Reading
<1>2. QED
  BY <1>1, TidyKept

(* A row is read only when nothing changes it, and then agrees. *)
LEMMA ReadingIsAlone ==
    ASSUME NEW w \in Workers, NEW k, Tidy(k), Reading(w, k)
    PROVE  /\ \A v \in Workers : ~Changing(v, k)
           /\ cache[k] = "none" /\ db[k] # "pending"
<1>1. job[w].stage \in {"row", "relock"} /\ On(w, k)
  BY DEF Reading
<1>2. \A v \in Workers : ~Changing(v, k)
  <2>1. ~Changing(w, k)
    BY <1>1 DEF Changing
  <2>2. QED
    BY <2>1 DEF Tidy, OneChanges
<1>3. cache[k] = "none"
  BY DEF Tidy, RowIsRead
<1>4. db[k] # "pending"
  BY <1>2, <1>3 DEF Tidy, Agrees, Changing
<1>5. QED
  BY <1>2, <1>3, <1>4

LEMMA ServeTidy ==
    ASSUME TypeOK, StatusSaid, AllTidy, NEW w \in Workers, Serve(w), NEW k \in Keys \ raced'
    PROVE  Tidy(k)'
<1>0. StoreTypes /\ LinkTypes /\ JobTypes
  BY TypeParts
<1>1. Tidy(k) /\ k \in Keys
  <2>1. raced \subseteq raced'
    BY HistoryGrows DEF Next
  <2>2. QED
    BY <2>1 DEF AllTidy
<1>2. CASE Receive(w)
  <2>1. ~Busy(w) /\ job'[w].stage = "lock" /\ \A v \in Workers : v # w => job'[v] = job[v]
    BY <1>0, <1>2, Receives
  <2>2. ~Changing(w, k) /\ ~Changing(w, k)' /\ ~Reading(w, k)'
    BY <2>1 DEF Changing, Reading, On
  <2>3. cache' = cache /\ db' = db /\ sent' = sent
    BY <1>2 DEF Receive
  <2>4. QED
    BY <1>1, <2>1, <2>2, <2>3, TidyKept
<1>3. CASE CacheNew(w)
  <2>1. Busy(w) /\ Goto(w, "db") /\ job[w].kind = "new"
    BY <1>3 DEF CacheNew, Busy, Idle
  <2>2. /\ Busy(w)' /\ job'[w].stage = "db" /\ job'[w].kind = "new" /\ job'[w].st = "pending"
        /\ job'[w].key = job[w].key
    BY <1>0, <2>1, Moves DEF StatusSaid
  <2>3. \A v \in Workers : v # w => job'[v] = job[v]
    BY <1>0, <2>1, Moves
  <2>4. CASE job[w].key = k
    <3>1. ~Races(w, k)
      BY <1>3, <2>4 DEF CacheNew
    <3>2. \A v \in Workers : v # w => ~On(v, k)'
      BY <2>3, <3>1 DEF Races, On, Busy
    <3>3. sent'[k] = 0 /\ cache'[k] = "pending"
      BY <1>0, <1>1, <1>3, <2>4 DEF CacheNew, StoreTypes
    <3>4. Changing(w, k)'
      BY <2>2, <2>4 DEF Changing, On
    <3>5. QED
      BY <2>2, <3>2, <3>3, <3>4, TidyBegun
  <2>5. CASE job[w].key # k
    <3>1. cache'[k] = cache[k] /\ db'[k] = db[k] /\ sent'[k] = sent[k]
      BY <1>0, <1>1, <1>3, <2>5 DEF CacheNew, StoreTypes
    <3>2. ~On(w, k) /\ ~On(w, k)'
      BY <2>2, <2>5 DEF On
    <3>3. QED
      BY <1>1, <2>3, <3>1, <3>2, TidyElsewhere
  <2>6. QED
    BY <2>4, <2>5
<1>4. CASE CacheClosed(w)
  <2>1. /\ Busy(w)' /\ job'[w].kind = "closed" /\ job'[w].key = job[w].key
        /\ IF cache[job[w].key] = "pending"
             THEN job'[w].stage = "db" /\ job'[w].st = "closed"
             ELSE job'[w].stage = "tell"
    BY <1>0, <1>4, Closes
  <2>2. \A v \in Workers : v # w => job'[v] = job[v]
    BY <1>0, <1>4, Closes
  <2>3. db' = db /\ sent' = sent
    BY <1>4 DEF CacheClosed
  <2>4. CASE job[w].key = k /\ cache[k] = "pending"
    <3>1. ~Races(w, k)
      BY <1>4, <2>4 DEF CacheClosed
    <3>2. \A v \in Workers : v # w => ~On(v, k)'
      BY <2>2, <3>1 DEF Races, On, Busy
    <3>3. sent'[k] = 0
      BY <1>1, <2>3, <2>4 DEF Tidy, Unsent
    <3>4. cache'[k] = "closed"
      BY <1>0, <1>1, <1>4, <2>4 DEF CacheClosed, StoreTypes
    <3>5. Changing(w, k)'
      BY <2>1, <2>4 DEF Changing, On
    <3>6. QED
      BY <2>1, <2>4, <3>2, <3>3, <3>4, <3>5, TidyBegun
  <2>5. CASE job[w].key = k /\ cache[k] # "pending"
    <3>1. cache' = cache
      BY <1>4, <2>5 DEF CacheClosed
    <3>2. ~Changing(w, k) /\ ~Changing(w, k)' /\ ~Reading(w, k)'
      BY <1>4, <2>1, <2>5 DEF Changing, Reading, CacheClosed
    <3>3. QED
      BY <1>1, <2>2, <2>3, <3>1, <3>2, TidyKept
  <2>6. CASE job[w].key # k
    <3>1. cache'[k] = cache[k]
      BY <1>0, <1>1, <1>4, <2>6 DEF CacheClosed, StoreTypes
    <3>2. ~On(w, k) /\ ~On(w, k)'
      BY <2>1, <2>6 DEF On
    <3>3. QED
      BY <1>1, <2>2, <2>3, <3>1, <3>2, TidyElsewhere
  <2>7. QED
    BY <2>4, <2>5, <2>6
<1>5. CASE Persist(w)
  <2>1. PICK stage \in {"send", "tell"} :
          Goto(w, stage) /\ (stage = "send" <=> job[w].kind = "decide")
    BY <1>5 DEF Persist
  <2>2. Busy(w) /\ job[w].stage = "db"
    BY <1>5 DEF Persist
  <2>3. /\ Busy(w)' /\ job'[w].stage = stage /\ job'[w].kind = job[w].kind
        /\ job'[w].st = job[w].st /\ job'[w].key = job[w].key
    BY <1>0, <2>1, <2>2, Moves
  <2>4. \A v \in Workers : v # w => job'[v] = job[v]
    BY <1>0, <2>1, <2>2, Moves
  <2>5. cache' = cache /\ sent' = sent
    BY <1>5 DEF Persist
  <2>6. CASE job[w].key = k
    <3>1. Changing(w, k)
      BY <2>2, <2>6 DEF Changing, On
    <3>2. \A v \in Workers : v # w => ~Changing(v, k)' /\ ~Reading(v, k)'
      <4>1. \A v \in Workers : v # w => ~Changing(v, k) /\ ~Reading(v, k)
        BY <1>1, <3>1 DEF Tidy, OneChanges
      <4>2. QED
        BY <2>4, <4>1 DEF Changing, Reading, On, Busy
    <3>3. ~Reading(w, k)'
      BY <2>3 DEF Reading
    <3>4. /\ sent[k] = 0 /\ cache[k] = job[w].st
          /\ job[w].kind = "decide" => db[k] = "pending"
      BY <1>1, <2>2, <3>1 DEF Tidy, Half
    <3>5. db'[k] = job[w].st \/ (job[w].kind # "new" /\ db[k] = "none" /\ db'[k] = "none")
      BY <1>0, <1>1, <1>5, <2>6 DEF Persist, StoreTypes, UpsertApproval, SetApprovalStatus
    <3>6. job[w].kind # "new" => job[w].st # "pending"
      <4>1. CASE job[w] \in HandlerJobs
        BY <2>2, <4>1 DEF StatusSaid, HandlerJobs
      <4>2. CASE job[w] \in DecideJobs
        BY <4>2 DEF DecideJobs, Decisions
      <4>3. QED
        BY <1>0, <2>2, <4>1, <4>2, JobTyped DEF JobTypes
    <3>7. db'[k] = "pending" <=> cache'[k] = "pending"
      BY <2>5, <3>4, <3>5, <3>6
    <3>8. OneChanges(k)' /\ RowIsRead(k)'
      BY <3>2, <3>3 DEF OneChanges, RowIsRead
    <3>9. Half(k)'
      <4>1. ASSUME Changing(w, k)' PROVE job[w].kind = "decide" /\ job'[w].stage = "send"
        BY <2>1, <2>3, <4>1 DEF Changing
      <4>2. job[w].kind = "decide" => db'[k] = job[w].st
        BY <3>4, <3>5
      <4>3. QED
        BY <2>3, <2>5, <3>2, <3>4, <4>1, <4>2 DEF Half
    <3>10. Agrees(k)' /\ Unsent(k)'
      BY <1>1, <2>5, <3>7 DEF Tidy, Agrees, Unsent
    <3>11. QED
      BY <3>8, <3>9, <3>10 DEF Tidy
  <2>7. CASE job[w].key # k
    <3>1. db'[k] = db[k]
      BY <1>0, <1>1, <1>5, <2>7 DEF Persist, StoreTypes, UpsertApproval, SetApprovalStatus
    <3>2. ~On(w, k) /\ ~On(w, k)'
      BY <2>3, <2>7 DEF On
    <3>3. QED
      BY <1>1, <2>4, <2>5, <3>1, <3>2, TidyElsewhere
  <2>8. QED
    BY <2>6, <2>7
<1>6. CASE Tell(w)
  <2>1. ~Busy(w)' /\ \A v \in Workers : v # w => job'[v] = job[v]
    BY <1>0, <1>6, Finishes DEF Tell
  <2>2. ~Changing(w, k) /\ ~Changing(w, k)' /\ ~Reading(w, k)'
    BY <1>6, <2>1 DEF Changing, Reading, On, Tell
  <2>3. cache' = cache /\ db' = db /\ sent' = sent
    BY <1>6 DEF Tell
  <2>4. QED
    BY <1>1, <2>1, <2>2, <2>3, TidyKept
<1>7. CASE ReadRow(w)
  <2>1. /\ Busy(w)' /\ job'[w].stage = "relock" /\ job'[w].row = db[job[w].key]
        /\ job'[w].key = job[w].key
        /\ \A v \in Workers : v # w => job'[v] = job[v]
    BY <1>0, <1>7, Reads
  <2>2. cache' = cache /\ db' = db /\ sent' = sent
    BY <1>7 DEF ReadRow
  <2>3. CASE job[w].key = k
    <3>1. Reading(w, k)
      BY <1>7, <2>3 DEF ReadRow, Reading, On
    <3>2. \A v \in Workers : ~Changing(v, k)' /\ ~Changing(v, k)
      <4>1. \A v \in Workers : ~Changing(v, k)
        BY <1>1, <3>1, ReadingIsAlone
      <4>2. ~Changing(w, k)'
        BY <2>1 DEF Changing
      <4>3. QED
        BY <2>1, <4>1, <4>2 DEF Changing, On, Busy
    <3>3. OneChanges(k)' /\ Half(k)'
      BY <3>2 DEF OneChanges, Half
    <3>4. Agrees(k)' /\ Unsent(k)'
      <4>1. db[k] = "pending" <=> cache[k] = "pending"
        BY <1>1, <3>2 DEF Tidy, Agrees, Changing
      <4>2. QED
        BY <1>1, <2>2, <4>1 DEF Tidy, Agrees, Unsent
    <3>5. RowIsRead(k)'
      <4>1. ASSUME NEW v \in Workers, v # w, Reading(v, k)' PROVE Reading(v, k) /\ job'[v] = job[v]
        BY <2>1, <4>1 DEF Reading, On, Busy
      <4>2. cache[k] = "none"
        BY <1>1, <3>1 DEF Tidy, RowIsRead
      <4>3. QED
        BY <1>1, <2>1, <2>2, <2>3, <4>1, <4>2 DEF Tidy, RowIsRead
    <3>6. QED
      BY <3>3, <3>4, <3>5 DEF Tidy
  <2>4. CASE job[w].key # k
    <3>1. ~On(w, k) /\ ~On(w, k)'
      BY <2>1, <2>4 DEF On
    <3>2. QED
      BY <1>1, <2>1, <2>2, <3>1, TidyElsewhere
  <2>5. QED
    BY <2>3, <2>4
<1>8. CASE CacheRow(w)
  <2>1. db' = db /\ sent' = sent
    BY <1>8 DEF CacheRow
  <2>2. CASE job[w].key = k
    <3>1. Reading(w, k)
      BY <1>8, <2>2 DEF CacheRow, Reading, On
    <3>2. job[w].row = db[k] /\ db[k] # "pending"
      BY <1>1, <1>8, <3>1, ReadingIsAlone DEF Tidy, RowIsRead, CacheRow
    <3>3. Finish(w) /\ cache' = [cache EXCEPT ![k] = db[k]]
      BY <1>8, <2>2, <3>2 DEF CacheRow, Decidable
    <3>4. ~Busy(w)' /\ \A v \in Workers : v # w => job'[v] = job[v]
      BY <1>0, <3>3, Finishes
    <3>5. \A v \in Workers : ~On(v, k)'
      <4>1. ~Races(w, k)
        BY <1>8, <2>2 DEF CacheRow, MarkRace
      <4>2. QED
        BY <3>4, <4>1 DEF Races, On, Busy
    <3>6. cache'[k] = db[k]
      BY <1>0, <1>1, <3>3 DEF StoreTypes
    <3>7. Unsent(k)'
      BY <1>1, <2>1, <3>2, <3>6 DEF Tidy, Unsent
    <3>8. QED
      BY <2>1, <3>5, <3>6, <3>7, TidyAlone DEF Changing, Reading
  <2>3. CASE job[w].key # k
    <3>1. cache'[k] = cache[k]
      BY <1>0, <1>1, <1>8, <2>3 DEF CacheRow, StoreTypes
    <3>2. ~On(w, k) /\ ~On(w, k)' /\ \A v \in Workers : v # w => job'[v] = job[v]
      <4>1. CASE Finish(w)
        BY <1>0, <2>3, <4>1, Finishes DEF On
      <4>2. CASE job' = [job EXCEPT ![w].stage = "db", ![w].conn = conn]
        <5>1. job[w] \in DecideJobs
          BY <1>0, <1>8, JobTyped DEF JobTypes, CacheRow, HandlerJobs
        <5>2. job'[w].key = job[w].key
          BY <1>0, <4>2, <5>1 DEF JobTypes, DecideJobs
        <5>3. QED
          BY <1>0, <2>3, <4>2, <5>2 DEF JobTypes, On
      <4>3. QED
        BY <1>8, <4>1, <4>2 DEF CacheRow
    <3>3. QED
      BY <1>1, <2>1, <3>1, <3>2, TidyElsewhere
  <2>4. QED
    BY <2>2, <2>3
<1>9. CASE Send(w)
  <2>1. Busy(w) /\ job[w].stage = "send" /\ Goto(w, "tell")
    BY <1>9 DEF Send
  <2>2. Busy(w)' /\ job'[w].stage = "tell" /\ job'[w].key = job[w].key
    BY <1>0, <2>1, Moves
  <2>3. \A v \in Workers : v # w => job'[v] = job[v]
    BY <1>0, <2>1, Moves
  <2>4. cache' = cache /\ db' = db
    BY <1>9 DEF Send
  <2>5. CASE job[w].key = k
    <3>1. Changing(w, k)
      BY <2>1, <2>5 DEF Changing, On
    <3>2. \A v \in Workers : ~Changing(v, k)' /\ ~Reading(v, k)'
      <4>1. \A v \in Workers : v # w => ~Changing(v, k) /\ ~Reading(v, k)
        BY <1>1, <3>1 DEF Tidy, OneChanges
      <4>2. ~Changing(w, k)' /\ ~Reading(w, k)'
        BY <2>2 DEF Changing, Reading
      <4>3. QED
        BY <2>3, <4>1, <4>2 DEF Changing, Reading, On, Busy
    <3>3. job[w].st \in Decisions /\ job[w].kind = "decide"
      BY <1>0, <2>1, JobTyped DEF JobTypes, HandlerJobs, DecideJobs
    <3>4. sent[k] = 0 /\ cache[k] = job[w].st /\ db[k] = job[w].st
      BY <1>1, <2>1, <3>1, <3>3 DEF Tidy, Half
    <3>5. sent'[k] = 1
      BY <1>0, <1>1, <1>9, <2>5, <3>4 DEF Send, StoreTypes
    <3>6. cache'[k] # "pending" /\ db'[k] # "pending"
      BY <2>4, <3>3, <3>4 DEF Decisions
    <3>7. QED
      BY <3>2, <3>5, <3>6, TidyAlone DEF Unsent
  <2>6. CASE job[w].key # k
    <3>1. sent'[k] = sent[k]
      BY <1>0, <1>1, <1>9, <2>6 DEF Send, StoreTypes
    <3>2. ~On(w, k) /\ ~On(w, k)'
      BY <2>2, <2>6 DEF On
    <3>3. QED
      BY <1>1, <2>3, <2>4, <3>1, <3>2, TidyElsewhere
  <2>7. QED
    BY <2>5, <2>6
<1>10. QED
  BY <1>2, <1>3, <1>4, <1>5, <1>6, <1>7, <1>8, <1>9 DEF Serve

LEMMA DecideTidy ==
    ASSUME TypeOK, AllTidy, NEW w \in Workers, NEW j \in Keys, NEW st \in Decisions,
           Decide(w, j, st) \/ DecideUncached(w, j, st), NEW k \in Keys \ raced'
    PROVE  Tidy(k)'
<1>0. StoreTypes /\ LinkTypes /\ JobTypes
  BY TypeParts
<1>1. raced \subseteq raced' /\ Tidy(k) /\ k \in Keys
  <2>1. raced \subseteq raced'
    BY DEF Decide, DecideUncached, Ask, MarkRace
  <2>2. QED
    BY <2>1 DEF AllTidy
<1>2. PICK stage \in {"db", "row"} :
        Ask(w, j, st, stage) /\ (stage = "db" <=> Decide(w, j, st))
  BY DEF Decide, DecideUncached
<1>3. ~Busy(w) /\ Busy(w)' /\ job'[w].stage = stage /\ job'[w].kind = "decide"
      /\ job'[w].key = j /\ job'[w].st = st
  BY <1>0, <1>2, Starts
<1>4. \A v \in Workers : v # w => job'[v] = job[v]
  BY <1>0, <1>2, Starts
<1>5. db' = db /\ sent' = sent
  BY <1>2 DEF Ask
<1>6. CASE j # k
  <2>1. cache'[k] = cache[k]
    BY <1>0, <1>1, <1>6 DEF Decide, DecideUncached, StoreTypes
  <2>2. ~On(w, k) /\ ~On(w, k)'
    BY <1>3, <1>6 DEF On
  <2>3. QED
    BY <1>1, <1>4, <1>5, <2>1, <2>2, TidyElsewhere
<1>7. CASE j = k /\ Decide(w, j, st)
  <2>1. ~Races(w, k) /\ cache[k] = "pending" /\ cache'[k] = st
    BY <1>0, <1>1, <1>7 DEF Decide, MarkRace, Decidable, StoreTypes
  <2>2. \A v \in Workers : ~On(v, k) /\ (v # w => ~On(v, k)')
    BY <1>3, <1>4, <2>1 DEF Races, On, Busy
  <2>3. db[k] = "pending" /\ sent[k] = 0
    BY <1>1, <2>1, <2>2 DEF Tidy, Agrees, Unsent
  <2>4. Changing(w, k)'
    BY <1>2, <1>3, <1>7 DEF Changing, On
  <2>5. QED
    BY <1>2, <1>3, <1>5, <1>7, <2>1, <2>2, <2>3, <2>4, TidyBegun
<1>8. CASE j = k /\ ~Decide(w, j, st)
  <2>1. cache[k] = "none" /\ cache' = cache /\ stage = "row"
    BY <1>2, <1>8 DEF DecideUncached
  <2>2. \A v \in Workers : ~Changing(v, k)
    <3>1. ASSUME NEW v \in Workers, Changing(v, k) PROVE FALSE
      <4>1. job[v].st \in Statuses
        BY <1>0, <3>1, JobTyped
        DEF JobTypes, Changing, On, HandlerJobs, DecideJobs, Statuses
      <4>2. QED
        BY <1>1, <2>1, <3>1, <4>1 DEF Tidy, Half, Statuses, Decisions
    <3>2. QED
      BY <3>1
  <2>3. \A v \in Workers : ~Changing(v, k)'
    <3>1. ~Changing(w, k)'
      BY <1>3, <2>1 DEF Changing
    <3>2. QED
      BY <1>4, <2>2, <3>1 DEF Changing, On, Busy
  <2>4. OneChanges(k)' /\ Half(k)'
    BY <2>3 DEF OneChanges, Half
  <2>5. Agrees(k)' /\ Unsent(k)'
    <3>1. db[k] = "pending" <=> cache[k] = "pending"
      BY <1>1, <2>2 DEF Tidy, Agrees, Changing
    <3>2. QED
      BY <1>1, <1>5, <2>1, <3>1 DEF Tidy, Agrees, Unsent
  <2>6. RowIsRead(k)'
    <3>1. ASSUME NEW v \in Workers, v # w, Reading(v, k)' PROVE Reading(v, k) /\ job'[v] = job[v]
      BY <1>4, <3>1 DEF Reading, On, Busy
    <3>2. QED
      BY <1>1, <1>3, <1>5, <2>1, <3>1 DEF Tidy, RowIsRead
  <2>7. QED
    BY <2>4, <2>5, <2>6 DEF Tidy
<1>9. QED
  BY <1>6, <1>7, <1>8

LEMMA RestartTidy ==
    ASSUME TypeOK, AllTidy, RelayRestart, NEW k \in Keys \ raced'
    PROVE  Tidy(k)'
<1>1. Tidy(k) /\ k \in Keys
  BY DEF AllTidy, RelayRestart
<1>2. \A w \in Workers : job'[w] = Idle /\ ~Busy(w)'
  BY DEF RelayRestart, Busy
<1>3. db' = db /\ sent' = sent /\ cache'[k] = IF db[k] = "pending" THEN "pending" ELSE "none"
  BY <1>1 DEF RelayRestart, PendingStored
<1>4. db[k] = "pending" => sent[k] = 0
  <2>1. CASE \E w \in Workers : On(w, k) /\ job[w].stage = "db"
    BY <1>1, <2>1 DEF Tidy, Half, Changing
  <2>2. CASE \A w \in Workers : ~(On(w, k) /\ job[w].stage = "db")
    BY <1>1, <2>2 DEF Tidy, Agrees, Unsent
  <2>3. QED
    BY <2>1, <2>2
<1>5. Unsent(k)'
  BY <1>1, <1>3, <1>4 DEF Tidy, Unsent
<1>6. \A w \in Workers : ~Changing(w, k)' /\ ~Reading(w, k)'
  BY <1>2 DEF Changing, Reading, On
<1>7. QED
  BY <1>3, <1>5, <1>6, TidyAlone

(* No step, of whomever, leaves an item untidy whose handlers kept apart. *)
LEMMA NextTidy ==
    ASSUME TypeOK, StatusSaid, AllTidy, [Next]_vars
    PROVE  AllTidy'
<1> SUFFICES ASSUME NEW k \in Keys \ raced' PROVE Tidy(k)'
  BY DEF AllTidy
<1>1. ASSUME UNCHANGED <<cache, db, job, sent>> PROVE Tidy(k)'
  <2>1. Tidy(k)
    BY HistoryGrows DEF AllTidy
  <2>2. QED
    BY <1>1, <2>1, TidyKept
<1>2. CASE UNCHANGED vars
  BY <1>1, <1>2 DEF vars
<1>3. ASSUME (\E j \in Keys : Raise(j) \/ Settle(j)) \/ Apply \/ Break \/ Unregister \/ Connect
             \/ AgentRestart \/ (\E c \in Consoles : Join(c) \/ List(c) \/ Leave(c))
      PROVE  Tidy(k)'
  BY <1>1, <1>3 DEF Raise, Settle, Apply, Break, Unregister, Connect, AgentRestart, Join, List, Leave
<1>4. QED
  BY <1>2, <1>3, ServeTidy, DecideTidy, RestartTidy DEF Next

-------------------------------------------------------------------------------
(* Answers *)

(* The item's decision is under way at a handler. *)
Deciding(w, k) == Changing(w, k) /\ job[w].kind = "decide"
(* Its announcement has reached one. *)
Hearing(w, k) == On(w, k) /\ job[w].kind = "new" /\ job[w].stage = "lock"

LEMMA ToldKept ==
    ASSUME NEW k, Told(k), Announced(k)' => Announced(k),
           \A st \in Decisions : Answers(k, st)' => Answers(k, st),
           \A v \in Workers : Deciding(v, k)' => Deciding(v, k),
           sent'[k] = sent[k], db'[k] = db[k], cache'[k] \in {cache[k], db[k], "none"}
    PROVE  Told(k)'
<1>1. NewIsFirst(k)'
  BY DEF Told, NewIsFirst, Deciding
<1>2. AnswerIsKept(k)'
  BY DEF Told, AnswerIsKept
<1>3. QED
  BY <1>1, <1>2 DEF Told

(* Nothing is said of an item nobody has answered. *)
LEMMA ToldUnanswered ==
    ASSUME NEW k, \A st \in Decisions : ~Answers(k, st)',
           Announced(k)' => \A v \in Workers : ~Deciding(v, k)'
    PROVE  Told(k)'
<1>1. NewIsFirst(k)' /\ AnswerIsKept(k)'
  BY DEF NewIsFirst, AnswerIsKept, Deciding
<1>2. QED
  BY <1>1 DEF Told

(* A handler's step neither announces an item nor answers it, but for Send.   *)
LEMMA SameHearing ==
    ASSUME up' = up, NEW w \in Workers, NEW k,
           \A v \in Workers : v # w => job'[v] = job[v], ~Hearing(w, k)'
    PROVE  Announced(k)' => Announced(k)
  BY DEF Announced, Hearing, On, Busy

LEMMA SameDeciding ==
    ASSUME NEW w \in Workers, NEW k, \A v \in Workers : v # w => job'[v] = job[v],
           Deciding(w, k)' => Deciding(w, k)
    PROVE  \A v \in Workers : Deciding(v, k)' => Deciding(v, k)
  BY DEF Deciding, Changing, On, Busy

LEMMA Pending ==
    ASSUME NEW k, Told(k), cache[k] = "pending"
    PROVE  \A st \in Decisions : ~Answers(k, st)
  BY DEF Told, AnswerIsKept, Decisions

LEMMA ServeTold ==
    ASSUME TypeOK, StatusSaid, AllTidy, AllTold, NEW w \in Workers, Serve(w),
           NEW k \in Keys \ (raced' \cup lost')
    PROVE  Told(k)'
<1>0. StoreTypes /\ LinkTypes /\ JobTypes
  BY TypeParts
<1>1. Tidy(k) /\ Told(k) /\ k \in Keys
  <2>1. raced \subseteq raced' /\ lost \subseteq lost'
    BY HistoryGrows DEF Next
  <2>2. QED
    BY <2>1 DEF AllTidy, AllTold
<1>2. CASE Receive(w)
  <2>1. /\ ~Busy(w) /\ job'[w].stage = "lock"
        /\ up[1] = [t |-> job'[w].kind, key |-> job'[w].key]
        /\ \A v \in Workers : v # w => job'[v] = job[v]
    BY <1>0, <1>2, Receives
  <2>2. /\ up' = Tail(up) /\ up # <<>> /\ store' = store /\ down' = down
        /\ cache' = cache /\ db' = db /\ sent' = sent
    BY <1>2 DEF Receive, agentVars
  <2>3. Announced(k)' => Announced(k)
    <3>1. ASSUME NEW i \in 1..Len(up'), up'[i] = [t |-> "new", key |-> k] PROVE Announced(k)
      <4>1. i + 1 \in 1..Len(up) /\ up[i + 1] = up'[i]
        BY <1>0, <2>2, <3>1 DEF LinkTypes
      <4>2. QED
        BY <3>1, <4>1 DEF Announced
    <3>2. ASSUME NEW v \in Workers, Hearing(v, k)' PROVE Announced(k)
      <4>1. CASE v = w
        <5>1. up[1] = [t |-> "new", key |-> k]
          BY <2>1, <3>2, <4>1 DEF Hearing, On
        <5>2. 1 \in 1..Len(up)
          BY <1>0, <2>2 DEF LinkTypes
        <5>3. QED
          BY <5>1, <5>2 DEF Announced
      <4>2. CASE v # w
        BY <2>1, <3>2, <4>2 DEF Announced, Hearing, On, Busy
      <4>3. QED
        BY <4>1, <4>2
    <3>3. QED
      BY <3>1, <3>2 DEF Announced, Hearing
  <2>4. ~Deciding(w, k)'
    BY <2>1 DEF Deciding, Changing
  <2>5. \A v \in Workers : Deciding(v, k)' => Deciding(v, k)
    BY <2>1, <2>4, SameDeciding
  <2>6. \A st \in Decisions : Answers(k, st)' => Answers(k, st)
    BY <2>2 DEF Answers
  <2>7. QED
    BY <1>1, <2>2, <2>3, <2>5, <2>6, ToldKept
<1>3. CASE CacheNew(w)
  <2>1. Busy(w) /\ Goto(w, "db") /\ job[w].kind = "new"
    BY <1>3 DEF CacheNew, Busy, Idle
  <2>2. job'[w].stage = "db" /\ job'[w].kind = "new"
    BY <1>0, <2>1, Moves
  <2>3. \A v \in Workers : v # w => job'[v] = job[v]
    BY <1>0, <2>1, Moves
  <2>4. up' = up /\ down' = down /\ store' = store /\ db' = db
    BY <1>3 DEF CacheNew, linkVars, agentVars
  <2>5. Announced(k)' => Announced(k)
    BY <2>2, <2>3, <2>4, SameHearing DEF Hearing
  <2>6. ~Deciding(w, k)'
    BY <2>2 DEF Deciding
  <2>7. \A v \in Workers : Deciding(v, k)' => Deciding(v, k)
    BY <2>3, <2>6, SameDeciding
  <2>8. \A st \in Decisions : Answers(k, st)' => Answers(k, st)
    BY <2>4 DEF Answers
  <2>9. CASE job[w].key = k
    <3>1. Announced(k)
      BY <1>3, <2>1, <2>9 DEF CacheNew, Announced, On
    <3>2. \A v \in Workers : ~Deciding(v, k)
      BY <1>1, <3>1 DEF Told, NewIsFirst, Deciding
    <3>3. \A st \in Decisions : ~Answers(k, st)
      BY <1>1, <3>1 DEF Told, NewIsFirst
    <3>4. QED
      BY <2>7, <2>8, <3>2, <3>3, ToldUnanswered
  <2>10. CASE job[w].key # k
    <3>1. cache'[k] = cache[k] /\ sent'[k] = sent[k] /\ db'[k] = db[k]
      BY <1>0, <1>1, <1>3, <2>4, <2>10 DEF CacheNew, StoreTypes
    <3>2. QED
      BY <1>1, <2>5, <2>7, <2>8, <3>1, ToldKept
  <2>11. QED
    BY <2>9, <2>10
<1>4. CASE CacheClosed(w)
  <2>1. job'[w].kind = "closed"
    BY <1>0, <1>4, Closes
  <2>2. \A v \in Workers : v # w => job'[v] = job[v]
    BY <1>0, <1>4, Closes
  <2>3. up' = up /\ down' = down /\ store' = store /\ db' = db /\ sent' = sent
    BY <1>4 DEF CacheClosed, linkVars, agentVars
  <2>4. Announced(k)' => Announced(k)
    BY <2>1, <2>2, <2>3, SameHearing DEF Hearing
  <2>5. ~Deciding(w, k)'
    BY <2>1 DEF Deciding
  <2>6. \A v \in Workers : Deciding(v, k)' => Deciding(v, k)
    BY <2>2, <2>5, SameDeciding
  <2>7. \A st \in Decisions : Answers(k, st)' => Answers(k, st)
    BY <2>3 DEF Answers
  <2>8. CASE job[w].key = k /\ cache[k] = "pending"
    <3>1. \A st \in Decisions : ~Answers(k, st)
      BY <1>1, <2>8, Pending
    <3>2. Announced(k) => \A v \in Workers : ~Deciding(v, k)
      BY <1>1 DEF Told, NewIsFirst, Deciding
    <3>3. QED
      BY <2>4, <2>6, <2>7, <3>1, <3>2, ToldUnanswered
  <2>9. CASE ~(job[w].key = k /\ cache[k] = "pending")
    <3>1. cache'[k] = cache[k]
      BY <1>0, <1>1, <1>4, <2>9 DEF CacheClosed, StoreTypes
    <3>2. QED
      BY <1>1, <2>3, <2>4, <2>6, <2>7, <3>1, ToldKept
  <2>10. QED
    BY <2>8, <2>9
<1>5. CASE Persist(w)
  <2>1. PICK stage \in {"send", "tell"} : Goto(w, stage)
    BY <1>5 DEF Persist
  <2>2. Busy(w) /\ job[w].stage = "db"
    BY <1>5 DEF Persist
  <2>3. job'[w].stage # "lock" /\ job'[w].key = job[w].key /\ job'[w].kind = job[w].kind
    BY <1>0, <2>1, <2>2, Moves
  <2>4. \A v \in Workers : v # w => job'[v] = job[v]
    BY <1>0, <2>1, <2>2, Moves
  <2>5. up' = up /\ down' = down /\ store' = store /\ cache' = cache /\ sent' = sent
    BY <1>5 DEF Persist, linkVars, agentVars
  <2>6. Announced(k)' => Announced(k)
    BY <2>3, <2>4, <2>5, SameHearing DEF Hearing
  <2>7. \A v \in Workers : Deciding(v, k)' => Deciding(v, k)
    <3>1. Deciding(w, k)' => Deciding(w, k)
      BY <2>2, <2>3 DEF Deciding, Changing, On
    <3>2. QED
      BY <2>4, <3>1, SameDeciding
  <2>8. \A st \in Decisions : Answers(k, st)' => Answers(k, st)
    BY <2>5 DEF Answers
  <2>9. CASE job[w].key = k
    <3>1. sent[k] = 0
      BY <1>1, <2>2, <2>9 DEF Tidy, Half, Changing, On
    <3>2. \A st \in Decisions : ~Answers(k, st)
      BY <1>1, <3>1 DEF Told, AnswerIsKept
    <3>3. Announced(k) => \A v \in Workers : ~Deciding(v, k)
      BY <1>1 DEF Told, NewIsFirst, Deciding
    <3>4. QED
      BY <2>6, <2>7, <2>8, <3>2, <3>3, ToldUnanswered
  <2>10. CASE job[w].key # k
    <3>1. db'[k] = db[k]
      BY <1>0, <1>1, <1>5, <2>10 DEF Persist, StoreTypes, UpsertApproval, SetApprovalStatus
    <3>2. QED
      BY <1>1, <2>5, <2>6, <2>7, <2>8, <3>1, ToldKept
  <2>11. QED
    BY <2>9, <2>10
<1>6. ASSUME Tell(w) \/ (CacheRow(w) /\ Finish(w)) PROVE Told(k)'
  <2>1. ~Busy(w)' /\ \A v \in Workers : v # w => job'[v] = job[v]
    BY <1>0, <1>6, Finishes DEF Tell
  <2>2. up' = up /\ down' = down /\ store' = store /\ db' = db /\ sent' = sent
    BY <1>6 DEF Tell, CacheRow, linkVars, agentVars
  <2>3. ~Hearing(w, k)' /\ ~Deciding(w, k)'
    BY <2>1 DEF Hearing, Deciding, Changing, On
  <2>4. Announced(k)' => Announced(k)
    BY <2>1, <2>2, <2>3, SameHearing
  <2>5. \A v \in Workers : Deciding(v, k)' => Deciding(v, k)
    BY <2>1, <2>3, SameDeciding
  <2>6. \A st \in Decisions : Answers(k, st)' => Answers(k, st)
    BY <2>2 DEF Answers
  <2>7. cache'[k] \in {cache[k], db[k], "none"}
    <3>1. CASE Tell(w)
      BY <3>1 DEF Tell
    <3>2. CASE CacheRow(w) /\ job[w].key = k
      <4>1. job[w].row = db[k] /\ db[k] # "pending"
        <5>1. Reading(w, k) /\ job[w].stage = "relock"
          BY <3>2 DEF CacheRow, Reading, On
        <5>2. QED
          BY <1>1, <5>1, ReadingIsAlone DEF Tidy, RowIsRead
      <4>2. QED
        BY <1>0, <1>1, <3>2, <4>1 DEF CacheRow, Decidable, StoreTypes
    <3>3. CASE CacheRow(w) /\ job[w].key # k
      BY <1>0, <1>1, <3>3 DEF CacheRow, StoreTypes
    <3>4. QED
      BY <1>6, <3>1, <3>2, <3>3
  <2>8. QED
    BY <1>1, <2>2, <2>4, <2>5, <2>6, <2>7, ToldKept
<1>7. CASE ReadRow(w)
  <2>1. job'[w].stage = "relock" /\ \A v \in Workers : v # w => job'[v] = job[v]
    BY <1>0, <1>7, Reads
  <2>2. up' = up /\ down' = down /\ store' = store /\ db' = db /\ sent' = sent /\ cache' = cache
    BY <1>7 DEF ReadRow, linkVars, agentVars
  <2>3. ~Hearing(w, k)' /\ ~Deciding(w, k)'
    BY <2>1 DEF Hearing, Deciding, Changing
  <2>4. Announced(k)' => Announced(k)
    BY <2>1, <2>2, <2>3, SameHearing
  <2>5. \A v \in Workers : Deciding(v, k)' => Deciding(v, k)
    BY <2>1, <2>3, SameDeciding
  <2>6. \A st \in Decisions : Answers(k, st)' => Answers(k, st)
    BY <2>2 DEF Answers
  <2>7. QED
    BY <1>1, <2>2, <2>4, <2>5, <2>6, ToldKept
<1>8. CASE CacheRow(w) /\ ~Finish(w)
  <2>1. job[w] \in DecideJobs /\ job' = [job EXCEPT ![w].stage = "db", ![w].conn = conn]
    BY <1>0, <1>8, JobTyped DEF JobTypes, CacheRow, HandlerJobs
  <2>2. job[w].key # k
    <3>1. ASSUME job[w].key = k PROVE FALSE
      <4>1. Reading(w, k)
        BY <1>8, <3>1 DEF CacheRow, Reading, On
      <4>2. job[w].row # "pending"
        BY <1>1, <1>8, <4>1, ReadingIsAlone DEF Tidy, RowIsRead, CacheRow
      <4>3. QED
        BY <1>8, <4>2 DEF CacheRow, Decidable
    <3>2. QED
      BY <3>1
  <2>3. job'[w].key = job[w].key /\ \A v \in Workers : v # w => job'[v] = job[v]
    BY <1>0, <2>1 DEF JobTypes, DecideJobs
  <2>4. up' = up /\ down' = down /\ store' = store /\ db' = db /\ sent' = sent
    BY <1>8 DEF CacheRow, linkVars, agentVars
  <2>5. ~Hearing(w, k)' /\ ~Deciding(w, k)'
    BY <2>2, <2>3 DEF Hearing, Deciding, Changing, On
  <2>6. Announced(k)' => Announced(k)
    BY <2>3, <2>4, <2>5, SameHearing
  <2>7. \A v \in Workers : Deciding(v, k)' => Deciding(v, k)
    BY <2>3, <2>5, SameDeciding
  <2>8. \A st \in Decisions : Answers(k, st)' => Answers(k, st)
    BY <2>4 DEF Answers
  <2>9. cache'[k] = cache[k]
    BY <1>0, <1>1, <1>8, <2>2 DEF CacheRow, StoreTypes
  <2>10. QED
    BY <1>1, <2>4, <2>6, <2>7, <2>8, <2>9, ToldKept
<1>9. CASE Send(w)
  <2>1. Busy(w) /\ job[w].stage = "send" /\ Goto(w, "tell")
    BY <1>9 DEF Send
  <2>2. job'[w].stage = "tell"
    BY <1>0, <2>1, Moves
  <2>3. \A v \in Workers : v # w => job'[v] = job[v]
    BY <1>0, <2>1, Moves
  <2>4. /\ up' = up /\ store' = store /\ cache' = cache /\ db' = db
        /\ down' \in {down, Append(down, [key |-> job[w].key, st |-> job[w].st])}
    BY <1>9 DEF Send, agentVars
  <2>5. ~Hearing(w, k)' /\ ~Deciding(w, k)'
    BY <2>2 DEF Hearing, Deciding, Changing
  <2>6. Announced(k)' => Announced(k)
    BY <2>3, <2>4, <2>5, SameHearing
  <2>7. \A v \in Workers : Deciding(v, k)' => Deciding(v, k)
    BY <2>3, <2>5, SameDeciding
  <2>8. ASSUME NEW st \in Decisions, Answers(k, st)', ~Answers(k, st)
        PROVE  job[w].key = k /\ job[w].st = st
    <3>1. PICK i \in 1..Len(down') : down'[i] = [key |-> k, st |-> st]
      BY <2>4, <2>8 DEF Answers
    <3>2. down' = Append(down, [key |-> job[w].key, st |-> job[w].st])
      BY <2>4, <2>8, <3>1 DEF Answers
    <3>3. down'[i] = [key |-> job[w].key, st |-> job[w].st]
      BY <1>0, <2>8, <3>1, <3>2 DEF Answers, LinkTypes
    <3>4. QED
      BY <3>1, <3>3
  <2>9. CASE job[w].key = k
    <3>1. Changing(w, k)
      BY <2>1, <2>9 DEF Changing, On
    <3>2. job[w].kind = "decide"
      BY <1>0, <2>1, JobTyped DEF JobTypes, HandlerJobs, DecideJobs
    <3>3. ~Announced(k)
      BY <1>1, <3>1, <3>2 DEF Told, NewIsFirst
    <3>4. sent[k] = 0 /\ cache[k] = job[w].st /\ db[k] = job[w].st
      BY <1>1, <2>1, <3>1, <3>2 DEF Tidy, Half
    <3>5. sent'[k] = 1
      BY <1>0, <1>1, <1>9, <2>9, <3>4 DEF Send, StoreTypes
    <3>6. \A st \in Decisions : ~Answers(k, st)
      BY <1>1, <3>4 DEF Told, AnswerIsKept
    <3>7. AnswerIsKept(k)'
      BY <2>4, <2>8, <3>4, <3>5, <3>6 DEF AnswerIsKept
    <3>8. QED
      BY <2>6, <3>3, <3>7 DEF Told, NewIsFirst
  <2>10. CASE job[w].key # k
    <3>1. sent'[k] = sent[k]
      BY <1>0, <1>1, <1>9, <2>10 DEF Send, StoreTypes
    <3>2. \A st \in Decisions : Answers(k, st)' => Answers(k, st)
      BY <2>8, <2>10
    <3>3. QED
      BY <1>1, <2>4, <2>6, <2>7, <3>1, <3>2, ToldKept
  <2>11. QED
    BY <2>9, <2>10
<1>10. QED
  BY <1>2, <1>3, <1>4, <1>5, <1>6, <1>7, <1>8, <1>9 DEF Serve

LEMMA DecideTold ==
    ASSUME TypeOK, AllTidy, AllTold, NEW w \in Workers, NEW j \in Keys, NEW st \in Decisions,
           Decide(w, j, st) \/ DecideUncached(w, j, st), NEW k \in Keys \ (raced' \cup lost')
    PROVE  Told(k)'
<1>0. StoreTypes /\ LinkTypes /\ JobTypes
  BY TypeParts
<1>1. Told(k) /\ k \in Keys
  <2>1. raced \subseteq raced' /\ lost \subseteq lost'
    BY DEF Decide, DecideUncached, Ask, MarkRace
  <2>2. QED
    BY <2>1 DEF AllTold
<1>2. PICK stage \in {"db", "row"} :
        Ask(w, j, st, stage) /\ (stage = "db" <=> Decide(w, j, st))
  BY DEF Decide, DecideUncached
<1>3. ~Busy(w) /\ job'[w].stage = stage /\ job'[w].kind = "decide" /\ job'[w].key = j
  BY <1>0, <1>2, Starts
<1>4. \A v \in Workers : v # w => job'[v] = job[v]
  BY <1>0, <1>2, Starts
<1>5. up' = up /\ down' = down /\ store' = store /\ db' = db /\ sent' = sent
  BY <1>2 DEF Ask, agentVars, linkVars
<1>6. Announced(k)' => Announced(k)
  BY <1>3, <1>4, <1>5, SameHearing DEF Hearing
<1>7. \A s \in Decisions : Answers(k, s)' => Answers(k, s)
  BY <1>5 DEF Answers
<1>8. CASE j = k /\ Decide(w, j, st)
  <2>1. ~Races(w, k) /\ ~Superseded(k) /\ cache[k] = "pending"
    BY <1>8 DEF Decide, MarkRace, Decidable
  <2>2. ~Announced(k)
    BY <1>3, <2>1 DEF Announced, Races, Superseded, On
  <2>3. \A s \in Decisions : ~Answers(k, s)
    BY <1>1, <2>1, Pending
  <2>4. QED
    BY <1>6, <1>7, <2>2, <2>3, ToldUnanswered
<1>9. CASE ~(j = k /\ Decide(w, j, st))
  <2>1. ~Deciding(w, k)'
    BY <1>2, <1>3, <1>9 DEF Deciding, Changing, On
  <2>2. \A v \in Workers : Deciding(v, k)' => Deciding(v, k)
    BY <1>4, <2>1, SameDeciding
  <2>3. cache'[k] = cache[k]
    BY <1>0, <1>1, <1>9 DEF Decide, DecideUncached, StoreTypes
  <2>4. QED
    BY <1>1, <1>5, <1>6, <1>7, <2>2, <2>3, ToldKept
<1>10. QED
  BY <1>8, <1>9

(* The agent's own steps: what it registers, closes and is told. *)
LEMMA AgentTold ==
    ASSUME TypeOK, AllTold, (\E j \in Keys : Raise(j) \/ Settle(j)) \/ Apply,
           NEW k \in Keys \ (raced' \cup lost')
    PROVE  Told(k)'
<1>0. StoreTypes /\ LinkTypes /\ JobTypes
  BY TypeParts
<1>1. Told(k) /\ k \in Keys
  <2>1. raced \subseteq raced' /\ lost \subseteq lost'
    BY HistoryGrows DEF Next
  <2>2. QED
    BY <2>1 DEF AllTold
<1>2. job' = job /\ cache' = cache /\ db' = db /\ sent' = sent
  BY DEF Raise, Settle, Apply
<1>3. \A v \in Workers : Deciding(v, k)' <=> Deciding(v, k)
  BY <1>2 DEF Deciding, Changing, On, Busy
<1>4. ASSUME NEW t \in {"new", "closed"}, NEW j \in Keys, Report(t, j), Announced(k)'
      PROVE  Announced(k) \/ (t = "new" /\ j = k)
  <2>1. CASE \E i \in 1..Len(up') : up'[i] = [t |-> "new", key |-> k]
    <3>1. PICK i \in 1..Len(up') : up'[i] = [t |-> "new", key |-> k]
      BY <2>1
    <3>2. CASE up' = up
      BY <3>1, <3>2 DEF Announced
    <3>3. CASE up' = Append(up, [t |-> t, key |-> j])
      <4>1. (i \in 1..Len(up) /\ up'[i] = up[i]) \/ up'[i] = [t |-> t, key |-> j]
        BY <1>0, <3>1, <3>3 DEF LinkTypes
      <4>2. QED
        BY <3>1, <4>1 DEF Announced
    <3>4. QED
      BY <1>4, <3>2, <3>3 DEF Report
  <2>2. CASE \E v \in Workers : Hearing(v, k)'
    BY <1>2, <2>2 DEF Announced, Hearing, On, Busy
  <2>3. QED
    BY <1>4, <2>1, <2>2 DEF Announced, Hearing
<1>5. ASSUME NEW j \in Keys, Raise(j) PROVE Told(k)'
  <2>1. down' = down /\ store'[k] = (IF j = k THEN "pending" ELSE store[k])
    BY <1>0, <1>1, <1>5 DEF Raise, StoreTypes
  <2>2. CASE j # k
    <3>1. Announced(k)' => Announced(k)
      BY <1>4, <1>5, <2>2 DEF Raise
    <3>2. \A st \in Decisions : Answers(k, st)' => Answers(k, st)
      BY <2>1, <2>2 DEF Answers
    <3>3. QED
      BY <1>1, <1>2, <1>3, <3>1, <3>2, ToldKept
  <2>3. CASE j = k
    <3>1. k \notin Carried /\ ~Working(k)
      BY <1>5, <2>3 DEF Raise
    <3>2. \A st \in Decisions : ~Answers(k, st)'
      BY <2>1, <2>3, <3>1 DEF Answers, Carried, Decisions
    <3>3. \A v \in Workers : ~Deciding(v, k)'
      BY <1>3, <3>1 DEF Working, Deciding, Changing, On
    <3>4. QED
      BY <3>2, <3>3, ToldUnanswered
  <2>4. QED
    BY <2>2, <2>3
<1>6. ASSUME NEW j \in Keys, Settle(j) PROVE Told(k)'
  <2>1. down' = down /\ store'[k] = (IF j = k THEN "closed" ELSE store[k])
    BY <1>0, <1>1, <1>6 DEF Settle, StoreTypes
  <2>2. Announced(k)' => Announced(k)
    BY <1>4, <1>6 DEF Settle
  <2>3. \A st \in Decisions : Answers(k, st)' => Answers(k, st)
    BY <2>1 DEF Answers, Decisions
  <2>4. QED
    BY <1>1, <1>2, <1>3, <2>2, <2>3, ToldKept
<1>7. CASE Apply
  <2>1. up' = up /\ down # <<>> /\ down' = Tail(down)
    BY <1>7 DEF Apply
  <2>2. Head(down) = down[1] /\ down[1] \in Orders /\ 1 \in 1..Len(down)
    BY <1>0, <2>1 DEF LinkTypes
  <2>3. Announced(k)' => Announced(k)
    BY <1>2, <2>1 DEF Announced, On, Busy
  <2>4. ASSUME NEW st \in Decisions, Answers(k, st)' PROVE Answers(k, st)
    <3>1. CASE store'[k] = st /\ store[k] # st
      <4>1. down[1].key = k /\ down[1].st = st
        BY <1>0, <1>1, <1>7, <2>2, <3>1 DEF Apply, StoreTypes
      <4>2. down[1] = [key |-> k, st |-> st]
        BY <2>2, <4>1 DEF Orders
      <4>3. QED
        BY <2>2, <4>2 DEF Answers
    <3>2. CASE \E i \in 1..Len(down') : down'[i] = [key |-> k, st |-> st]
      <4>1. PICK i \in 1..Len(down') : down'[i] = [key |-> k, st |-> st]
        BY <3>2
      <4>2. i + 1 \in 1..Len(down) /\ down[i + 1] = down'[i]
        BY <1>0, <2>1, <4>1 DEF LinkTypes
      <4>3. QED
        BY <4>1, <4>2 DEF Answers
    <3>3. QED
      BY <2>4, <3>1, <3>2 DEF Answers
  <2>5. QED
    BY <1>1, <1>2, <1>3, <2>3, <2>4, ToldKept
<1>8. QED
  BY <1>5, <1>6, <1>7

LEMMA LinkTold ==
    ASSUME TypeOK, AllTold, Break \/ Unregister \/ Connect \/ AgentRestart \/ RelayRestart,
           NEW k \in Keys \ (raced' \cup lost')
    PROVE  Told(k)'
<1>1. Told(k) /\ k \in Keys
  <2>1. raced \subseteq raced' /\ lost \subseteq lost'
    BY HistoryGrows DEF Next
  <2>2. QED
    BY <2>1 DEF AllTold
<1>2. up' \in {up, <<>>} /\ down' \in {down, <<>>} /\ store'[k] \in {store[k], "none"}
  BY <1>1 DEF Break, Unregister, Connect, AgentRestart, RelayRestart, Drop, agentVars
<1>3. db' = db /\ sent' = sent /\ job' \in {job, [w \in Workers |-> Idle]}
  BY DEF Break, Unregister, Connect, AgentRestart, RelayRestart
<1>4. Len(<<>>) = 0 /\ 1..0 = {}
  OBVIOUS
<1>5. Announced(k)' => Announced(k)
  BY <1>2, <1>3, <1>4 DEF Announced, On, Busy
<1>6. \A v \in Workers : Deciding(v, k)' => Deciding(v, k)
  BY <1>3 DEF Deciding, Changing, On, Busy
<1>7. \A st \in Decisions : Answers(k, st)' => Answers(k, st)
  BY <1>2, <1>4 DEF Answers, Decisions
<1>8. CASE ~RelayRestart
  <2>1. cache' = cache
    BY <1>8 DEF Break, Unregister, Connect, AgentRestart
  <2>2. QED
    BY <1>1, <1>3, <1>5, <1>6, <1>7, <2>1, ToldKept
<1>9. CASE RelayRestart
  <2>1. cache'[k] \in {db[k], "none"}
    BY <1>1, <1>9 DEF RelayRestart, PendingStored
  <2>2. QED
    BY <1>1, <1>3, <1>5, <1>6, <1>7, <2>1, ToldKept
<1>10. QED
  BY <1>8, <1>9

LEMMA NextTold ==
    ASSUME TypeOK, StatusSaid, AllTidy, AllTold, [Next]_vars
    PROVE  AllTold'
<1> SUFFICES ASSUME NEW k \in Keys \ (raced' \cup lost') PROVE Told(k)'
  BY DEF AllTold
<1>1. ASSUME UNCHANGED <<store, up, down, cache, db, job, sent>> PROVE Told(k)'
  <2>1. Told(k)
    BY HistoryGrows DEF AllTold
  <2>2. Announced(k)' => Announced(k)
    BY <1>1 DEF Announced, On, Busy
  <2>3. \A v \in Workers : Deciding(v, k)' => Deciding(v, k)
    BY <1>1 DEF Deciding, Changing, On, Busy
  <2>4. \A st \in Decisions : Answers(k, st)' => Answers(k, st)
    BY <1>1 DEF Answers
  <2>5. QED
    BY <1>1, <2>1, <2>2, <2>3, <2>4, ToldKept
<1>2. CASE UNCHANGED vars
  BY <1>1, <1>2 DEF vars, agentVars, linkVars
<1>3. ASSUME NEW c \in Consoles, Join(c) \/ List(c) \/ Leave(c) PROVE Told(k)'
  BY <1>1, <1>3 DEF Join, List, Leave, agentVars, linkVars
<1>4. QED
  BY <1>2, <1>3, ServeTold, DecideTold, AgentTold, LinkTold DEF Next

-------------------------------------------------------------------------------
(* The theorems *)

LEMMA InitInv == Init => IInv
<1> SUFFICES ASSUME Init PROVE IInv
  OBVIOUS
<1>1. TypeOK
  BY InitTyped
<1>2. /\ \A w \in Workers : job[w] = Idle /\ ~Busy(w)
      /\ \A k \in Keys : store[k] = "none" /\ cache[k] = "none" /\ db[k] = "none" /\ sent[k] = 0
      /\ Len(up) = 0 /\ Len(down) = 0 /\ 1..0 = {}
  BY DEF Init, Busy
<1>3. StatusSaid
  BY <1>2 DEF StatusSaid, Idle
<1>4. AllTidy
  BY <1>2 DEF AllTidy, Tidy, OneChanges, Half, Agrees, RowIsRead, Unsent, Changing, Reading, On
<1>5. AllTold
  BY <1>2 DEF AllTold, Told, NewIsFirst, AnswerIsKept, Announced, Answers, Changing, On, Decisions
<1>6. QED
  BY <1>1, <1>3, <1>4, <1>5 DEF IInv

(* The types hold, and every item whose handlers kept apart is tidy, its        *)
(* answers told as they are recorded, in every reachable state.                *)
THEOREM Invariant == Spec => []IInv
<1>1. IInv /\ [Next]_vars => IInv'
  BY NextTyped, StatusKept, NextTidy, NextTold DEF IInv
<1>2. QED
  BY <1>1, InitInv, PTL DEF Spec

(* The variables of the relay, the agent and the consoles keep their types.    *)
THEOREM TypeCorrect == Spec => []TypeOK
<1>1. IInv => TypeOK
  BY DEF IInv
<1>2. QED
  BY <1>1, Invariant, PTL

(* However many consoles and requests answer an item at once, and though the   *)
(* relay may die between any two of decideApproval's steps, at most one answer *)
(* is sent for an announcement (hub.go, ws_client.go).                         *)
THEOREM OneAnswerGoes == Spec => []DecidedOnce
<1>1. IInv => DecidedOnce
  BY DEF IInv, AllTidy, Tidy, Unsent, DecidedOnce
<1>2. QED
  BY <1>1, Invariant, PTL

(* An item no handler is at is pending in the database exactly when it is in   *)
(* the cache, so a restart of the relay loses and revives nothing.             *)
THEOREM RowsAgree == Spec => []RowsMatch
<1>1. IInv => RowsMatch
  BY DEF IInv, AllTidy, Tidy, Agrees, RowsMatch, Working, On
<1>2. QED
  BY <1>1, Invariant, PTL

(* What the tool was told stands in the row, and in the cache unless a restart *)
(* dropped it there, though answer, announcement and close cross on the wire.  *)
THEOREM AnswersRecorded == Spec => []AnswerIsRecorded
<1>1. IInv => AnswerIsRecorded
  BY DEF IInv, AllTold, Told, AnswerIsKept, Answers, AnswerIsRecorded
<1>2. QED
  BY <1>1, Invariant, PTL
================================================================================
