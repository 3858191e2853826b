-------------------------- MODULE SessionReportProofs --------------------------
(***************************************************************************)
(* For any number of goroutines, connections, consoles, changes and faults:  *)
(* an exit that a card showed stands until a kill_resume ends, unless an      *)
(* older report overtakes, or a takeback of a tmux client which a kill_resume   *)
(* had passed comes to its end.                                               *)
(*                                                                          *)
(* Whatever is under way, in goroutines, on connections, in handlers, lists   *)
(* and copies, is a record the session once had (Held), so it is enough to    *)
(* follow the records: between one that shows an exit and a later one that    *)
(* shows a live session a kill_resume has ended, or such a takeback (Ordered), *)
(* because an exited session has no process that could be lost and taken back  *)
(* and only those two give it one (DeadStays).                                *)
(***************************************************************************)
EXTENDS SessionReport, TLAPS

States == {"none", "exited", "failed"} \cup Live
Records == [st : States, v : Nat]
Reported == {"state", "updated", "exited"}
Messages == [t : Reported \cup {"hello", "list"}, st : States, v : Nat]
Steps == [t : {"idle", "open", "opened", "kill", "resumed"}]

AgentTypes ==
    /\ info \in States \ {"none"} /\ ver \in Nat
    /\ client \in {"on", "lost", "none"} /\ passed \in Nat
    /\ rep \in [Goroutines -> Steps \cup Messages]
    /\ hello \in Records /\ ends \subseteq Nat /\ overruns \subseteq Nat
RelayTypes ==
    /\ box \in [Conns -> Seq(Messages)]
    /\ hand \in [Conns -> {Idle} \cup [m : Messages, t : {"lock", "list", "tell"}]]
    /\ seen \in Records
ConsoleTypes == snap \in [Consoles -> Records] /\ card \in [Consoles -> Records]
TypeOK == AgentTypes /\ RelayTypes /\ ConsoleTypes

(* x is the session's record or a copy of it that somebody has. *)
Held(x) ==
    \/ x \in {Record, hello, seen}
    \/ \E c \in Consoles : x = snap[c] \/ x = card[c]
    \/ \E g \in Goroutines : rep[g].t \in Reported /\ x = Shown(rep[g])
    \/ \E h \in Conns : \/ \E i \in 1..Len(box[h]) : x = Shown(box[h][i])
                        \/ hand[h].t # "idle" /\ x = Shown(hand[h].m)

(* The changes by which a session that was over has a process again. *)
Opens == ends \cup overruns

(* y shows a session that is not over after x showed it was. *)
Follows(x, y) ==
    x.st = "exited" /\ x.v \notin losses /\ y.st \notin {"none", "exited"} /\ x.v <= y.v
        => \E e \in Opens : x.v < e /\ e <= y.v

Ordered == \A x, y : Held(x) /\ Held(y) => x.v <= ver /\ Follows(x, y)
DeadStays == client # "none" => info # "exited"
IInv == TypeOK /\ Ordered /\ DeadStays

-------------------------------------------------------------------------------
(* Types *)

LEMMA NoneTyped == None \in Records
  BY DEF None, Records, States

LEMMA ShownTyped ==
    ASSUME NEW m \in Messages
    PROVE  Shown(m) \in Records /\ Shown(m).st = m.st /\ Shown(m).v = m.v
  BY DEF Shown, Messages, Records

LEMMA HeldTyped ==
    ASSUME TypeOK, NEW x, Held(x)
    PROVE  x \in Records
<1>1. CASE x \in {Record, hello, seen}
  BY <1>1 DEF TypeOK, AgentTypes, RelayTypes, Record, Records
<1>2. CASE \E c \in Consoles : x = snap[c] \/ x = card[c]
  BY <1>2 DEF TypeOK, ConsoleTypes
<1>3. CASE \E g \in Goroutines : rep[g].t \in Reported /\ x = Shown(rep[g])
  <2> PICK g \in Goroutines : rep[g].t \in Reported /\ x = Shown(rep[g])
    BY <1>3
  <2>1. rep[g] \in Messages
    BY DEF TypeOK, AgentTypes, Steps, Reported
  <2>2. QED
    BY <2>1, ShownTyped
<1>4. CASE \E h \in Conns : \E i \in 1..Len(box[h]) : x = Shown(box[h][i])
  <2> PICK h \in Conns : \E i \in 1..Len(box[h]) : x = Shown(box[h][i])
    BY <1>4
  <2> PICK i \in 1..Len(box[h]) : x = Shown(box[h][i])
    OBVIOUS
  <2>1. box[h] \in Seq(Messages)
    BY DEF TypeOK, RelayTypes
  <2>2. box[h][i] \in Messages
    BY <2>1
  <2>3. QED
    BY <2>2, ShownTyped
<1>5. CASE \E h \in Conns : hand[h].t # "idle" /\ x = Shown(hand[h].m)
  <2> PICK h \in Conns : hand[h].t # "idle" /\ x = Shown(hand[h].m)
    BY <1>5
  <2>1. hand[h].m \in Messages
    BY DEF TypeOK, RelayTypes, Idle
  <2>2. QED
    BY <2>1, ShownTyped
<1>6. QED
  BY <1>1, <1>2, <1>3, <1>4, <1>5 DEF Held

LEMMA HeldNumbers ==
    ASSUME TypeOK, NEW x, Held(x)
    PROVE  x.st \in States /\ x.v \in Nat
  BY HeldTyped DEF Records

-------------------------------------------------------------------------------
(* Copies keep the order, and so does a change that is in order itself. *)

LEMMA CopiesKeepOrder ==
    ASSUME Ordered, UNCHANGED <<ver, losses, ends, overruns>>,
           \A x : Held(x)' => Held(x) \/ (x = None /\ ver \in Nat)
    PROVE  Ordered'
<1> SUFFICES ASSUME NEW x, NEW y, Held(x)', Held(y)'
             PROVE  x.v <= ver /\ Follows(x, y)
  BY DEF Ordered, Follows, Opens
<1>1. CASE x = None /\ ver \in Nat
  BY <1>1 DEF None, Follows
<1>2. CASE Held(x) /\ y = None
  BY <1>2 DEF Ordered, None, Follows
<1>3. CASE Held(x) /\ Held(y)
  BY <1>3 DEF Ordered
<1>4. QED
  BY <1>1, <1>2, <1>3

LEMMA ChangeKeepsOrder ==
    ASSUME TypeOK, Ordered, ver' = ver + 1, losses \subseteq losses', Opens \subseteq Opens',
           \A x : Held(x)' =>
              \/ Held(x)
              \/ x = Record'
              \/ x.st = "exited" /\ x.v = ver' /\ x.v \in losses',
           ver' \in Opens' \/ info' \in {"none", "exited"} \/ info \notin {"none", "exited"}
    PROVE  Ordered'
<1>0. ver \in Nat /\ Held(Record) /\ Record'.st = info' /\ Record'.v = ver'
      /\ Record.st = info /\ Record.v = ver
  BY DEF TypeOK, AgentTypes, Held, Record
<1> SUFFICES ASSUME NEW x, NEW y, Held(x)', Held(y)'
             PROVE  x.v <= ver' /\ Follows(x, y)'
  BY DEF Ordered
<1>1. /\ Held(x) \/ (x.v = ver' /\ (x = Record' \/ x.v \in losses'))
      /\ Held(y) \/ y = Record' \/ y.st = "exited"
  BY <1>0
<1>2. ASSUME NEW z, Held(z)
      PROVE  z.v \in Nat /\ z.v <= ver
  BY <1>2, HeldNumbers DEF Ordered
<1>3. x.v <= ver'
  BY <1>0, <1>1, <1>2
<1>4. Follows(x, y)'
  <2> SUFFICES ASSUME x.st = "exited", x.v \notin losses',
                      y.st \notin {"none", "exited"}, x.v <= y.v
               PROVE  \E e \in Opens' : x.v < e /\ e <= y.v
    BY DEF Follows
  <2>1. Held(x)
    <3>1. CASE Held(y)
      BY <1>0, <1>1, <1>2, <3>1
    <3>2. CASE y = Record'
      BY <1>0, <1>1, <3>2
    <3>3. QED
      BY <1>1, <3>1, <3>2
  <2>2. CASE Held(y)
    BY <2>1, <2>2 DEF Ordered, Follows
  <2>3. CASE y = Record' /\ ver' \in Opens'
    BY <1>0, <1>2, <2>1, <2>3
  <2>4. CASE y = Record' /\ info \notin {"none", "exited"}
    <3>1. PICK e \in Opens : x.v < e /\ e <= ver
      BY <1>0, <1>2, <2>1, <2>4 DEF Ordered, Follows
    <3>2. e \in Nat
      BY DEF TypeOK, AgentTypes, Opens
    <3>3. QED
      BY <1>0, <2>4, <3>1, <3>2
  <2>5. QED
    BY <1>0, <1>1, <2>2, <2>3, <2>4
<1>5. QED
  BY <1>3, <1>4

(* What the agent reports is its record; everything else is left alone. *)
LEMMA OnlyReported ==
    ASSUME RecordOnly, NEW r,
           \A g \in Goroutines : \/ rep'[g] = rep[g] \/ rep'[g].t \notin Reported
                                 \/ Shown(rep'[g]) = r
    PROVE  \A x : Held(x)' => Held(x) \/ x = Record' \/ x = r
<1> SUFFICES ASSUME NEW x, Held(x)', x # Record', x # r PROVE Held(x)
  OBVIOUS
<1>1. UNCHANGED <<hello, seen, snap, card, box, hand>>
  BY DEF RecordOnly, linkVars, relayVars, consoleVars
<1>2. CASE \E g \in Goroutines : rep'[g].t \in Reported /\ x = Shown(rep'[g])
  BY <1>2 DEF Held
<1>3. QED
  BY <1>1, <1>2 DEF Held

-------------------------------------------------------------------------------
(* The session's record changes *)

RecordSteps ==
    \/ \E g \in Reporters :
         \/ Exit(g) \/ GiveUp(g) \/ KillResume(g) \/ Resume(g) \/ ResumeFails(g)
         \/ \E st \in Signals : SetState(g, st)
    \/ \E g \in Goroutines : SetMetrics(g)
    \/ Reattach \/ Lists

LEMMA Names ==
    /\ Reporters \subseteq Goroutines /\ "reader" \in Goroutines
    /\ Signals \subseteq States \ {"none", "exited"}
    /\ {"running", "exited", "failed"} \subseteq States \ {"none"}
    /\ \A s \in Live : s \notin {"none", "exited"}
  BY SignalsAssumption DEF Goroutines, States, Live

LEMMA ReportTyped ==
    ASSUME AgentTypes, NEW g \in Goroutines, NEW t \in Reported, NEW st \in States,
           ver' = ver + 1, Reports(g, t, st)
    PROVE  /\ rep' \in [Goroutines -> Steps \cup Messages]
           /\ \A f \in Goroutines : rep'[f] = rep[f] \/ Shown(rep'[f]) = [st |-> st, v |-> ver']
<1>1. [t |-> t, st |-> st, v |-> ver'] \in Messages
  BY DEF AgentTypes, Messages
<1>2. QED
  BY <1>1 DEF Reports, AgentTypes, Shown

LEMMA StepTyped ==
    ASSUME AgentTypes, NEW g \in Goroutines, NEW t \in {"idle", "opened", "kill", "resumed"},
           rep' = [rep EXCEPT ![g] = [t |-> t]]
    PROVE  /\ rep' \in [Goroutines -> Steps \cup Messages]
           /\ \A f \in Goroutines : rep'[f] = rep[f] \/ rep'[f].t \notin Reported
<1>1. [t |-> t] \in Steps /\ t \notin Reported
  BY DEF Steps, Reported
<1>2. QED
  BY <1>1 DEF AgentTypes

(* In a change the session's record becomes another, and what is reported is *)
(* that record or the exit of a client that was given up.                     *)
Changed(r) ==
    /\ ver' = ver + 1 /\ info' \in States \ {"none"}
    /\ client' \in {"on", "lost", "none"} /\ passed' \in Nat
    /\ rep' \in [Goroutines -> Steps \cup Messages]
    /\ losses \subseteq losses' /\ ends \subseteq ends' /\ ends' \subseteq Nat
    /\ overruns \subseteq overruns' /\ overruns' \subseteq Nat /\ RecordOnly
    /\ \A g \in Goroutines : \/ rep'[g] = rep[g] \/ rep'[g].t \notin Reported
                             \/ Shown(rep'[g]) = r
    /\ r = Record' \/ (r = [st |-> "exited", v |-> ver'] /\ ver' \in losses')
    /\ ver' \in Opens' \/ info' = "exited" \/ info # "exited"
    /\ DeadStays'

(* In any other step it stays, and nothing new is reported. *)
Still ==
    /\ UNCHANGED <<info, ver, losses, ends, overruns>> /\ RecordOnly
    /\ client' \in {"on", "lost", "none"} /\ passed' \in Nat /\ DeadStays'
    /\ rep' \in [Goroutines -> Steps \cup Messages]
    /\ \A g \in Goroutines : rep'[g] = rep[g] \/ rep'[g].t \notin Reported

LEMMA RecordChanges ==
    ASSUME AgentTypes, DeadStays, RecordSteps
    PROVE  Still \/ \E r : Changed(r)
<1> USE Names
<1>0. /\ ver \in Nat /\ info \in States \ {"none"}
      /\ client \in {"on", "lost", "none"} /\ passed \in Nat
      /\ rep \in [Goroutines -> Steps \cup Messages]
      /\ ends \subseteq Nat /\ overruns \subseteq Nat
      /\ ends \subseteq Opens /\ ends' \subseteq Opens' /\ overruns' \subseteq Opens'
  BY DEF AgentTypes, Opens
<1>1. CASE \E g \in Reporters : \E st \in Signals : SetState(g, st)
  <2> PICK g \in Reporters, st \in Signals : SetState(g, st)
    BY <1>1
  <2>1. /\ ver' = ver + 1 /\ info' = st /\ info # "exited" /\ Reports(g, "state", st)
        /\ UNCHANGED <<procVars, pastVars>> /\ RecordOnly
    BY DEF SetState, Change
  <2>2. /\ rep' \in [Goroutines -> Steps \cup Messages]
        /\ \A f \in Goroutines : rep'[f] = rep[f] \/ Shown(rep'[f]) = Record'
    BY <2>1, ReportTyped DEF Reported, Record
  <2>3. QED
    BY <1>0, <2>1, <2>2 DEF Changed, DeadStays, procVars, pastVars
<1>2. CASE \E g \in Goroutines : SetMetrics(g)
  <2> PICK g \in Goroutines : SetMetrics(g)
    BY <1>2
  <2>1. /\ ver' = ver + 1 /\ info' = info /\ Reports(g, "updated", info)
        /\ UNCHANGED <<procVars, pastVars>> /\ RecordOnly
    BY DEF SetMetrics, Change
  <2>2. /\ rep' \in [Goroutines -> Steps \cup Messages]
        /\ \A f \in Goroutines : rep'[f] = rep[f] \/ Shown(rep'[f]) = Record'
    BY <1>0, <2>1, ReportTyped DEF Reported, Record
  <2>3. QED
    BY <1>0, <2>1, <2>2 DEF Changed, DeadStays, procVars, pastVars
<1>3. CASE \E g \in Reporters : Exit(g)
  <2> PICK g \in Reporters : Exit(g)
    BY <1>3
  <2>1. /\ ver' = ver + 1 /\ info' = "exited" /\ Reports(g, "exited", "exited")
        /\ client' = "none" /\ UNCHANGED <<passed, pastVars>> /\ RecordOnly
    BY DEF Exit, Change
  <2>2. /\ rep' \in [Goroutines -> Steps \cup Messages]
        /\ \A f \in Goroutines : rep'[f] = rep[f] \/ Shown(rep'[f]) = Record'
    BY <2>1, ReportTyped DEF Reported, Record
  <2>3. QED
    BY <1>0, <2>1, <2>2 DEF Changed, DeadStays, pastVars
<1>4. CASE Reattach
  <2>1. /\ UNCHANGED <<rep, losses, ends>> /\ RecordOnly
        /\ client' = "on" /\ passed' \in Nat
    BY <1>0, <1>4 DEF Reattach, Overrun, Installs
  <2>2. CASE info = "running"
    <3>1. UNCHANGED <<info, ver, overruns>>
      BY <1>4, <2>2 DEF Reattach, Overrun, Runs
    <3>2. QED
      BY <1>0, <2>1, <2>2, <3>1 DEF Still, DeadStays
  <2>3. CASE info # "running"
    <3>1. ver' = ver + 1 /\ info' = "running"
      BY <1>4, <2>3 DEF Reattach, Overrun, Runs, Change
    <3>2. CASE client = "lost" /\ UNCHANGED overruns
      <4>1. info # "exited"
        BY <3>2 DEF DeadStays
      <4>2. Changed(Record')
        BY <1>0, <2>1, <3>1, <3>2, <4>1 DEF Changed, DeadStays
      <4>3. QED
        BY <4>2
    <3>3. CASE overruns' = overruns \cup ({ver'} \ {ver})
      <4>1. overruns' = overruns \cup {ver'} /\ ver' \in Nat
        BY <1>0, <3>1, <3>3
      <4>2. ver' \in Opens'
        BY <1>0, <4>1
      <4>3. Changed(Record')
        BY <1>0, <2>1, <3>1, <4>1, <4>2 DEF Changed, DeadStays
      <4>4. QED
        BY <4>3
    <3>4. QED
      BY <1>4, <3>2, <3>3 DEF Reattach, Overrun
  <2>4. QED
    BY <2>2, <2>3
<1>5. CASE \E g \in Reporters : GiveUp(g)
  <2> PICK g \in Reporters : GiveUp(g)
    BY <1>5
  <2>1. /\ ver' = ver + 1 /\ info' = "failed" /\ Reports(g, "exited", "exited")
        /\ losses' = losses \cup {ver'} /\ ends' = ends /\ RecordOnly
    BY DEF GiveUp, Change
  <2>2. /\ rep' \in [Goroutines -> Steps \cup Messages]
        /\ \A f \in Goroutines : rep'[f] = rep[f]
                                  \/ Shown(rep'[f]) = [st |-> "exited", v |-> ver']
    BY <2>1, ReportTyped DEF Reported
  <2>3. /\ client' \in {"on", "lost", "none"} /\ passed' \in Nat
        /\ overruns \subseteq overruns' /\ overruns' \subseteq Nat
        /\ ver' \in overruns' \/ info # "exited"
    <3>1. CASE client = "lost" /\ client' = "none" /\ UNCHANGED <<passed, overruns>>
      BY <1>0, <3>1 DEF DeadStays
    <3>2. CASE /\ passed > 0 /\ passed' = passed - 1 /\ UNCHANGED client
               /\ overruns' = overruns \cup {ver'}
      BY <1>0, <2>1, <3>2
    <3>3. QED
      BY <3>1, <3>2 DEF GiveUp
  <2>4. Changed([st |-> "exited", v |-> ver'])
    BY <1>0, <2>1, <2>2, <2>3 DEF Changed, DeadStays
  <2>5. QED
    BY <2>4
<1>6. CASE \E g \in Reporters : KillResume(g)
  <2> PICK g \in Reporters : KillResume(g)
    BY <1>6
  <2>1. /\ rep' = [rep EXCEPT ![g] = [t |-> "kill"]]
        /\ UNCHANGED <<info, ver, procVars, pastVars>> /\ RecordOnly
    BY DEF KillResume
  <2>2. QED
    BY <1>0, <2>1, StepTyped DEF Still, DeadStays, procVars, pastVars
<1>7. CASE \E g \in Reporters : Resume(g)
  <2> PICK g \in Reporters : Resume(g)
    BY <1>7
  <2>1. /\ ver' = ver + 1 /\ info' = "running" /\ client' = "on" /\ passed' \in Nat
        /\ rep' = [rep EXCEPT ![g] = [t |-> "resumed"]]
        /\ UNCHANGED <<losses, overruns>> /\ ends' = ends \cup {ver'} /\ RecordOnly
    BY <1>0 DEF Resume, Change, Installs
  <2>2. /\ rep' \in [Goroutines -> Steps \cup Messages]
        /\ \A f \in Goroutines : rep'[f] = rep[f] \/ rep'[f].t \notin Reported
    BY <2>1, StepTyped
  <2>3. /\ info' \in States \ {"none"} /\ info' # "exited"
        /\ ends \subseteq ends' /\ ends' \subseteq Nat /\ ver' \in Opens'
    BY <1>0, <2>1
  <2>4. Changed(Record')
    BY <1>0, <2>1, <2>2, <2>3 DEF Changed, DeadStays
  <2>5. QED
    BY <2>4
<1>8. CASE \E g \in Reporters : ResumeFails(g)
  <2> PICK g \in Reporters : ResumeFails(g)
    BY <1>8
  <2>1. /\ ver' = ver + 1 /\ info' = "failed" /\ client' = "none" /\ passed' \in Nat
        /\ rep' = [rep EXCEPT ![g] = [t |-> "idle"]]
        /\ UNCHANGED <<losses, overruns>> /\ ends' = ends \cup {ver'} /\ RecordOnly
    BY <1>0 DEF ResumeFails, Change, Idle
  <2>2. /\ rep' \in [Goroutines -> Steps \cup Messages]
        /\ \A f \in Goroutines : rep'[f] = rep[f] \/ rep'[f].t \notin Reported
    BY <2>1, StepTyped
  <2>3. /\ info' \in States \ {"none"} /\ info' # "exited"
        /\ ends \subseteq ends' /\ ends' \subseteq Nat /\ ver' \in Opens'
    BY <1>0, <2>1
  <2>4. Changed(Record')
    BY <1>0, <2>1, <2>2, <2>3 DEF Changed, DeadStays
  <2>5. QED
    BY <2>4
<1>9. CASE Lists
  <2>1. /\ rep' = [rep EXCEPT !["reader"] = [t |-> "opened"]]
        /\ UNCHANGED <<info, ver, procVars, pastVars>> /\ RecordOnly
    BY <1>9 DEF Lists
  <2>2. QED
    BY <1>0, <2>1, StepTyped DEF Still, DeadStays, procVars, pastVars
<1>10. QED
  BY <1>1, <1>2, <1>3, <1>4, <1>5, <1>6, <1>7, <1>8, <1>9 DEF RecordSteps

LEMMA RecordStepsKeep ==
    ASSUME IInv, RecordSteps
    PROVE  IInv' /\ UNCHANGED <<card, snap>>
<1>0. TypeOK /\ AgentTypes /\ Ordered /\ DeadStays
  BY DEF IInv, TypeOK
<1>1. RecordOnly => UNCHANGED <<hello, seen, snap, card, box, hand>>
  BY DEF RecordOnly, linkVars, relayVars, consoleVars
<1>2. ASSUME NEW r, Changed(r) PROVE IInv' /\ RecordOnly
  <2>1. TypeOK'
    BY <1>0, <1>1, <1>2 DEF Changed, TypeOK, AgentTypes, RelayTypes, ConsoleTypes
  <2>2. \A x : Held(x)' => Held(x) \/ x = Record' \/ x = r
    BY <1>2, OnlyReported DEF Changed
  <2>3. /\ \A x : x = r => x = Record' \/ (x.st = "exited" /\ x.v = ver' /\ x.v \in losses')
        /\ info \notin {"none", "exited"} \/ ver' \in Opens' \/ info' = "exited"
        /\ ver' = ver + 1 /\ losses \subseteq losses' /\ Opens \subseteq Opens'
    BY <1>0, <1>2 DEF Changed, AgentTypes, Opens
  <2>4. Ordered'
    BY <1>0, <2>2, <2>3, ChangeKeepsOrder
  <2>5. QED
    BY <1>2, <2>1, <2>4 DEF IInv, Changed
<1>3. ASSUME Still PROVE IInv' /\ RecordOnly
  <2>1. TypeOK'
    BY <1>0, <1>1, <1>3 DEF Still, TypeOK, AgentTypes, RelayTypes, ConsoleTypes
  <2>2. \A x : Held(x)' => Held(x) \/ x = Record'
    BY <1>3, OnlyReported DEF Still
  <2>3. Record' = Record /\ Held(Record)
    BY <1>3 DEF Still, Record, Held
  <2>4. Ordered'
    BY <1>0, <1>3, <2>2, <2>3, CopiesKeepOrder DEF Still
  <2>5. QED
    BY <1>3, <2>1, <2>4 DEF IInv, Still
<1>4. QED
  BY <1>0, <1>1, <1>2, <1>3, RecordChanges

-------------------------------------------------------------------------------
(* Reports, the connection, the relay and the consoles *)

(* A step that copies: nothing is held that was not, but for what nobody has. *)
Copies ==
    /\ UNCHANGED <<info, ver, losses, ends, overruns>>
    /\ client' # "none" => client # "none"
    /\ TypeOK'
    /\ \A x : Held(x)' => Held(x) \/ x = None

LEMMA CopiesKeep ==
    ASSUME IInv, Copies
    PROVE  IInv'
<1>1. ver \in Nat
  BY DEF IInv, TypeOK, AgentTypes
<1>2. Ordered'
  BY <1>1, CopiesKeepOrder DEF IInv, Copies
<1>3. QED
  BY <1>2 DEF IInv, Copies, DeadStays

LEMMA ClientLostCopies ==
    ASSUME TypeOK, ClientLost
    PROVE  Copies /\ UNCHANGED <<card, snap>>
<1>1. /\ UNCHANGED <<info, ver, passed, losses, ends, overruns, rep, hello, seen, snap, card,
                     box, hand>>
      /\ client = "on" /\ client' = "lost"
  BY DEF ClientLost, pastVars, linkVars, relayVars, consoleVars
<1>2. Record' = Record
  BY <1>1 DEF Record
<1>3. \A x : Held(x)' => Held(x)
  BY <1>1, <1>2 DEF Held
<1>4. QED
  BY <1>1, <1>3 DEF Copies, TypeOK, AgentTypes, RelayTypes, ConsoleTypes

LEMMA LookCopies ==
    ASSUME TypeOK, NEW g \in Goroutines, Look(g)
    PROVE  Copies /\ UNCHANGED <<card, snap>>
<1> DEFINE m == [t |-> "updated", st |-> info, v |-> ver]
<1>1. /\ UNCHANGED <<info, ver, client, passed, losses, ends, overruns, hello, seen, snap,
                     card, box, hand>>
      /\ rep' = [rep EXCEPT ![g] = m]
  BY DEF Look, RecordOnly, sessionVars, procVars, pastVars, linkVars, relayVars, consoleVars
<1>2. m \in Messages /\ Shown(m) = Record
  BY DEF TypeOK, AgentTypes, Messages, Reported, Shown, Record
<1> HIDE DEF m
<1>3. TypeOK'
  BY <1>1, <1>2 DEF TypeOK, AgentTypes, RelayTypes, ConsoleTypes
<1>4. \A f \in Goroutines : rep'[f] = rep[f] \/ Shown(rep'[f]) = Record
  BY <1>1, <1>2 DEF TypeOK, AgentTypes
<1>5. ASSUME NEW x, Held(x)' PROVE Held(x)
  <2>1. Record' = Record
    BY <1>1 DEF Record
  <2>2. QED
    BY <1>1, <1>4, <1>5, <2>1 DEF Held
<1>6. QED
  BY <1>1, <1>3, <1>5 DEF Copies

(* A message is added to the queue of one connection. *)
LEMMA QueueHolds ==
    ASSUME TypeOK, NEW m \in Messages, Queue(m)
    PROVE  /\ box' \in [Conns -> Seq(Messages)]
           /\ \A h \in Conns : \A i \in 1..Len(box'[h]) :
                (i \in 1..Len(box[h]) /\ box'[h][i] = box[h][i]) \/ box'[h][i] = m
<1>1. \A h \in Conns : box[h] \in Seq(Messages) /\ Append(box[h], m) \in Seq(Messages)
  BY DEF TypeOK, RelayTypes
<1>2. \A h \in Conns : box'[h] = box[h] \/ box'[h] = Append(box[h], m)
  BY DEF Queue, TypeOK, RelayTypes
<1>3. box' \in [Conns -> Seq(Messages)]
  BY <1>1 DEF Queue, TypeOK, RelayTypes
<1>4. ASSUME NEW h \in Conns, NEW i \in 1..Len(box'[h])
      PROVE  (i \in 1..Len(box[h]) /\ box'[h][i] = box[h][i]) \/ box'[h][i] = m
  BY <1>1, <1>2
<1>5. QED
  BY <1>3, <1>4

LEMMA SendCopies ==
    ASSUME TypeOK, NEW g \in Goroutines, Send(g)
    PROVE  Copies /\ UNCHANGED <<card, snap>>
<1> DEFINE m == rep[g]
<1>1. /\ UNCHANGED <<info, ver, client, passed, losses, ends, overruns, hello, seen, snap,
                     card, hand>>
      /\ rep' = [rep EXCEPT ![g] = Idle] /\ m.t \in Reported
      /\ Queue(m) \/ box' = box
  BY DEF Send, Reported, sessionVars, procVars, pastVars, linkVars, relayVars, consoleVars
<1>2. m \in Messages
  BY <1>1 DEF TypeOK, AgentTypes, Steps, Reported
<1>3. Held(Shown(m))
  BY <1>1 DEF Held
<1> HIDE DEF m
<1>4. /\ box' \in [Conns -> Seq(Messages)]
      /\ \A h \in Conns : \A i \in 1..Len(box'[h]) :
           (i \in 1..Len(box[h]) /\ box'[h][i] = box[h][i]) \/ box'[h][i] = m
  BY <1>1, <1>2, QueueHolds DEF TypeOK, RelayTypes
<1>5. Idle \in Steps /\ Idle.t \notin Reported
  BY DEF Idle, Steps, Reported
<1>6. /\ rep' \in [Goroutines -> Steps \cup Messages]
      /\ \A f \in Goroutines : rep'[f] = rep[f] \/ rep'[f].t \notin Reported
  BY <1>1, <1>5 DEF TypeOK, AgentTypes
<1>7. TypeOK'
  BY <1>1, <1>4, <1>6 DEF TypeOK, AgentTypes, RelayTypes, ConsoleTypes
<1>8. ASSUME NEW x, Held(x)' PROVE Held(x) \/ x = None
  <2>1. CASE \E h \in Conns : \E i \in 1..Len(box'[h]) : x = Shown(box'[h][i])
    BY <1>3, <1>4, <2>1 DEF Held
  <2>2. QED
    BY <1>1, <1>6, <1>8, <2>1 DEF Held, Record
<1>9. QED
  BY <1>1, <1>7, <1>8 DEF Copies

Known(x) == Held(x) \/ x = None

(* Everything that is somewhere is known ... *)
LEMMA KnownNow ==
    /\ Known(hello) /\ Known(seen) /\ Known(Record) /\ Known(None)
    /\ \A c \in Consoles : Known(snap[c]) /\ Known(card[c])
    /\ \A h \in Conns : \A i \in 1..Len(box[h]) : Known(Shown(box[h][i]))
    /\ \A h \in Conns : hand[h].t # "idle" => Known(Shown(hand[h].m))
  BY DEF Known, Held

(* ... and stays so in a step that puts nothing unknown anywhere. *)
LEMMA KnownCopies ==
    ASSUME TypeOK, UNCHANGED <<info, ver, client, passed, losses, ends, overruns, rep>>,
           Known(hello'), Known(seen'),
           box' \in [Conns -> Seq(Messages)],
           \A h \in Conns : \A i \in 1..Len(box'[h]) : Known(Shown(box'[h][i])),
           hand' \in [Conns -> {Idle} \cup [m : Messages, t : {"lock", "list", "tell"}]],
           \A h \in Conns : hand'[h].t # "idle" => Known(Shown(hand'[h].m)),
           snap' \in [Consoles -> Records], card' \in [Consoles -> Records],
           \A c \in Consoles : Known(snap'[c]) /\ Known(card'[c])
    PROVE  Copies
<1>1. \A x : Known(x) => x \in Records
  BY HeldTyped, NoneTyped DEF Known
<1>2. hello' \in Records /\ seen' \in Records
  BY <1>1
<1>3. TypeOK'
  BY <1>2 DEF TypeOK, AgentTypes, RelayTypes, ConsoleTypes
<1>4. ASSUME NEW x, Held(x)' PROVE Known(x)
  <2>1. CASE x \in {Record', hello', seen'}
    <3>1. Record' = Record
      BY DEF Record
    <3>2. QED
      BY <2>1, <3>1, KnownNow
  <2>2. CASE \E g \in Goroutines : rep'[g].t \in Reported /\ x = Shown(rep'[g])
    BY <2>2 DEF Known, Held
  <2>3. QED
    BY <1>4, <2>1, <2>2 DEF Held
<1>5. QED
  BY <1>3, <1>4 DEF Copies, Known

(* The agent's connection. *)

LEMMA LinkCopies ==
    ASSUME TypeOK, Dial \/ Publish \/ SendHello \/ Notice \/ Break
    PROVE  Copies /\ UNCHANGED <<card, snap>>
<1>1. /\ UNCHANGED <<info, ver, client, passed, losses, ends, overruns, rep, hand, seen,
                     snap, card>>
      /\ hello' = hello \/ (hello' \in {Record, None} /\ box' = box)
  BY DEF Dial, Publish, SendHello, Notice, Break, sessionVars, procVars, pastVars, relayVars,
         consoleVars
<1>2. Known(hello')
  BY <1>1, KnownNow
<1>3. box' \in [Conns -> Seq(Messages)]
      /\ \A h \in Conns : \A i \in 1..Len(box'[h]) : Known(Shown(box'[h][i]))
  <2>1. CASE box' = box
    BY <2>1, KnownNow DEF TypeOK, RelayTypes
  <2>2. CASE SendHello
    <3> DEFINE m == [t |-> "hello", st |-> hello.st, v |-> hello.v]
    <3>1. m \in Messages /\ Shown(m) = hello
      BY DEF TypeOK, AgentTypes, Messages, Records, Shown
    <3>2. Queue(m)
      BY <2>2 DEF SendHello
    <3> HIDE DEF m
    <3>3. QED
      BY <3>1, <3>2, QueueHolds, KnownNow
  <2>3. CASE Break
    <3>1. PICK n \in 0..Len(box[dialled]) : box' = [box EXCEPT ![dialled] = SubSeq(@, 1, n)]
      BY <2>3 DEF Break
    <3>2. ASSUME NEW h \in Conns
          PROVE  /\ box'[h] \in Seq(Messages)
                 /\ \A i \in 1..Len(box'[h]) : i \in 1..Len(box[h]) /\ box'[h][i] = box[h][i]
      <4>1. box[h] \in Seq(Messages)
        BY DEF TypeOK, RelayTypes
      <4>2. CASE h # dialled
        BY <3>1, <4>1, <4>2 DEF TypeOK, RelayTypes
      <4>3. CASE h = dialled
        <5>1. n \in 0..Len(box[h]) /\ box'[h] = SubSeq(box[h], 1, n)
          BY <3>1, <4>3 DEF TypeOK, RelayTypes
        <5>2. QED
          BY <4>1, <5>1
      <4>4. QED
        BY <4>2, <4>3
    <3>3. box' \in [Conns -> Seq(Messages)]
      BY <3>1, <3>2 DEF TypeOK, RelayTypes
    <3>4. QED
      BY <3>2, <3>3, KnownNow
  <2>4. QED
    BY <2>1, <2>2, <2>3 DEF Dial, Publish, Notice
<1>4. QED
  BY <1>1, <1>2, <1>3, KnownNow, KnownCopies DEF TypeOK, RelayTypes, ConsoleTypes

(* A connection's queue loses what was in it, or its first message. *)
LEMMA RegisterCopies ==
    ASSUME TypeOK, Register
    PROVE  Copies /\ UNCHANGED <<card, snap>>
<1>1. /\ UNCHANGED <<info, ver, client, passed, losses, ends, overruns, rep, hello, hand,
                     seen, snap, card>>
      /\ box' = [h \in Conns |-> IF h = waiting THEN box[h] ELSE <<>>]
  BY DEF Register, sessionVars, procVars, pastVars, linkVars, consoleVars
<1>2. <<>> \in Seq(Messages) /\ Len(<<>>) = 0
  OBVIOUS
<1>3. box' \in [Conns -> Seq(Messages)]
      /\ \A h \in Conns : box'[h] = box[h] \/ box'[h] = <<>>
  BY <1>1, <1>2 DEF TypeOK, RelayTypes
<1>4. \A h \in Conns : \A i \in 1..Len(box'[h]) : Known(Shown(box'[h][i]))
  BY <1>2, <1>3, KnownNow
<1>5. QED
  BY <1>1, <1>3, <1>4, KnownNow, KnownCopies DEF TypeOK, RelayTypes, ConsoleTypes

LEMMA ReadCopies ==
    ASSUME TypeOK, NEW h \in Conns, Read(h)
    PROVE  Copies /\ UNCHANGED <<card, snap>>
<1> DEFINE s == box[h]
           e == [m |-> Head(s), t |-> "lock"]
<1>1. /\ UNCHANGED <<info, ver, client, passed, losses, ends, overruns, rep, hello, seen,
                     snap, card>>
      /\ hand' = [hand EXCEPT ![h] = e] /\ box' = [box EXCEPT ![h] = Tail(s)] /\ s # <<>>
  BY DEF Read, sessionVars, procVars, pastVars, linkVars, consoleVars
<1>2. s \in Seq(Messages)
  BY DEF TypeOK, RelayTypes
<1> HIDE DEF s
<1>3. /\ Head(s) = s[1] /\ Head(s) \in Messages /\ 1 \in 1..Len(s)
      /\ Tail(s) \in Seq(Messages)
      /\ \A i \in 1..Len(Tail(s)) : i + 1 \in 1..Len(s) /\ Tail(s)[i] = s[i + 1]
  BY <1>1, <1>2
<1>4. /\ e \in [m : Messages, t : {"lock", "list", "tell"}] /\ Known(Shown(e.m))
  BY <1>3, KnownNow DEF s
<1>5. /\ hand' \in [Conns -> {Idle} \cup [m : Messages, t : {"lock", "list", "tell"}]]
      /\ \A g \in Conns : hand'[g].t # "idle" => Known(Shown(hand'[g].m))
  <2> HIDE DEF e
  <2>1. \A g \in Conns : hand'[g] = IF g = h THEN e ELSE hand[g]
    BY <1>1 DEF TypeOK, RelayTypes
  <2>2. QED
    BY <1>1, <1>4, <2>1, KnownNow DEF TypeOK, RelayTypes
<1>6. /\ box' \in [Conns -> Seq(Messages)]
      /\ \A g \in Conns : \A i \in 1..Len(box'[g]) : Known(Shown(box'[g][i]))
  <2>1. \A g \in Conns : box'[g] = IF g = h THEN Tail(s) ELSE box[g]
    BY <1>1 DEF TypeOK, RelayTypes
  <2>2. \A i \in 1..Len(Tail(s)) : Known(Shown(Tail(s)[i]))
    BY <1>3, KnownNow DEF s
  <2>3. box' \in [Conns -> Seq(Messages)]
    BY <1>1, <1>3 DEF TypeOK, RelayTypes
  <2>4. QED
    BY <2>1, <2>2, <2>3, KnownNow
<1>7. QED
  BY <1>1, <1>5, <1>6, KnownNow, KnownCopies DEF TypeOK, RelayTypes, ConsoleTypes
(* The relay's handlers. *)

(* A handler at the message m comes to another point of its way, or its end. *)
LEMMA HandHolds ==
    ASSUME TypeOK, NEW h \in Conns,
           NEW e \in {Idle} \cup [m : Messages, t : {"lock", "list", "tell"}],
           hand' = [hand EXCEPT ![h] = e],
           e = Idle \/ Known(Shown(e.m))
    PROVE  /\ hand' \in [Conns -> {Idle} \cup [m : Messages, t : {"lock", "list", "tell"}]]
           /\ \A g \in Conns : hand'[g].t # "idle" => Known(Shown(hand'[g].m))
<1>1. \A g \in Conns : hand'[g] = IF g = h THEN e ELSE hand[g]
  BY DEF TypeOK, RelayTypes
<1>2. Idle.t = "idle"
  BY DEF Idle
<1>3. QED
  BY <1>1, <1>2, KnownNow DEF TypeOK, RelayTypes

LEMMA BusyHand ==
    ASSUME TypeOK, NEW h \in Conns, hand[h].t # "idle"
    PROVE  hand[h].m \in Messages /\ Known(Shown(hand[h].m))
  BY KnownNow DEF TypeOK, RelayTypes, Idle

LEMMA UpdateCopies ==
    ASSUME TypeOK, NEW h \in Conns, NEW new, NEW next \in {"idle", "list", "tell"},
           Updates(h, new, next), Known(new)
    PROVE  Copies /\ UNCHANGED <<card, snap>>
<1> DEFINE e == IF next = "idle" THEN Idle ELSE [m |-> hand[h].m, t |-> next]
<1>1. /\ UNCHANGED <<info, ver, client, passed, losses, ends, overruns, rep, hello, box,
                     snap, card>>
      /\ hand[h].t = "lock" /\ seen' = new /\ hand' = [hand EXCEPT ![h] = e]
  BY DEF Updates, sessionVars, procVars, pastVars, linkVars, consoleVars
<1>2. hand[h].m \in Messages /\ Known(Shown(hand[h].m))
  BY <1>1, BusyHand
<1>3. /\ e \in {Idle} \cup [m : Messages, t : {"lock", "list", "tell"}]
      /\ e = Idle \/ Known(Shown(e.m))
  BY <1>2
<1> HIDE DEF e
<1>4. /\ hand' \in [Conns -> {Idle} \cup [m : Messages, t : {"lock", "list", "tell"}]]
      /\ \A g \in Conns : hand'[g].t # "idle" => Known(Shown(hand'[g].m))
  BY <1>1, <1>3, HandHolds
<1>5. QED
  BY <1>1, <1>4, KnownNow, KnownCopies DEF TypeOK, RelayTypes, ConsoleTypes

(* What a handler writes is what was there, its message, or nothing. *)
LEMMA HandlerCopies ==
    ASSUME TypeOK, NEW h \in Conns, OnHello(h) \/ OnSessionUpsert(h) \/ OnSessionState(h)
    PROVE  Copies /\ UNCHANGED <<card, snap>>
<1>1. hand[h].t = "lock"
  BY DEF OnHello, OnSessionUpsert, OnSessionState
<1>2. Known(Shown(hand[h].m)) /\ Known(seen) /\ Known(None)
  BY <1>1, BusyHand, KnownNow
<1>3. \E new : \E next \in {"idle", "list", "tell"} : Known(new) /\ Updates(h, new, next)
  <2>1. CASE OnHello(h)
    BY <1>2, <2>1 DEF OnHello
  <2>2. CASE OnSessionUpsert(h)
    BY <1>2, <2>2 DEF OnSessionUpsert
  <2>3. CASE OnSessionState(h)
    BY <1>2, <2>3 DEF OnSessionState
  <2>4. QED
    BY <2>1, <2>2, <2>3
<1>4. QED
  BY <1>3, UpdateCopies

LEMMA ReadListCopies ==
    ASSUME TypeOK, NEW h \in Conns, ReadList(h)
    PROVE  Copies /\ UNCHANGED <<card, snap>>
<1> DEFINE m == [t |-> "list", st |-> seen.st, v |-> seen.v]
           e == [m |-> m, t |-> "tell"]
<1>1. /\ UNCHANGED <<info, ver, client, passed, losses, ends, overruns, rep, hello, box,
                     seen, snap, card>>
      /\ hand' = [hand EXCEPT ![h] = e]
  BY DEF ReadList, sessionVars, procVars, pastVars, linkVars, consoleVars
<1>2. m \in Messages /\ Shown(m) = seen
  BY DEF TypeOK, RelayTypes, Messages, Records, Shown
<1> HIDE DEF m
<1>3. /\ e \in {Idle} \cup [m : Messages, t : {"lock", "list", "tell"}]
      /\ Known(Shown(e.m))
  BY <1>2, KnownNow
<1> HIDE DEF e
<1>4. /\ hand' \in [Conns -> {Idle} \cup [m : Messages, t : {"lock", "list", "tell"}]]
      /\ \A g \in Conns : hand'[g].t # "idle" => Known(Shown(hand'[g].m))
  BY <1>1, <1>3, HandHolds
<1>5. QED
  BY <1>1, <1>4, KnownNow, KnownCopies DEF TypeOK, RelayTypes, ConsoleTypes

(* A broadcast puts its message on the cards. *)
LEMMA TellCopies ==
    ASSUME TypeOK, NEW h \in Conns, Tell(h)
    PROVE  Copies /\ \A c \in Consoles : card'[c] = card[c] \/ Known(card'[c])
<1>1. /\ UNCHANGED <<info, ver, client, passed, losses, ends, overruns, rep, hello, box,
                     seen, snap>>
      /\ hand' = [hand EXCEPT ![h] = Idle] /\ hand[h].t = "tell"
      /\ card' = [c \in Consoles |-> IF view[c] = "off" THEN card[c] ELSE Noted(c, hand[h].m)]
  BY DEF Tell, sessionVars, procVars, pastVars, linkVars
<1>2. Known(Shown(hand[h].m)) /\ Known(None)
  BY <1>1, BusyHand, KnownNow
<1>3. \A c \in Consoles : Noted(c, hand[h].m) \in {None, Shown(hand[h].m)}
  BY DEF Noted
<1>4. \A c \in Consoles : card'[c] \in {card[c], None, Shown(hand[h].m)}
  BY <1>1, <1>3
<1>5. \A c \in Consoles : Known(card'[c])
  BY <1>2, <1>4, KnownNow
<1>6. card' \in [Consoles -> Records]
  <2>1. \A c \in Consoles : card'[c] \in Records
    BY <1>5, HeldTyped, NoneTyped DEF Known
  <2>2. card' = [c \in Consoles |-> card'[c]]
    BY <1>1
  <2>3. QED
    BY <2>1, <2>2
<1>7. /\ hand' \in [Conns -> {Idle} \cup [m : Messages, t : {"lock", "list", "tell"}]]
      /\ \A g \in Conns : hand'[g].t # "idle" => Known(Shown(hand'[g].m))
  BY <1>1, HandHolds
<1>8. Copies
  BY <1>1, <1>5, <1>6, <1>7, KnownNow, KnownCopies DEF TypeOK, RelayTypes, ConsoleTypes
<1>9. QED
  BY <1>5, <1>8

LEMMA RestartCopies ==
    ASSUME TypeOK, RelayRestart
    PROVE  Copies /\ UNCHANGED card
<1>1. /\ UNCHANGED <<info, ver, client, passed, losses, ends, overruns, rep, hello, card>>
      /\ seen' = None /\ box' = [h \in Conns |-> <<>>] /\ hand' = [h \in Conns |-> Idle]
      /\ snap' = [c \in Consoles |-> None]
  BY DEF RelayRestart, sessionVars, procVars, pastVars
<1>2. <<>> \in Seq(Messages) /\ Len(<<>>) = 0 /\ Idle.t = "idle"
  BY DEF Idle
<1>3. box' \in [Conns -> Seq(Messages)]
      /\ \A h \in Conns : \A i \in 1..Len(box'[h]) : Known(Shown(box'[h][i]))
  BY <1>1, <1>2
<1>4. QED
  BY <1>1, <1>2, <1>3, NoneTyped, KnownNow, KnownCopies DEF TypeOK, ConsoleTypes

(* Consoles. *)

LEMMA ConsoleCopies ==
    ASSUME TypeOK, NEW c \in Consoles, Join(c) \/ List(c) \/ Leave(c)
    PROVE  Copies /\ \A d \in Consoles : card'[d] = card[d] \/ Known(card'[d])
<1>1. UNCHANGED <<info, ver, client, passed, losses, ends, overruns, rep, hello, box, hand,
                  seen>>
  BY DEF Join, List, Leave, sessionVars, procVars, pastVars, linkVars, relayVars
<1>2. \E r \in {seen, None} : snap' = [snap EXCEPT ![c] = r]
  BY DEF Join, List, Leave
<1>3. card' = card \/ card' = [card EXCEPT ![c] = snap[c]]
  BY DEF Join, List, Leave
<1>4. /\ snap' \in [Consoles -> Records]
      /\ \A d \in Consoles : snap'[d] \in {snap[d], seen, None}
  BY <1>2, NoneTyped DEF TypeOK, RelayTypes, ConsoleTypes
<1>5. /\ card' \in [Consoles -> Records]
      /\ \A d \in Consoles : card'[d] \in {card[d], snap[d]}
  BY <1>3 DEF TypeOK, ConsoleTypes
<1>6. \A d \in Consoles : Known(snap'[d]) /\ Known(card'[d])
  BY <1>4, <1>5, KnownNow
<1>7. Copies
  BY <1>1, <1>4, <1>5, <1>6, KnownNow, KnownCopies DEF TypeOK, RelayTypes
<1>8. QED
  BY <1>6, <1>7

-------------------------------------------------------------------------------
(* The invariant *)

LEMMA InitIInv ==
    ASSUME Init
    PROVE  IInv
<1> USE DEF Init
<1>1. AgentTypes
  <2>1. \A g \in Goroutines : rep[g] = [t |-> "open"] \/ rep[g] = Idle
    OBVIOUS
  <2>2. [t |-> "open"] \in Steps /\ Idle \in Steps
    BY DEF Steps, Idle
  <2>3. rep \in [Goroutines -> Steps \cup Messages]
    BY <2>2
  <2>4. QED
    BY <2>3, NoneTyped, Names DEF AgentTypes
<1>2. RelayTypes /\ ConsoleTypes
  BY NoneTyped DEF RelayTypes, ConsoleTypes
<1>3. ASSUME NEW x, Held(x) PROVE x.v <= ver /\ x.st # "exited"
  <2>1. \A g \in Goroutines : rep[g].t \notin Reported
    BY DEF Reported, Idle
  <2>2. /\ \A h \in Conns : hand[h].t = "idle" /\ box[h] = <<>>
        /\ \A c \in Consoles : snap[c] = None /\ card[c] = None
    BY DEF Idle
  <2>3. x \in {Record, None}
    BY <1>3, <2>1, <2>2 DEF Held
  <2>4. QED
    BY <2>3 DEF Record, None
<1>4. Ordered
  BY <1>3 DEF Ordered, Follows
<1>5. QED
  BY <1>1, <1>2, <1>4 DEF IInv, TypeOK, DeadStays

LEMMA NextIInv ==
    ASSUME IInv, Next
    PROVE  IInv' /\ \A c \in Consoles : card'[c] = card[c] \/ Known(card'[c])
<1>0. TypeOK
  BY DEF IInv
<1>1. CASE RecordSteps
  BY <1>1, RecordStepsKeep
<1>2. CASE \E g \in Goroutines : Report(g)
  BY <1>0, <1>2, LookCopies, SendCopies, CopiesKeep DEF Report
<1>3. CASE Dial \/ Publish \/ SendHello \/ Break \/ Notice
  BY <1>0, <1>3, LinkCopies, CopiesKeep
<1>4. CASE Register
  BY <1>0, <1>4, RegisterCopies, CopiesKeep
<1>5. CASE RelayRestart
  BY <1>0, <1>5, RestartCopies, CopiesKeep
<1>6. CASE \E h \in Conns : Handle(h)
  <2> PICK h \in Conns : Handle(h)
    BY <1>6
  <2>1. CASE Read(h)
    BY <1>0, <2>1, ReadCopies, CopiesKeep
  <2>2. CASE OnHello(h) \/ OnSessionUpsert(h) \/ OnSessionState(h)
    BY <1>0, <2>2, HandlerCopies, CopiesKeep
  <2>3. CASE ReadList(h)
    BY <1>0, <2>3, ReadListCopies, CopiesKeep
  <2>4. CASE Tell(h)
    BY <1>0, <2>4, TellCopies, CopiesKeep
  <2>5. QED
    BY <2>1, <2>2, <2>3, <2>4 DEF Handle
<1>7. CASE \E c \in Consoles : Join(c) \/ List(c) \/ Leave(c)
  BY <1>0, <1>7, ConsoleCopies, CopiesKeep
<1>8. CASE ClientLost
  BY <1>0, <1>8, ClientLostCopies, CopiesKeep
<1>9. QED
  BY <1>1, <1>2, <1>3, <1>4, <1>5, <1>6, <1>7, <1>8 DEF Next, RecordSteps

LEMMA StillIInv ==
    ASSUME IInv, UNCHANGED vars
    PROVE  IInv'
<1>1. Copies
  BY KnownNow, KnownCopies
     DEF IInv, vars, sessionVars, procVars, pastVars, linkVars, relayVars, consoleVars,
         TypeOK, RelayTypes, ConsoleTypes
<1>2. QED
  BY <1>1, CopiesKeep

(* Of any two records that are shown anywhere, one that shows an exit and a    *)
(* later one that does not are on both sides of the end of a kill_resume, or   *)
(* of a takeback that one had passed.                                          *)
THEOREM RecordsInOrder == Spec => []IInv
<1>1. Init => IInv
  BY InitIInv
<1>2. IInv /\ [Next]_vars => IInv'
  BY NextIInv, StillIInv
<1>3. QED
  BY <1>1, <1>2, PTL DEF Spec

-------------------------------------------------------------------------------
(* A card that showed the exit of a session shows a live one again only when a *)
(* kill_resume, or a takeback that one had passed, has ended between the two,  *)
(* or the report is older than what the card showed: Session.SetState,          *)
(* Session.KillResume, Session.reattach, onSessionState, the reducer.           *)

LEMMA StepStands ==
    ASSUME IInv, Next, NEW c \in Consoles, Undone(c)
    PROVE  Between(c, Opens) \/ card'[c].v < card[c].v
<1> DEFINE x == card[c]
           y == card'[c]
<1>1. x.st = "exited" /\ x.v \notin losses /\ y.st \notin {"none", "exited"}
  BY Names DEF Undone
<1>2. Held(x)
  BY DEF Held
<1>3. Held(y)
  <2>1. y # x
    BY <1>1
  <2>2. y # None
    BY <1>1 DEF None
  <2>3. QED
    BY <2>1, <2>2, NextIInv DEF Known
<1>4. x.v \in Nat /\ y.v \in Nat /\ Follows(x, y)
  BY <1>2, <1>3, HeldNumbers DEF IInv, Ordered
<1>5. QED
  BY <1>1, <1>4 DEF Follows, Between

THEOREM ExitsStand == Spec => ExitStands
<1>1. IInv /\ [Next]_vars =>
        [\A c \in Consoles :
           Undone(c) => Between(c, ends \cup overruns) \/ card'[c].v < card[c].v]_vars
  BY StepStands DEF Opens
<1>2. QED
  BY <1>1, RecordsInOrder, PTL DEF Spec, ExitStands
===============================================================================
