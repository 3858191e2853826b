----------------------------- MODULE SessionProofs -----------------------------
(***************************************************************************)
(* Theorems about internal/session: the processes behind a session and, in   *)
(* the last section, its scrollback ring, for every capacity, every set of   *)
(* write sizes and every stream length.                                      *)
(*                                                                          *)
(* For any number of processes: without tmux a session never has two         *)
(* shells, and a running current shell is never declared dead.               *)
(*                                                                          *)
(* The argument: without tmux only kill_resume spawns, and it does so with   *)
(* no process running (SoleRunner), because it waits for p.exited, which a    *)
(* waitLoop closes after recording a genuine exit (GenuineIsCurrent), unless *)
(* the session already says its process is dead, and then it is              *)
(* (CurrentIsAlive).                                                         *)
(*                                                                          *)
(* Inside tmux as outside, a session that says it is alive is backed by a    *)
(* process, but for one that was over before it was installed (missed):      *)
(* whatever else is about to be installed stands (InstalledStands).          *)
(***************************************************************************)
EXTENDS SessionLife, Ring, TLAPS

(* Without tmux nothing is ever taken back. *)
NothingToTakeBack ==
    ~tmux /\ \A g \in Gens : stage[g] \notin {"takeback", "install", "failing"}

(* Only the current process runs, or the one kill_resume is about to install. *)
SoleRunner ==
    \A g \in Gens : stage[g] = "running" =>
        \/ killer \in {"idle", "stop"} /\ g = cur
        \/ killer = "install" /\ g = new

(* An exit being recorded is the current process's, and kill_resume waits for it. *)
GenuineIsCurrent ==
    \A g \in Gens : stage[g] \in {"genuine", "record"} =>
        killer \in {"idle", "stop"} /\ g = cur

(* A current process whose exit is not recorded is said to be alive. *)
CurrentIsAlive ==
    ~closed /\ killer \in {"idle", "stop"} /\ cur # 0
        /\ stage[cur] \in {"running", "ended", "genuine", "record"} => alive

(* kill_resume waits for the current process and spawns one beside it. *)
KillerKnows ==
    /\ cur # 0 => stage[cur] # "unborn"
    /\ killer = "stop" => old = cur /\ cur # 0
    /\ killer = "install" => new # 0 /\ new # cur /\ stage[new] # "unborn"

BareInv ==
    ~persist =>
        NothingToTakeBack /\ SoleRunner /\ GenuineIsCurrent /\ CurrentIsAlive /\ KillerKnows

IInv == TypeOK /\ BareInv

-------------------------------------------------------------------------------
LEMMA InitIInv == Init => IInv
<1> SUFFICES ASSUME Init PROVE IInv
  OBVIOUS
<1>1. 1 \in Gens /\ 0 \in 0..MaxGen /\ Gens \subseteq 0..MaxGen
  BY BoundsAssumption DEF Gens
<1>2. TypeOK
  <2>1. {persist, tmux, alive, killing, closed, kept, meta} \subseteq BOOLEAN
    BY DEF Init
  <2>2. stage \in [Gens -> Stages] /\ child \in [Gens -> 0..MaxGen] /\ doomed \subseteq Gens
    BY <1>1 DEF Init, Stages, Started
  <2>3. /\ missed \subseteq Gens /\ {cur, old, new, victim} \subseteq 0..MaxGen /\ fast \in 0..(MaxFast + 1)
        /\ lost \in 0..MaxLost /\ restarts \in 0..MaxRestarts
    BY <1>1, BoundsAssumption DEF Init
  <2>4. /\ killer \in {"idle", "stop", "spawn", "install", "failing"}
        /\ killing = (killer # "idle") /\ (killer = "stop" => old # 0)
        /\ closer \in {"idle", "tmux", "terminate", "forget", "done"}
    BY DEF Init
  <2>5. QED
    BY <2>1, <2>2, <2>3, <2>4 DEF TypeOK
<1>3. BareInv
  BY <1>1 DEF Init, Started, BareInv, NothingToTakeBack, SoleRunner, GenuineIsCurrent,
     CurrentIsAlive, KillerKnows
<1>4. QED
  BY <1>2, <1>3 DEF IInv

(* Every step keeps the types. *)
LEMMA NextTypeOK == TypeOK /\ [Next]_vars => TypeOK'
<1> SUFFICES ASSUME TypeOK, [Next]_vars PROVE TypeOK'
  OBVIOUS
<1> USE BoundsAssumption DEF TypeOK
<1>0. Gens \subseteq 0..MaxGen /\ 0 \in 0..MaxGen
  BY DEF Gens
<1>a. ASSUME NEW g \in Gens, Ends(g)
      PROVE  /\ stage' \in [Gens -> Stages]
             /\ UNCHANGED <<persist, tmux, child, doomed, cur, alive, killing, closed, fast,
                            killer, old, new, closer, victim, kept, meta, restarts,
                            missed>>
  BY <1>a DEF Ends, Stages, sessionVars, killVars, closeVars
<1>1. CASE \E g \in Gens : EndsForced(g)
  BY <1>a, <1>1 DEF EndsForced
<1>2. CASE \E g \in Gens : EndsAlone(g)
  BY <1>a, <1>2 DEF EndsAlone
<1>3. CASE \E g \in Gens : ClientLost(g)
  <2>1. lost' \in 0..MaxLost
    BY <1>3 DEF ClientLost
  <2>2. QED
    BY <1>a, <1>3, <2>1 DEF ClientLost
<1>4. CASE \E g \in Gens : Decide(g)
  <2> PICK g \in Gens : Decide(g)
    BY <1>4
  <2>1. stage' \in [Gens -> Stages] /\ missed' \subseteq Gens
    BY DEF Decide, Overlook, Stages
  <2>2. QED
    BY <2>1 DEF Decide, sessionVars, killVars, closeVars
<1>5. CASE \E g \in Gens : AskTmux(g)
  <2> PICK g \in Gens : AskTmux(g)
    BY <1>5
  <2>1. stage' \in [Gens -> Stages]
    BY DEF AskTmux, Stages
  <2>2. QED
    BY <2>1 DEF AskTmux, sessionVars, killVars, closeVars, countVars
<1>6. CASE \E g \in Gens : Record(g)
  <2> PICK g \in Gens : Record(g)
    BY <1>6
  <2>1. stage' \in [Gens -> Stages] /\ alive' \in BOOLEAN
    BY DEF Record, Stages
  <2>2. QED
    BY <2>1 DEF Record, killVars, closeVars, countVars
<1>7. CASE \E g \in Gens : Bury(g)
  <2> PICK g \in Gens : Bury(g)
    BY <1>7
  <2>1. stage' \in [Gens -> Stages]
    BY DEF Bury, Stages
  <2>2. QED
    BY <2>1 DEF Bury, sessionVars, killVars, closeVars, countVars
<1>8. CASE \E g \in Gens : Notify(g)
  <2> PICK g \in Gens : Notify(g)
    BY <1>8
  <2>1. stage' \in [Gens -> Stages]
    BY DEF Notify, Stages
  <2>2. QED
    BY <2>1 DEF Notify, sessionVars, killVars, closeVars, countVars
<1>9. CASE \E g \in Gens : TakeBack(g)
  <2> PICK g \in Gens : TakeBack(g)
    BY <1>9
  <2>1. fast' \in 0..(MaxFast + 1)
    BY DEF TakeBack
  <2>2. CASE stage' = [stage EXCEPT ![g] = "failing"] /\ UNCHANGED <<tmux, child>>
    <3>1. stage' \in [Gens -> Stages]
      BY <2>2 DEF Stages
    <3>2. QED
      BY <2>1, <2>2, <3>1 DEF TakeBack, killVars, closeVars, countVars
  <2>3. ASSUME NEW h \in Gens, Spawn(h), child' = [child EXCEPT ![g] = h],
               stage' = [stage EXCEPT ![g] = "install", ![h] = "running"]
        PROVE  TypeOK'
    <3>1. stage' \in [Gens -> Stages] /\ child' \in [Gens -> 0..MaxGen]
      BY <1>0, <2>3 DEF Stages
    <3>2. tmux' \in BOOLEAN
      BY <2>3 DEF Spawn
    <3>3. QED
      BY <2>1, <3>1, <3>2 DEF TakeBack, killVars, closeVars, countVars
  <2>4. QED
    BY <2>2, <2>3 DEF TakeBack
<1>10. CASE \E g \in Gens : Install(g)
  <2> PICK g \in Gens : Install(g)
    BY <1>10
  <2>1. /\ stage' \in [Gens -> Stages] /\ child' \in [Gens -> 0..MaxGen]
        /\ cur' \in 0..MaxGen /\ alive' \in BOOLEAN
    BY <1>0 DEF Install, Stages
  <2>2. QED
    BY <2>1 DEF Install, killVars, closeVars, countVars
<1>11. CASE \E g \in Gens : RecordFailure(g)
  <2> PICK g \in Gens : RecordFailure(g)
    BY <1>11
  <2>1. stage' \in [Gens -> Stages] /\ alive' \in BOOLEAN
    BY DEF RecordFailure, Stages
  <2>2. QED
    BY <2>1 DEF RecordFailure, killVars, closeVars, countVars
<1>12. CASE ShellEnds
  BY <1>0, <1>12 DEF ShellEnds, Stages, sessionVars, killVars, closeVars, countVars
<1>13. CASE KillResume
  BY <1>0, <1>13 DEF KillResume, Stages, sessionVars, killVars, closeVars, countVars
<1>14. CASE Terminate
  <2>1. old \in Gens
    BY <1>14 DEF Terminate, Gens
  <2>2. QED
    BY <1>0, <1>14, <2>1 DEF Terminate, Stages, sessionVars, killVars, closeVars, countVars
<1>15. CASE Stopped
  BY <1>0, <1>15 DEF Stopped, Stages, sessionVars, killVars, closeVars, countVars
<1>16. CASE Respawn
  BY <1>0, <1>16 DEF Respawn, Spawn, Fresh, Stages, sessionVars, killVars, closeVars,
     countVars
<1>17. CASE Resumed
  BY <1>0, <1>17 DEF Resumed, Stages, sessionVars, killVars, closeVars, countVars
<1>18. CASE ResumeFailed
  BY <1>0, <1>18 DEF ResumeFailed, Stages, sessionVars, killVars, closeVars, countVars
<1>19. CASE Close
  BY <1>0, <1>19 DEF Close, Leave, Stages, sessionVars, killVars, closeVars, countVars
<1>20. CASE Suspend
  BY <1>0, <1>20 DEF Suspend, Leave, Stages, sessionVars, killVars, closeVars, countVars
<1>21. CASE CloseTmux
  BY <1>0, <1>21 DEF CloseTmux, Stages, sessionVars, killVars, closeVars, countVars
<1>22. CASE CloseTerminate
  <2>1. victim \in Gens \cup {0}
    BY DEF Gens
  <2>2. doomed' \subseteq Gens
    BY <1>22, <2>1 DEF CloseTerminate
  <2>3. QED
    BY <1>0, <1>22, <2>2 DEF CloseTerminate, Stages, sessionVars, killVars, countVars
<1>23. CASE Forget
  BY <1>0, <1>23 DEF Forget, Stages, sessionVars, killVars, closeVars, countVars
<1>24. CASE Restart
  <2> PICK g \in Gens :
        /\ stage' = [h \in Gens |->
                       IF stage[h] # "unborn" THEN "reaped"
                       ELSE IF (tmux /\ meta) /\ h = g THEN Started(g, missed') ELSE "unborn"]
        /\ missed' \subseteq {g}
        /\ cur' = IF tmux /\ meta THEN g ELSE 0
        /\ alive' = (tmux /\ meta) /\ closed' = ~(tmux /\ meta)
        /\ closer' = IF tmux /\ meta THEN "idle" ELSE "done"
        /\ meta' = (tmux /\ meta)
    BY <1>24 DEF Restart
  <2>1. {alive', closed', meta'} \subseteq BOOLEAN
    OBVIOUS
  <2>2. stage' \in [Gens -> Stages] /\ child' \in [Gens -> 0..MaxGen] /\ doomed' \subseteq Gens
    BY <1>0, <1>24 DEF Restart, Stages, Started
  <2>3. missed' \subseteq Gens /\ {cur', old', new', victim'} \subseteq 0..MaxGen /\ closer' \in {"idle", "done"}
    BY <1>0, <1>24 DEF Restart
  <2>4. /\ {persist', tmux', killing', kept'} \subseteq BOOLEAN
        /\ killer' = "idle" /\ killing' = FALSE /\ fast' = 0
        /\ lost' = lost
    BY <1>24 DEF Restart
  <2>5. restarts' \in 0..MaxRestarts
    BY <1>24, MaxRestarts \in Nat DEF Restart
  <2>6. QED
    BY <2>1, <2>2, <2>3, <2>4, <2>5
<1>25. CASE UNCHANGED vars
  BY <1>25 DEF vars, sessionVars, killVars, closeVars, countVars
<1>26. QED
  BY <1>1, <1>2, <1>3, <1>4, <1>5, <1>6, <1>7, <1>8, <1>9, <1>10, <1>11, <1>12, <1>13,
     <1>14, <1>15, <1>16, <1>17, <1>18, <1>19, <1>20, <1>21, <1>22, <1>23, <1>24,
     <1>25 DEF Next, WaitLoop, Killer, Closer

(* One waitLoop, or the process it waits for, moves on. *)
Parts == NothingToTakeBack /\ SoleRunner /\ GenuineIsCurrent /\ CurrentIsAlive /\ KillerKnows

Moved(g, s, t) ==
    stage[g] = s /\ stage'[g] = t /\ \A h \in Gens \ {g} : stage'[h] = stage[h]

LEMMA ExceptMoves ==
    ASSUME TypeOK, NEW g \in Gens, NEW s, NEW t, stage[g] = s,
           stage' = [stage EXCEPT ![g] = t]
    PROVE  Moved(g, s, t)
BY DEF Moved, TypeOK

LEMMA MoveKeeps ==
    ASSUME TypeOK, Parts, NEW g \in Gens, NEW s, NEW t, Moved(g, s, t),
           UNCHANGED <<tmux, killer, closed, cur, old, new>>,
           alive' = alive \/ (alive' = FALSE /\ s = "record"),
           \/ s = "running" /\ t = "ended"
           \/ s = "ended" /\ t = "superseded"
           \/ s = "ended" /\ t = "genuine" /\ cur = g /\ killer = "idle"
           \/ s = "genuine" /\ t = "record"
           \/ s = "record" /\ t = "notify"
           \/ s \in {"superseded", "notify"} /\ t = "reaped"
    PROVE  Parts'
<1>0. /\ stage[g] = s /\ stage'[g] = t
      /\ \A h \in Gens : h = g \/ stage'[h] = stage[h]
      /\ s # "unborn" /\ t \notin {"unborn", "running", "takeback", "install", "failing"}
  BY DEF Moved
<1>1. NothingToTakeBack'
  BY <1>0 DEF Parts, NothingToTakeBack
<1>2. SoleRunner'
  BY <1>0 DEF Parts, SoleRunner
<1>3. GenuineIsCurrent'
  <2> SUFFICES ASSUME NEW h \in Gens, stage'[h] \in {"genuine", "record"}
               PROVE  killer \in {"idle", "stop"} /\ h = cur
    BY DEF GenuineIsCurrent
  <2>1. CASE h # g
    BY <1>0, <2>1 DEF Parts, GenuineIsCurrent
  <2>2. CASE h = g /\ t = "genuine"
    BY <2>2
  <2>3. CASE h = g /\ t = "record"
    BY <1>0, <2>3 DEF Parts, GenuineIsCurrent
  <2>4. QED
    BY <1>0, <2>1, <2>2, <2>3
<1>4. CurrentIsAlive'
  <2> SUFFICES ASSUME ~closed, killer \in {"idle", "stop"}, cur # 0,
                      stage'[cur] \in {"running", "ended", "genuine", "record"}
               PROVE  alive'
    BY DEF CurrentIsAlive
  <2>0. cur \in Gens
    BY DEF TypeOK, Gens
  <2>1. stage[cur] \in {"running", "ended", "genuine", "record"}
    BY <1>0, <2>0
  <2>2. alive
    BY <2>1 DEF Parts, CurrentIsAlive
  <2>3. CASE s = "record"
    <3>1. g = cur
      BY <1>0, <2>3 DEF Parts, GenuineIsCurrent
    <3>2. QED
      BY <1>0, <2>3, <3>1
  <2>4. QED
    BY <2>2, <2>3
<1>5. KillerKnows'
  <2>1. /\ cur # 0 => cur \in Gens
        /\ new # 0 => new \in Gens
    BY DEF TypeOK, Gens
  <2>2. \A h \in Gens : stage[h] # "unborn" => stage'[h] # "unborn"
    BY <1>0
  <2>3. QED
    BY <2>1, <2>2 DEF Parts, KillerKnows
<1>6. QED
  BY <1>1, <1>2, <1>3, <1>4, <1>5 DEF Parts

(* Nothing but the session's own flags changes, and only towards its end. *)
LEMMA StillKeeps ==
    ASSUME TypeOK, Parts, UNCHANGED <<stage, cur, new>>,
           tmux' = tmux \/ tmux' = FALSE,
           \/ UNCHANGED <<killer, old, alive, closed>>
           \/ UNCHANGED <<killer, old>> /\ closed'
    PROVE  Parts'
<1>1. (NothingToTakeBack /\ SoleRunner /\ GenuineIsCurrent)'
  BY DEF Parts, NothingToTakeBack, SoleRunner, GenuineIsCurrent
<1>2. (CurrentIsAlive /\ KillerKnows)'
  BY DEF Parts, CurrentIsAlive, KillerKnows
<1>3. QED
  BY <1>1, <1>2 DEF Parts

(* Without tmux, every step keeps the rest. *)
LEMMA NextBareInv == IInv /\ [Next]_vars => BareInv'
<1> SUFFICES ASSUME IInv, [Next]_vars, ~persist' PROVE Parts'
  BY DEF BareInv, Parts
<1>0. TypeOK /\ ~persist /\ Parts
  <2>1. persist' = persist
    BY DEF Next, WaitLoop, Killer, Closer, vars, Ends, EndsForced, EndsAlone, ClientLost,
       Decide, AskTmux, Record, Bury, Notify, TakeBack, Install, RecordFailure, ShellEnds,
       KillResume, Terminate, Stopped, Respawn, Resumed, ResumeFailed, Close, Suspend, Leave,
       CloseTmux, CloseTerminate, Forget, Restart
  <2>2. QED
    BY <2>1 DEF IInv, BareInv, Parts
<1>e. ASSUME NEW g \in Gens, Ends(g) PROVE Parts'
  <2>1. stage[g] = "running" /\ stage' = [stage EXCEPT ![g] = "ended"]
        /\ UNCHANGED <<tmux, killer, closed, cur, old, new, alive>>
    BY <1>e DEF Ends, sessionVars, killVars
  <2>2. QED
    BY <1>0, <2>1, ExceptMoves, MoveKeeps
<1>1. CASE \E g \in Gens : EndsForced(g)
  BY <1>e, <1>1 DEF EndsForced
<1>2. CASE \E g \in Gens : EndsAlone(g)
  BY <1>e, <1>2 DEF EndsAlone
<1>3. CASE \E g \in Gens : ClientLost(g)
  BY <1>e, <1>3 DEF ClientLost
<1>4. CASE \E g \in Gens : Decide(g)
  <2> PICK g \in Gens : Decide(g)
    BY <1>4
  <2>1. stage[g] = "ended" /\ UNCHANGED <<tmux, killer, closed, cur, old, new, alive>>
    BY DEF Decide, sessionVars, killVars
  <2>2. \/ stage' = [stage EXCEPT ![g] = "superseded"]
        \/ stage' = [stage EXCEPT ![g] = "genuine"] /\ cur = g /\ killer = "idle"
    BY <1>0 DEF Decide, TypeOK
  <2>3. QED
    BY <1>0, <2>1, <2>2, ExceptMoves, MoveKeeps
<1>5. CASE \E g \in Gens : AskTmux(g)
  <2> PICK g \in Gens : AskTmux(g)
    BY <1>5
  <2>1. /\ stage[g] = "genuine" /\ stage' = [stage EXCEPT ![g] = "record"]
        /\ UNCHANGED <<tmux, killer, closed, cur, old, new, alive>>
    BY <1>0 DEF AskTmux, sessionVars, killVars
  <2>2. QED
    BY <1>0, <2>1, ExceptMoves, MoveKeeps
<1>6. CASE \E g \in Gens : Record(g)
  <2> PICK g \in Gens : Record(g)
    BY <1>6
  <2>1. /\ stage[g] = "record" /\ stage' = [stage EXCEPT ![g] = "notify"] /\ alive' = FALSE
        /\ UNCHANGED <<tmux, killer, closed, cur, old, new>>
    BY DEF Record, killVars
  <2>2. QED
    BY <1>0, <2>1, ExceptMoves, MoveKeeps
<1>7. CASE \E g \in Gens : Bury(g) \/ Notify(g)
  <2> PICK g \in Gens : Bury(g) \/ Notify(g)
    BY <1>7
  <2>1. /\ stage[g] \in {"superseded", "notify"} /\ stage' = [stage EXCEPT ![g] = "reaped"]
        /\ UNCHANGED <<tmux, killer, closed, cur, old, new, alive>>
    BY DEF Bury, Notify, sessionVars, killVars
  <2>2. QED
    BY <1>0, <2>1, ExceptMoves, MoveKeeps
<1>8. CASE \E g \in Gens : TakeBack(g) \/ Install(g) \/ RecordFailure(g)
  BY <1>0, <1>8 DEF TakeBack, Install, RecordFailure, Parts, NothingToTakeBack
<1>9. CASE ShellEnds
  BY <1>0, <1>9 DEF ShellEnds, Parts, NothingToTakeBack
<1>10. CASE KillResume
  <2>1. /\ UNCHANGED <<tmux, stage, closed, cur, new, alive>>
        /\ killer = "idle" /\ old' = cur
        /\ killer' = "spawn" \/ (killer' = "stop" /\ cur # 0)
        /\ killer' = "spawn" => cur = 0 \/ ~alive
    BY <1>10 DEF KillResume, closeVars
  <2>2. killer' = "spawn" =>
          \A g \in Gens : stage[g] \notin {"running", "genuine", "record"}
    <3> SUFFICES ASSUME cur = 0 \/ ~alive, NEW g \in Gens,
                        stage[g] \in {"running", "genuine", "record"}, killer' = "spawn"
                 PROVE  FALSE
      BY <2>1
    <3>1. g = cur /\ cur # 0
      BY <2>1, <1>0 DEF Parts, SoleRunner, GenuineIsCurrent, Gens
    <3>2. closed
      BY <2>1, <3>1, <1>0 DEF Parts, CurrentIsAlive
    <3>3. QED
      BY <1>10, <3>2 DEF KillResume
  <2>3. (NothingToTakeBack /\ SoleRunner /\ GenuineIsCurrent)'
    BY <1>0, <2>1, <2>2 DEF Parts, NothingToTakeBack, SoleRunner, GenuineIsCurrent
  <2>4. (CurrentIsAlive /\ KillerKnows)'
    BY <1>0, <2>1 DEF Parts, CurrentIsAlive, KillerKnows
  <2>5. QED
    BY <2>3, <2>4 DEF Parts
<1>11. CASE Terminate
  <2>1. UNCHANGED <<stage, cur, new, killer, old, alive, closed>> /\ tmux' = FALSE
    BY <1>11 DEF Terminate, sessionVars, killVars
  <2>2. QED
    BY <1>0, <2>1, StillKeeps
<1>12. CASE Stopped
  <2>1. /\ killer = "stop" /\ killer' = "spawn" /\ old = cur /\ Exited(cur)
        /\ UNCHANGED <<tmux, stage, closed, cur, alive, new>>
    BY <1>0, <1>12 DEF Stopped, sessionVars, Parts, KillerKnows
  <2>2. stage[cur] \notin {"running", "genuine", "record", "unborn"}
    BY <2>1 DEF Exited
  <2>3. (NothingToTakeBack /\ SoleRunner /\ GenuineIsCurrent)'
    BY <1>0, <2>1, <2>2 DEF Parts, NothingToTakeBack, SoleRunner, GenuineIsCurrent
  <2>4. (CurrentIsAlive /\ KillerKnows)'
    BY <1>0, <2>1 DEF Parts, CurrentIsAlive, KillerKnows
  <2>5. QED
    BY <2>3, <2>4 DEF Parts
<1>13. CASE Respawn
  <2>1. killer = "spawn" /\ UNCHANGED <<closed, cur, alive>>
    BY <1>13 DEF Respawn, sessionVars
  <2>2. \A g \in Gens : stage[g] \notin {"running", "genuine", "record"}
    BY <1>0, <2>1 DEF Parts, SoleRunner, GenuineIsCurrent
  <2>3. CASE killer' = "failing" /\ UNCHANGED <<tmux, stage, new>>
    BY <1>0, <2>1, <2>2, <2>3 DEF Parts, NothingToTakeBack, SoleRunner, GenuineIsCurrent,
       CurrentIsAlive, KillerKnows
  <2>4. ASSUME NEW g \in Gens, Spawn(g), stage' = [stage EXCEPT ![g] = "running"],
               new' = g, killer' = "install"
        PROVE  Parts'
    <3>1. cur # 0 => cur \in Gens /\ stage[cur] # "unborn"
      BY <1>0 DEF Gens, TypeOK, Parts, KillerKnows
    <3>2. stage[g] = "unborn" /\ g # cur /\ g # 0 /\ tmux' = FALSE
      BY <1>0, <2>4, <1>13, <3>1 DEF Spawn, Fresh, Gens, Respawn
    <3>3. stage'[g] = "running" /\ \A h \in Gens \ {g} : stage'[h] = stage[h]
      BY <1>0, <2>4 DEF TypeOK
    <3>4. (NothingToTakeBack /\ SoleRunner /\ GenuineIsCurrent)'
      BY <1>0, <2>2, <2>4, <3>2, <3>3
      DEF Parts, NothingToTakeBack, SoleRunner, GenuineIsCurrent
    <3>5. (CurrentIsAlive /\ KillerKnows)'
      BY <2>1, <2>4, <3>1, <3>2, <3>3 DEF CurrentIsAlive, KillerKnows
    <3>6. QED
      BY <3>4, <3>5 DEF Parts
  <2>5. QED
    BY <1>13, <2>3, <2>4 DEF Respawn
<1>14. CASE Resumed
  <2>1. /\ killer = "install" /\ killer' = "idle" /\ cur' = new /\ alive' = TRUE /\ new' = 0
        /\ UNCHANGED <<tmux, stage, closed>>
    BY <1>14 DEF Resumed
  <2>2. (NothingToTakeBack /\ SoleRunner /\ GenuineIsCurrent)'
    BY <1>0, <2>1 DEF Parts, NothingToTakeBack, SoleRunner, GenuineIsCurrent
  <2>3. (CurrentIsAlive /\ KillerKnows)'
    BY <1>0, <2>1 DEF Parts, CurrentIsAlive, KillerKnows
  <2>4. QED
    BY <2>2, <2>3 DEF Parts
<1>15. CASE ResumeFailed
  <2>1. /\ killer = "failing" /\ killer' = "idle" /\ cur' = 0
        /\ UNCHANGED <<tmux, stage, closed, new>>
    BY <1>15 DEF ResumeFailed
  <2>2. (NothingToTakeBack /\ SoleRunner /\ GenuineIsCurrent)'
    BY <1>0, <2>1 DEF Parts, NothingToTakeBack, SoleRunner, GenuineIsCurrent
  <2>3. (CurrentIsAlive /\ KillerKnows)'
    BY <2>1 DEF CurrentIsAlive, KillerKnows
  <2>4. QED
    BY <2>2, <2>3 DEF Parts
<1>16. CASE Close \/ Suspend
  <2>1. UNCHANGED <<tmux, stage, cur, new, killer, old>> /\ closed'
    BY <1>16 DEF Close, Suspend, Leave, killVars
  <2>2. QED
    BY <1>0, <2>1, StillKeeps
<1>17. CASE CloseTmux \/ CloseTerminate \/ Forget
  <2>1. /\ UNCHANGED <<stage, cur, new, killer, old, alive, closed>>
        /\ tmux' = tmux \/ tmux' = FALSE
    BY <1>17 DEF CloseTmux, CloseTerminate, Forget, sessionVars, killVars
  <2>2. QED
    BY <1>0, <2>1, StillKeeps
<1>18. CASE Restart
  BY <1>0, <1>18 DEF Restart
<1>19. CASE UNCHANGED vars
  <2>1. UNCHANGED <<tmux, stage, cur, new, killer, old, alive, closed>>
    BY <1>19 DEF vars, sessionVars, killVars
  <2>2. QED
    BY <1>0, <2>1, StillKeeps
<1>20. QED
  BY <1>1, <1>2, <1>3, <1>4, <1>5, <1>6, <1>7, <1>8, <1>9, <1>10, <1>11, <1>12, <1>13,
     <1>14, <1>15, <1>16, <1>17, <1>18, <1>19 DEF Next, WaitLoop, Killer, Closer

LEMMA SpecIInv == Spec => []IInv
<1>1. IInv /\ [Next]_vars => IInv'
  BY NextTypeOK, NextBareInv DEF IInv
<1>2. QED
  BY InitIInv, <1>1, PTL DEF Spec

-------------------------------------------------------------------------------
(* Every variable keeps its range, and killing says where kill_resume is. *)
THEOREM SessionTypeOK == Spec => []TypeOK
<1>1. IInv => TypeOK
  BY DEF IInv
<1>2. QED
  BY SpecIInv, <1>1, PTL

(* Whatever exits, kills, closes and spawns overlap, a session outside tmux *)
(* never has two shells (spawn, session.go).                                 *)
THEOREM SessionOneShell == Spec => []OneShell
<1>1. IInv => OneShell
  BY DEF IInv, BareInv, SoleRunner, OneShell
<1>2. QED
  BY SpecIInv, <1>1, PTL

(* The exit of a replaced process never marks its successor dead (waitLoop). *)
THEOREM SessionRunningIsAlive == Spec => []RunningIsAlive
<1>1. IInv => RunningIsAlive
  BY DEF IInv, BareInv, SoleRunner, CurrentIsAlive, KillerKnows, RunningIsAlive,
     TypeOK, Gens
<1>2. QED
  BY SpecIInv, <1>1, PTL

-------------------------------------------------------------------------------
(* A session that says it is alive is backed, inside tmux or out of it.     *)
(* What a reattachment or kill_resume is about to install has been spawned   *)
(* and, unless it is missed, not yet been judged by its own waitLoop, so      *)
(* whichever of them installs last leaves a process that can still report     *)
(* its end, or one that is known to be missed.                                *)

Standing(g) == g \in Gens /\ (stage[g] \in {"running", "ended"} \/ g \in missed)

InstalledStands ==
    /\ killer = "install" => Standing(new)
    /\ \A g \in Gens : stage[g] = "install" => Standing(child[g])

Backed == AliveIsBacked /\ InstalledStands

LEMMA InitBacked == Init => Backed
<1>1. 1 \in Gens
  BY BoundsAssumption DEF Gens
<1>2. QED
  BY <1>1 DEF Init, Started, Backed, AliveIsBacked, InstalledStands

(* The waitLoop of g has looked at s.cur: if g was not in it, g is missed.   *)
Judged(g) == NotInstalled(g) => g \in missed'

(* A waitLoop, or the process it waits for, moves on. *)
LEMMA MoveKeepsBacked ==
    ASSUME TypeOK, Backed, NEW g \in Gens, NEW s, NEW t, Moved(g, s, t),
           UNCHANGED <<killer, new, child, cur, killing, closed>>,
           alive' => alive, missed \subseteq missed',
           \/ s = "running" /\ t = "ended"
           \/ s = "ended" /\ Judged(g) /\ t = "genuine"
           \/ s = "ended" /\ Judged(g) /\ t = "superseded" /\ (cur = g => killing \/ closed)
           \/ s = "genuine" /\ t \in {"takeback", "record"}
           \/ s = "takeback" /\ t = "failing"
           \/ s \in {"record", "failing"} /\ t = "notify" /\ ~alive'
           \/ s \in {"superseded", "notify"} /\ t = "reaped"
    PROVE  Backed'
<1>0. /\ stage[g] = s /\ stage'[g] = t
      /\ \A h \in Gens : h = g \/ stage'[h] = stage[h]
  BY DEF Moved
<1>1. ASSUME NEW p, Standing(p), g = p => s = "running" \/ NotInstalled(g)
      PROVE  Standing(p)'
  BY <1>0, <1>1 DEF Standing, Judged, NotInstalled
<1>2. (killer = "install" => Standing(new))'
  BY <1>1 DEF Backed, InstalledStands, NotInstalled
<1>3. ASSUME NEW h \in Gens, stage'[h] = "install"
      PROVE  Standing(child[h])'
  <2>1. stage[h] = "install"
    BY <1>0, <1>3
  <2>2. Standing(child[h])
    BY <2>1 DEF Backed, InstalledStands
  <2>3. child[h] = g => NotInstalled(g)
    BY <2>1 DEF NotInstalled
  <2>4. QED
    BY <1>1, <2>2, <2>3
<1>4. AliveIsBacked'
  <2> SUFFICES ASSUME alive', ~closed, ~killing, cur \notin missed'
               PROVE  cur # 0 /\ stage'[cur] \notin {"unborn", "superseded", "notify", "reaped"}
    BY DEF AliveIsBacked
  <2>1. /\ cur \in Gens /\ cur # 0
        /\ stage[cur] \notin {"unborn", "superseded", "notify", "reaped"}
    BY DEF Backed, AliveIsBacked, TypeOK, Gens
  <2>2. CASE cur # g
    BY <1>0, <2>1, <2>2
  <2>3. CASE cur = g
    BY <1>0, <2>1, <2>3
  <2>4. QED
    BY <2>1, <2>2, <2>3
<1>5. QED
  BY <1>2, <1>3, <1>4 DEF Backed, InstalledStands

(* A step of a killer or a closer that neither spawns nor installs. *)
LEMMA StillKeepsBacked ==
    ASSUME Backed, UNCHANGED <<stage, child, cur, new, missed>>,
           killer' = "install" => killer = "install",
           killing' \/ closed' \/ UNCHANGED <<alive, killing, closed>>
    PROVE  Backed'
<1>1. \A p : Standing(p) => Standing(p)'
  BY DEF Standing
<1>2. InstalledStands'
  BY <1>1 DEF Backed, InstalledStands
<1>3. AliveIsBacked'
  BY DEF Backed, AliveIsBacked
<1>4. QED
  BY <1>2, <1>3 DEF Backed

(* A new process h is spawned, for kill_resume or by the waitLoop of g. *)
LEMMA SpawnKeepsBacked ==
    ASSUME TypeOK, Backed, NEW h \in Gens, stage[h] = "unborn", stage'[h] = "running",
           UNCHANGED <<cur, alive, killing, closed, missed>>,
           \/ /\ killer' = "install" /\ new' = h /\ child' = child
              /\ \A i \in Gens \ {h} : stage'[i] = stage[i]
           \/ \E g \in Gens :
                /\ stage[g] = "takeback" /\ stage'[g] = "install"
                /\ child' = [child EXCEPT ![g] = h]
                /\ \A i \in Gens \ {g, h} : stage'[i] = stage[i]
                /\ UNCHANGED <<killer, new>>
    PROVE  Backed'
<1>1. Standing(h)'
  BY DEF Standing
<1>2. ASSUME NEW i \in Gens, i # h
      PROVE  stage'[i] = stage[i] \/ (stage[i] = "takeback" /\ stage'[i] = "install")
  BY <1>2
<1>3. ASSUME NEW p, Standing(p)
      PROVE  Standing(p)'
  BY <1>2, <1>3 DEF Standing
<1>4. (killer = "install" => Standing(new))'
  <2>1. CASE new' = h
    BY <1>1, <2>1
  <2>2. CASE UNCHANGED <<killer, new>>
    BY <1>3, <2>2 DEF Backed, InstalledStands
  <2>3. QED
    BY <2>1, <2>2
<1>5. ASSUME NEW i \in Gens, stage'[i] = "install"
      PROVE  Standing(child[i])'
  <2>1. CASE child'[i] = h
    BY <1>1, <2>1
  <2>2. CASE child'[i] = child[i] /\ stage[i] = "install"
    BY <1>3, <2>2 DEF Backed, InstalledStands
  <2>3. i # h
    BY <1>5
  <2>4. child' = child \/ \E g \in Gens : stage[g] = "takeback" /\ child' = [child EXCEPT ![g] = h]
    OBVIOUS
  <2>5. child'[i] = h \/ (child'[i] = child[i] /\ stage[i] = "install")
    BY <1>5, <2>3 DEF TypeOK
  <2>6. QED
    BY <2>1, <2>2, <2>5
<1>6. AliveIsBacked'
  <2> SUFFICES ASSUME alive, ~closed, ~killing, cur \notin missed
               PROVE  cur # 0 /\ stage'[cur] \notin {"unborn", "superseded", "notify", "reaped"}
    BY DEF AliveIsBacked
  <2>1. /\ cur \in Gens /\ cur # 0
        /\ stage[cur] \notin {"unborn", "superseded", "notify", "reaped"}
    BY DEF Backed, AliveIsBacked, TypeOK, Gens
  <2>2. cur # h
    BY <2>1
  <2>3. stage'[cur] = stage[cur] \/ stage'[cur] = "install"
    BY <1>2, <2>1, <2>2
  <2>4. QED
    BY <2>1, <2>3
<1>7. QED
  BY <1>4, <1>5, <1>6 DEF Backed, InstalledStands

(* Somebody installs p, which stands or is missed. *)
LEMMA InstallKeepsBacked ==
    ASSUME TypeOK, Backed, NEW p, Standing(p), cur' = p, missed' = missed, child' \in [Gens -> 0..MaxGen],
           killer' = "install" => killer = "install" /\ new' = new,
           \A h \in Gens : \/ stage'[h] = stage[h] /\ child'[h] = child[h]
                           \/ stage[h] = "install" /\ stage'[h] = "reaped"
    PROVE  Backed'
<1>1. ASSUME NEW q, Standing(q)
      PROVE  Standing(q)'
  BY <1>1 DEF Standing
<1>2. InstalledStands'
  BY <1>1 DEF Backed, InstalledStands
<1>3. AliveIsBacked'
  <2>1. p \in Gens /\ (stage'[p] \in {"running", "ended"} \/ p \in missed') /\ p # 0
    BY <1>1 DEF Standing, Gens
  <2>2. QED
    BY <2>1 DEF AliveIsBacked
<1>4. QED
  BY <1>2, <1>3 DEF Backed

LEMMA NextBacked == TypeOK /\ Backed /\ [Next]_vars => TypeOK' /\ Backed'
<1> SUFFICES ASSUME TypeOK, Backed, [Next]_vars PROVE Backed'
  BY NextTypeOK
<1>e. ASSUME NEW g \in Gens, Ends(g) PROVE Backed'
  <2>1. stage[g] = "running" /\ stage' = [stage EXCEPT ![g] = "ended"]
        /\ UNCHANGED <<killer, new, child, cur, killing, closed, alive, missed>>
    BY <1>e DEF Ends, sessionVars, killVars
  <2>2. Moved(g, "running", "ended")
    BY <2>1, ExceptMoves
  <2>3. QED
    BY <2>1, <2>2, MoveKeepsBacked
<1>1. CASE \E g \in Gens : EndsForced(g) \/ EndsAlone(g) \/ ClientLost(g)
  BY <1>e, <1>1 DEF EndsForced, EndsAlone, ClientLost
<1>2. CASE \E g \in Gens : Decide(g)
  <2> PICK g \in Gens : Decide(g)
    BY <1>2
  <2>1. /\ stage[g] = "ended" /\ Judged(g) /\ missed \subseteq missed'
        /\ UNCHANGED <<killer, new, child, cur, killing, closed, alive>>
    BY DEF Decide, Overlook, Judged, sessionVars, killVars
  <2>2. CASE stage' = [stage EXCEPT ![g] = "superseded"] /\ (cur = g => killing \/ closed)
    <3>1. Moved(g, "ended", "superseded")
      BY <2>1, <2>2, ExceptMoves
    <3>2. QED
      BY <2>1, <2>2, <3>1, MoveKeepsBacked
  <2>3. CASE stage' = [stage EXCEPT ![g] = "genuine"]
    <3>1. Moved(g, "ended", "genuine")
      BY <2>1, <2>3, ExceptMoves
    <3>2. QED
      BY <2>1, <3>1, MoveKeepsBacked
  <2>4. QED
    BY <2>2, <2>3 DEF Decide
<1>3. CASE \E g \in Gens : AskTmux(g)
  <2> PICK g \in Gens : AskTmux(g)
    BY <1>3
  <2>1. /\ stage[g] = "genuine"
        /\ UNCHANGED <<killer, new, child, cur, killing, closed, alive, missed>>
    BY DEF AskTmux, sessionVars, killVars, countVars
  <2>2. PICK t \in {"takeback", "record"} : stage' = [stage EXCEPT ![g] = t]
    BY DEF AskTmux
  <2>3. Moved(g, "genuine", t)
    BY <2>1, <2>2, ExceptMoves
  <2>4. QED
    BY <2>1, <2>3, MoveKeepsBacked
<1>4. CASE \E g \in Gens : Record(g) \/ RecordFailure(g)
  <2> PICK g \in Gens : Record(g) \/ RecordFailure(g)
    BY <1>4
  <2>1. PICK s \in {"record", "failing"} :
           /\ stage[g] = s /\ stage' = [stage EXCEPT ![g] = "notify"] /\ alive' = FALSE
           /\ UNCHANGED <<killer, new, child, cur, killing, closed, missed>>
    BY DEF Record, RecordFailure, killVars, countVars
  <2>2. Moved(g, s, "notify")
    BY <2>1, ExceptMoves
  <2>3. QED
    BY <2>1, <2>2, MoveKeepsBacked
<1>5. CASE \E g \in Gens : Bury(g) \/ Notify(g)
  <2> PICK g \in Gens : Bury(g) \/ Notify(g)
    BY <1>5
  <2>1. PICK s \in {"superseded", "notify"} :
           /\ stage[g] = s /\ stage' = [stage EXCEPT ![g] = "reaped"]
           /\ UNCHANGED <<killer, new, child, cur, killing, closed, alive, missed>>
    BY DEF Bury, Notify, sessionVars, killVars, countVars
  <2>2. Moved(g, s, "reaped")
    BY <2>1, ExceptMoves
  <2>3. QED
    BY <2>1, <2>2, MoveKeepsBacked
<1>6. CASE \E g \in Gens : TakeBack(g)
  <2> PICK g \in Gens : TakeBack(g)
    BY <1>6
  <2>1. /\ stage[g] = "takeback"
        /\ UNCHANGED <<killer, new, cur, killing, closed, alive, missed>>
    BY DEF TakeBack, killVars, countVars
  <2>2. CASE stage' = [stage EXCEPT ![g] = "failing"] /\ UNCHANGED child
    <3>1. Moved(g, "takeback", "failing")
      BY <2>1, <2>2, ExceptMoves
    <3>2. QED
      BY <2>1, <2>2, <3>1, MoveKeepsBacked
  <2>3. ASSUME NEW h \in Gens, Spawn(h), child' = [child EXCEPT ![g] = h],
               stage' = [stage EXCEPT ![g] = "install", ![h] = "running"]
        PROVE  Backed'
    <3>1. stage[h] = "unborn" /\ g # h
      BY <2>1, <2>3 DEF Spawn, Fresh
    <3>2. /\ stage'[h] = "running" /\ stage'[g] = "install"
          /\ \A i \in Gens \ {g, h} : stage'[i] = stage[i]
      BY <2>3, <3>1 DEF TypeOK
    <3>3. QED
      BY <2>1, <2>3, <3>1, <3>2, SpawnKeepsBacked
  <2>4. QED
    BY <2>2, <2>3 DEF TakeBack
<1>7. CASE \E g \in Gens : Install(g)
  <2> PICK g \in Gens : Install(g)
    BY <1>7
  <2>1. /\ stage[g] = "install" /\ cur' = child[g] /\ child' = [child EXCEPT ![g] = 0]
        /\ stage' = [stage EXCEPT ![g] = "reaped"] /\ UNCHANGED <<killer, new, missed>>
    BY DEF Install, killVars, countVars
  <2>2. Standing(child[g])
    BY <2>1 DEF Backed, InstalledStands
  <2>3. /\ child' \in [Gens -> 0..MaxGen]
        /\ \A h \in Gens : \/ stage'[h] = stage[h] /\ child'[h] = child[h]
                           \/ stage[h] = "install" /\ stage'[h] = "reaped"
    BY <2>1, BoundsAssumption DEF TypeOK
  <2>4. QED
    BY <2>1, <2>2, <2>3, InstallKeepsBacked
<1>8. CASE ShellEnds \/ KillResume \/ Terminate \/ Stopped
  <2>1. /\ UNCHANGED <<stage, child, cur, new, missed>> /\ (killer' = "install" => killer = "install")
        /\ killing' \/ closed' \/ UNCHANGED <<alive, killing, closed>>
    BY <1>8 DEF ShellEnds, KillResume, Terminate, Stopped, sessionVars, killVars, countVars
  <2>2. QED
    BY <2>1, StillKeepsBacked
<1>9. CASE Respawn
  <2>1. UNCHANGED <<cur, alive, killing, closed, child, missed>>
    BY <1>9 DEF Respawn, sessionVars, countVars
  <2>2. CASE killer' = "failing" /\ UNCHANGED <<stage, new>>
    BY <2>1, <2>2, StillKeepsBacked
  <2>3. ASSUME NEW h \in Gens, Spawn(h), stage' = [stage EXCEPT ![h] = "running"], new' = h,
               killer' = "install"
        PROVE  Backed'
    <3>1. /\ stage[h] = "unborn" /\ stage'[h] = "running"
          /\ \A i \in Gens \ {h} : stage'[i] = stage[i]
      BY <2>3 DEF Spawn, Fresh, TypeOK
    <3>2. QED
      BY <2>1, <2>3, <3>1, SpawnKeepsBacked
  <2>4. QED
    BY <1>9, <2>2, <2>3 DEF Respawn
<1>10. CASE Resumed
  <2>1. killer = "install" /\ killer' = "idle" /\ cur' = new /\ UNCHANGED <<stage, child, missed>>
    BY <1>10 DEF Resumed, countVars
  <2>2. Standing(new)
    BY <2>1 DEF Backed, InstalledStands
  <2>3. QED
    BY <2>1, <2>2, InstallKeepsBacked DEF TypeOK
<1>11. CASE ResumeFailed
  BY <1>11 DEF ResumeFailed, Backed, AliveIsBacked, InstalledStands, Standing, countVars
<1>12. CASE Close \/ Suspend \/ CloseTmux \/ CloseTerminate \/ Forget
  <2>1. /\ UNCHANGED <<stage, child, cur, new, killer, missed>>
        /\ killing' \/ closed' \/ UNCHANGED <<alive, killing, closed>>
    BY <1>12 DEF Close, Suspend, Leave, CloseTmux, CloseTerminate, Forget, sessionVars, killVars,
       countVars
  <2>2. QED
    BY <2>1, StillKeepsBacked
<1>13. CASE Restart
  <2>1. PICK g \in Gens :
          /\ stage' = [h \in Gens |-> IF stage[h] # "unborn" THEN "reaped"
                                       ELSE IF tmux /\ meta /\ h = g THEN Started(g, missed') ELSE "unborn"]
          /\ stage[g] = "unborn" /\ (alive' => tmux /\ meta)
          /\ cur' = IF tmux /\ meta THEN g ELSE 0
    BY <1>13, Zenon DEF Restart, Fresh
  <2>2. /\ tmux /\ meta => stage'[g] = "running" \/ g \in missed'
        /\ \A h \in Gens : stage'[h] # "install"
    BY <2>1 DEF Started
  <2>3. InstalledStands'
    BY <1>13, <2>2 DEF Restart, InstalledStands
  <2>4. AliveIsBacked'
    BY <2>1, <2>2 DEF AliveIsBacked, Gens
  <2>5. QED
    BY <2>3, <2>4 DEF Backed
<1>14. CASE UNCHANGED vars
  BY <1>14, StillKeepsBacked DEF vars, sessionVars, killVars, countVars
<1>15. QED
  BY <1>1, <1>2, <1>3, <1>4, <1>5, <1>6, <1>7, <1>8, <1>9, <1>10, <1>11, <1>12, <1>13, <1>14
     DEF Next, WaitLoop, Killer, Closer

(* However its tmux clients are lost and taken back, resumes, closes and    *)
(* adoptions overlap, a session that says its PTY is alive has a process     *)
(* whose end is still to be reported, or one that was over before it was     *)
(* installed (waitLoop, reattach, KillResume).                                *)
THEOREM SessionIsBacked == Spec => []AliveIsBacked
<1>1. Init => TypeOK /\ Backed
  BY InitIInv, InitBacked DEF IInv
<1>2. TypeOK /\ Backed /\ [Next]_vars => (TypeOK /\ Backed)'
  BY NextBacked
<1>3. TypeOK /\ Backed => AliveIsBacked
  BY DEF Backed
<1>4. QED
  BY <1>1, <1>2, <1>3, PTL DEF Spec
-------------------------------------------------------------------------------
(***************************************************************************)
(* The scrollback ring.  RingInv says the cells from start on, going round,   *)
(* are the last n bytes of the stream.  It is inductive because a write of    *)
(* k < Cap bytes fills the k cells after the newest byte and gives up exactly *)
(* the n + k - Cap oldest ones.  Everything a reader returns is a statement   *)
(* about those cells, so it follows from RingInv without induction.           *)
(***************************************************************************)
RingInv == RingTypeOK /\ HoldsTail

(* Going round the ring at most once: the only cases of % the code meets.   *)
LEMMA ModRound ==
    ASSUME NEW x \in 0..(2 * Cap - 1)
    PROVE  x % Cap = IF x < Cap THEN x ELSE x - Cap
<1>1. CASE x < Cap
  BY <1>1, CapAssumption, SMT
<1>2. CASE x >= Cap
  BY <1>2, CapAssumption, SMT
<1>3. QED
  BY <1>1, <1>2, CapAssumption

(* NewRing establishes the invariant. *)
LEMMA InitRing == RingInit => RingInv
BY CapAssumption, MaxSeqAssumption DEF RingInit, RingInv, RingTypeOK, HoldsTail, Cell, Zero

(* A slice that does not fit replaces the whole ring. *)
LEMMA WriteLargeKeeps ==
    ASSUME RingInv, NEW k \in Lens, seq + k <= MaxSeq, seq' = seq + k, WriteLarge(k)
    PROVE  RingInv'
<1>1. k \in Nat
  BY LensAssumption
<1>2. RingTypeOK'
  BY <1>1, CapAssumption, MaxSeqAssumption DEF RingInv, RingTypeOK, WriteLarge, Cell
<1>3. n' = Cap /\ start' = 0 /\ seq' >= Cap
  BY <1>1, CapAssumption DEF RingInv, RingTypeOK, WriteLarge
<1>4. ASSUME NEW j \in 0..(Cap - 1)
      PROVE  buf'[(start' + j) % Cap] = (seq' - Cap) + j
  <2>1. (0 + j) % Cap = j
    BY ModRound, CapAssumption
  <2>2. buf'[j] = seq + (k - Cap) + j
    BY DEF WriteLarge, Cell
  <2>3. QED
    BY <2>1, <2>2, <1>1, <1>3, CapAssumption DEF RingInv, RingTypeOK
<1>5. QED
  BY <1>2, <1>3, <1>4, CapAssumption DEF RingInv, RingTypeOK, HoldsTail

(* A slice that fits goes after the newest byte, overwriting the oldest.    *)
LEMMA WriteSmallKeeps ==
    ASSUME RingInv, NEW k \in Lens, seq + k <= MaxSeq, seq' = seq + k, WriteSmall(k)
    PROVE  RingInv'
<1> DEFINE end == (start + n) % Cap
<1>1. k \in Nat /\ k < Cap /\ Cap \in Nat /\ Cap > 0
  BY LensAssumption, CapAssumption DEF WriteSmall
<1>2. /\ start \in 0..(Cap - 1) /\ n \in 0..Cap /\ seq \in Nat
      /\ n = IF seq < Cap THEN seq ELSE Cap
      /\ buf \in [0..(Cap - 1) -> Int]
  BY <1>1, MaxSeqAssumption DEF RingInv, RingTypeOK, HoldsTail, Cell
<1>3. end = IF start + n < Cap THEN start + n ELSE start + n - Cap
  BY <1>1, <1>2, ModRound
<1> HIDE DEF end
<1>4. buf' = [i \in 0..(Cap - 1) |->
                IF end <= i /\ i < end + k THEN seq + (i - end)
                ELSE IF i < end + k - Cap THEN seq + (Cap - end) + i
                ELSE buf[i]]
  BY DEF WriteSmall, Copied, Cell, end
<1>5. /\ n + k > Cap => n' = Cap /\ start' = (start + (n + k - Cap)) % Cap
      /\ n + k <= Cap => n' = n + k /\ start' = start
  BY <1>1, <1>2 DEF WriteSmall
<1>6. start' = IF n + k <= Cap THEN start
               ELSE IF start + (n + k - Cap) < Cap
                    THEN start + (n + k - Cap)
                    ELSE start + (n + k - Cap) - Cap
  BY <1>1, <1>2, <1>5, ModRound
\* The new values under rigid names: the backends do arithmetic on those only.
<1> DEFINE n1 == n'
           start1 == start'
           seq1 == seq'
<1>7. /\ n1 = IF n + k > Cap THEN Cap ELSE n + k
      /\ start1 = IF n + k <= Cap THEN start
                  ELSE IF start + (n + k - Cap) < Cap
                       THEN start + (n + k - Cap)
                       ELSE start + (n + k - Cap) - Cap
      /\ seq1 = seq + k
  BY <1>1, <1>2, <1>5, <1>6
<1> HIDE DEF n1, start1, seq1
<1>8. /\ n1 \in 0..Cap /\ start1 \in 0..(Cap - 1)
      /\ seq1 \in Nat
      /\ n1 = IF seq1 < Cap THEN seq1 ELSE Cap
  BY <1>1, <1>2, <1>7
<1>9. RingTypeOK'
  <2>1. buf' \in [Cell -> Int]
    BY <1>1, <1>2, <1>3, <1>4 DEF Cell
  <2>2. seq1 \in 0..MaxSeq
    BY <1>1, <1>2, <1>7, MaxSeqAssumption
  <2>3. QED
    BY <2>1, <2>2, <1>8 DEF RingTypeOK, Cell, n1, start1, seq1
<1>10. ASSUME NEW j \in 0..(n1 - 1)
       PROVE  buf'[(start1 + j) % Cap] = (seq1 - n1) + j
  <2> DEFINE i == (start1 + j) % Cap
  <2>1. start1 + j \in 0..(2 * Cap - 1)
    BY <1>1, <1>8
  <2>2. i = IF start1 + j < Cap THEN start1 + j ELSE start1 + j - Cap
    BY <2>1, <1>1, <1>8, ModRound
  <2> HIDE DEF i
  <2>3. i \in 0..(Cap - 1)
    BY <2>1, <2>2, <1>1, <1>8
  <2>4. CASE j < n1 - k
    \* an old byte that survives: it was number j + (n + k - n1)
    <3> DEFINE o == j + (n + k - n1)
    <3>1. o \in 0..(n - 1) /\ j = o - (n + k - n1)
      BY <2>4, <1>1, <1>2, <1>7
    <3> HIDE DEF o
    <3>2. buf[(start + o) % Cap] = (seq - n) + o
      BY <3>1 DEF RingInv, HoldsTail
    <3>3. start + o \in 0..(2 * Cap - 1)
      BY <3>1, <1>1, <1>2
    <3>4. (start + o) % Cap = IF start + o < Cap THEN start + o ELSE start + o - Cap
      BY <3>1, <3>3, <1>1, <1>2, ModRound
    <3>5. (start + o) % Cap = i
      BY <3>1, <3>4, <2>2, <1>1, <1>2, <1>7
    <3>6. ~(end <= i /\ i < end + k) /\ ~(i < end + k - Cap)
      BY <2>2, <2>4, <1>1, <1>2, <1>3, <1>7
    <3>7. buf'[i] = buf[i]
      BY <3>6, <2>3, <1>4
    <3>8. (seq - n) + o = (seq1 - n1) + j
      BY <3>1, <1>1, <1>2, <1>7
    <3>9. QED
      BY <3>2, <3>5, <3>7, <3>8 DEF i
  <2>5. CASE j >= n1 - k
    \* a byte of the slice: number j - (n1 - k) of it
    <3> DEFINE m == j - (n1 - k)
    <3>1. m \in 0..(k - 1) /\ j = m + (n1 - k)
      BY <2>5, <1>1, <1>8
    <3> HIDE DEF m
    <3>2. i = IF end + m < Cap THEN end + m ELSE end + m - Cap
      <4>1. CASE n + k > Cap
        BY <4>1, <3>1, <2>2, <1>1, <1>2, <1>3, <1>7, <1>8
      <4>2. CASE n + k <= Cap
        BY <4>2, <3>1, <2>2, <1>1, <1>2, <1>3, <1>7, <1>8
      <4>3. QED
        BY <4>1, <4>2, <1>1, <1>2
    <3>3. buf'[i] = seq + m
      <4>1. CASE end + m < Cap
        <5>1. end <= i /\ i < end + k /\ i - end = m
          BY <4>1, <3>1, <3>2, <1>1, <1>2, <1>3
        <5>2. QED
          BY <5>1, <2>3, <1>4
      <4>2. CASE end + m >= Cap
        <5>1. ~(end <= i) /\ i < end + k - Cap /\ (Cap - end) + i = m
          BY <4>2, <3>1, <3>2, <1>1, <1>2, <1>3
        <5>2. buf'[i] = seq + (Cap - end) + i
          BY <5>1, <2>3, <1>4
        <5>3. seq + (Cap - end) + i = seq + ((Cap - end) + i)
          BY <2>3, <1>1, <1>2, <1>3
        <5>4. QED
          BY <5>1, <5>2, <5>3
      <4>3. QED
        BY <4>1, <4>2, <3>1, <1>1, <1>2, <1>3
    <3>4. seq + m = (seq1 - n1) + j
      BY <3>1, <1>1, <1>2, <1>7, <1>8
    <3>5. QED
      BY <3>3, <3>4 DEF i
  <2>6. QED
    BY <2>4, <2>5, <1>1, <1>8
<1>11. QED
  BY <1>8, <1>9, <1>10 DEF RingInv, HoldsTail, n1, start1, seq1

(* A stuttering step disturbs nothing. *)
LEMMA StillRing == RingInv /\ UNCHANGED ringVars => RingInv'
BY DEF RingInv, RingTypeOK, HoldsTail, ringVars

(* The ring's representation invariant (ring.go's "the buffer holds bytes   *)
(* [seq-Len(), seq)"): in every reachable state the n cells from start on   *)
(* are the last n bytes of the stream, and n is what it should be.          *)
THEOREM RingHoldsTail == RingSpec => [](RingTypeOK /\ HoldsTail)
<1>1. RingInit => RingInv
  BY InitRing
<1>2. RingInv /\ [RingNext]_ringVars => RingInv'
  <2> SUFFICES ASSUME RingInv, [RingNext]_ringVars PROVE RingInv'
    OBVIOUS
  <2>1. CASE RingNext
    <3>1. PICK k \in Lens : Write(k)
      BY <2>1 DEF RingNext
    <3>2. CASE WriteLarge(k)
      BY <3>1, <3>2, WriteLargeKeeps DEF Write
    <3>3. CASE WriteSmall(k)
      BY <3>1, <3>3, WriteSmallKeeps DEF Write
    <3>4. QED
      BY <3>1, <3>2, <3>3 DEF Write
  <2>2. CASE UNCHANGED ringVars
    BY <2>2, StillRing
  <2>3. QED
    BY <2>1, <2>2
<1>3. QED
  BY <1>1, <1>2, PTL DEF RingSpec, RingInv

-------------------------------------------------------------------------------
(* copyLast, with its wrap, returns the last k bytes of the stream in order. *)
LEMMA CopyLastExact ==
    ASSUME RingInv, NEW k \in 0..n
    PROVE  copyLast(k) = [i \in 1..k |-> (seq - k) + i - 1]
<1> DEFINE from == (start + n - k) % Cap
<1>1. /\ Cap \in Nat /\ Cap > 0 /\ start \in 0..(Cap - 1)
      /\ n \in 0..Cap /\ seq \in Nat /\ n <= seq
  BY CapAssumption, MaxSeqAssumption DEF RingInv, RingTypeOK, HoldsTail, Cell
<1>2. start + n - k \in 0..(2 * Cap - 1)
  BY <1>1
<1>3. from = IF start + n - k < Cap THEN start + n - k ELSE start + n - k - Cap
  BY <1>1, <1>2, ModRound
<1> HIDE DEF from
<1>4. ASSUME NEW i \in 1..k
      PROVE  (IF i <= Cap - from THEN buf[from + i - 1] ELSE buf[i - (Cap - from) - 1])
                = (seq - k) + i - 1
  <2> DEFINE o == (n - k) + (i - 1)
  <2>1. o \in 0..(n - 1) /\ (seq - n) + o = (seq - k) + i - 1
    BY <1>1
  <2>2. start + o \in 0..(2 * Cap - 1)
    BY <1>1, <2>1
  <2>3. start + o = (start + n - k) + (i - 1)
    BY <1>1
  <2> HIDE DEF o
  <2>4. buf[(start + o) % Cap] = (seq - n) + o
    BY <2>1 DEF RingInv, HoldsTail
  <2>5. (start + o) % Cap = IF start + o < Cap THEN start + o ELSE start + o - Cap
    BY <2>1, <2>2, <1>1, ModRound
  <2>6. (start + o) % Cap = IF i <= Cap - from THEN from + i - 1 ELSE i - (Cap - from) - 1
    BY <2>1, <2>3, <2>5, <1>1, <1>3
  <2>7. QED
    BY <2>1, <2>4, <2>6
<1>5. QED
  BY <1>4 DEF copyLast, from

(* Delta answers a reader in every reachable state with the bytes after its   *)
(* offset, or says that they are gone (Ring.Delta, Session.Replay).           *)
THEOREM DeltaReader == RingSpec => []DeltaExact
<1>1. RingTypeOK /\ HoldsTail => DeltaExact
  <2> SUFFICES ASSUME RingInv, NEW lastSeq \in 0..(MaxSeq + 1)
               PROVE  IF DeltaOK(lastSeq)
                      THEN Delta(lastSeq) = [i \in 1..(seq - lastSeq) |-> lastSeq + i - 1]
                      ELSE lastSeq > seq \/ seq - lastSeq > Cap
    BY DEF RingInv, DeltaExact
  <2>1. /\ Cap \in Nat /\ n \in 0..Cap /\ seq \in Nat /\ lastSeq \in Nat
        /\ n = IF seq < Cap THEN seq ELSE Cap
    BY CapAssumption, MaxSeqAssumption DEF RingInv, RingTypeOK, HoldsTail
  <2>2. CASE DeltaOK(lastSeq)
    <3>1. seq - lastSeq \in 0..n /\ seq - (seq - lastSeq) = lastSeq
      BY <2>1, <2>2 DEF DeltaOK
    <3>2. QED
      BY <3>1, <2>2, CopyLastExact DEF Delta
  <2>3. CASE ~DeltaOK(lastSeq)
    BY <2>1, <2>3 DEF DeltaOK
  <2>4. QED
    BY <2>2, <2>3
<1>2. QED
  BY <1>1, RingHoldsTail, PTL

(* Tail gives in every reachable state the newest bytes, at most as many as   *)
(* asked for, under the offset where they end (Ring.Tail, Session.Replay).    *)
THEOREM TailReader == RingSpec => []TailExact
<1>1. RingTypeOK /\ HoldsTail => TailExact
  <2> SUFFICES ASSUME RingInv, NEW max \in -1..(Cap + 1)
               PROVE  LET t == TailOf(max)
                          m == Len(t.data)
                      IN  /\ m = IF max < 0 THEN 0 ELSE IF max < n THEN max ELSE n
                          /\ \A i \in 1..m : t.data[i] = t.end - m + (i - 1)
    BY DEF RingInv, TailExact
  <2> DEFINE k == IF max > n THEN n ELSE IF max < 0 THEN 0 ELSE max
  <2>1. /\ Cap \in Nat /\ n \in 0..Cap /\ seq \in Nat /\ n <= seq /\ max \in Int
    BY CapAssumption, MaxSeqAssumption DEF RingInv, RingTypeOK, HoldsTail
  <2>2. k \in 0..n /\ k = IF max < 0 THEN 0 ELSE IF max < n THEN max ELSE n
    BY <2>1
  <2> HIDE DEF k
  <2>3. copyLast(k) = [i \in 1..k |-> (seq - k) + i - 1]
    BY <2>2, CopyLastExact
  <2>4. TailOf(max) = [data |-> copyLast(k), end |-> seq]
    BY DEF TailOf, k
  <2>5. Len(copyLast(k)) = k
    BY <2>1, <2>2, <2>3
  <2>6. ASSUME NEW i \in 1..k PROVE copyLast(k)[i] = seq - k + (i - 1)
    BY <2>1, <2>2, <2>3
  <2>7. QED
    BY <2>2, <2>4, <2>5, <2>6
<1>2. QED
  BY <1>1, RingHoldsTail, PTL

-------------------------------------------------------------------------------
(* The bytes the ring can still produce are the window ByteWindow promises. *)
LEMMA RingWindow == RingTypeOK /\ HoldsTail => copyLast(n) = Window!Retained(seq)
<1> SUFFICES ASSUME RingInv PROVE copyLast(n) = Window!Retained(seq)
  BY DEF RingInv
<1>1. /\ Cap \in Nat /\ n \in 0..Cap /\ seq \in Nat
      /\ n = IF seq < Cap THEN seq ELSE Cap
  BY CapAssumption, MaxSeqAssumption DEF RingInv, RingTypeOK, HoldsTail
<1>2. copyLast(n) = [i \in 1..n |-> (seq - n) + i - 1]
  <2>1. \A k \in 0..n : copyLast(k) = [i \in 1..k |-> (seq - k) + i - 1]
    BY CopyLastExact
  <2>2. n \in 0..n
    BY <1>1
  <2>3. QED
    BY <2>1, <2>2
<1>3. seq - n = IF seq > Cap THEN seq - Cap ELSE 0
  BY <1>1
<1>4. seq - (seq - n) = n
  BY <1>1
<1>5. QED
  BY <1>2, <1>3, <1>4 DEF Window!Retained, Window!Bytes

(* Every ring implements the abstract window of the last Cap bytes: each    *)
(* Write, wrapping or not, is one Extend step of ByteWindow.                *)
THEOREM RingImplements == RingSpec => Implements
<1>1. RingInit => Window!Init
  <2> SUFFICES ASSUME RingInit PROVE Window!Init
    OBVIOUS
  <2>1. n = 0 /\ seq = 0
    BY DEF RingInit
  <2>2. copyLast(0) = <<>>
    BY DEF copyLast
  <2>3. QED
    BY <2>1, <2>2 DEF Window!Init
<1>2. /\ RingTypeOK /\ HoldsTail
      /\ (RingTypeOK /\ HoldsTail)'
      /\ [RingNext]_ringVars
      => [Window!Next]_(Window!windowVars)
  <2> SUFFICES ASSUME RingTypeOK, HoldsTail, (RingTypeOK /\ HoldsTail)', [RingNext]_ringVars
               PROVE  [Window!Next]_(Window!windowVars)
    OBVIOUS
  <2>1. CASE RingNext
    <3>1. PICK k \in Lens : Write(k)
      BY <2>1 DEF RingNext
    <3>2. (RingTypeOK /\ HoldsTail => copyLast(n) = Window!Retained(seq))'
      BY RingWindow, PTL
    <3>3. copyLast(n)' = Window!Retained(seq')
      BY <3>2
    <3>4. QED
      BY <3>1, <3>3 DEF Write, Window!Next, Window!Extend
  <2>2. CASE UNCHANGED ringVars
    BY <2>2 DEF ringVars, Window!windowVars, copyLast
  <2>3. QED
    BY <2>1, <2>2
<1>3. QED
  BY <1>1, <1>2, RingHoldsTail, PTL DEF RingSpec, Implements, Window!Spec
===============================================================================
