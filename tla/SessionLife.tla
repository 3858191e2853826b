------------------------------ MODULE SessionLife ------------------------------
(***************************************************************************)
(* The life of one session's process (internal/session/session.go and       *)
(* persist.go, internal/agent/persist.go): generations of a shell in a PTY,  *)
(* or of a tmux client in front of a shell that outlives it, each with a      *)
(* waitLoop; kill_resume, which replaces a generation; session.close and      *)
(* Suspend; and the agent's own restart, which adopts what tmux still holds.  *)
(*                                                                          *)
(* Session.mu is released between looking at the session and acting on it,   *)
(* so each critical section, each spawn and each tmux command is a step.     *)
(* tmux commands are taken to succeed; state and exit codes are left out.    *)
(***************************************************************************)
EXTENDS Naturals

CONSTANTS
    MaxGen,      \* bound on the processes spawned
    MaxLost,     \* bound on the tmux clients lost while their session lives
    MaxRestarts, \* bound on the agent's restarts
    MaxFast      \* reattachments in a row that died at once before giving up

ASSUME BoundsAssumption ==
    MaxGen \in Nat \ {0} /\ {MaxLost, MaxRestarts, MaxFast} \subseteq Nat

Gens == 1..MaxGen

VARIABLES
    persist,    \* Session.persist: the shell lives in tmux
    tmux,       \* the tmux session exists
    stage,      \* how far each generation and its waitLoop are
    child,      \* the client a reattachment has spawned and not installed
    doomed,     \* generations terminate has signalled
    cur,        \* Session.cur, 0 for nil
    alive,      \* SessionInfo.PTYAlive
    killing, closed, fast,
    killer,     \* where KillResume is
    old, new,   \* the generation it replaces, the one it spawned
    closer,     \* where Close or Suspend is
    victim,     \* the generation it ends
    kept,       \* it is Suspend: tmux keeps the session
    meta,       \* the session's directory, for adoption, exists
    lost, restarts,
    missed      \* history: processes whose waitLoop looked at s.cur before
                \* they were in it, and took them for replaced ones

sessionVars == <<cur, alive, killing, closed, fast>>
killVars == <<killer, old, new>>
closeVars == <<closer, victim, kept, meta>>
countVars == <<lost, restarts, missed>>
vars == <<persist, tmux, stage, child, doomed, sessionVars, killVars, closeVars, countVars>>

(* The next process to be spawned is g. *)
Fresh(g) == stage[g] = "unborn" /\ \A h \in Gens : stage[h] = "unborn" => g <= h
SomeUnborn == \E g \in Gens : stage[g] = "unborn"

(* close(p.exited) is done. *)
Exited_Early(g) ==                      \* mutant: closed before the exit is recorded
    stage[g] \in {"record", "takeback", "install", "failing", "notify", "reaped"}
Exited(g) == stage[g] \in {"takeback", "install", "failing", "notify", "reaped"}

(* NewSession and Adopt spawn before they set s.cur: the process may be over. *)
Started(g, over) == IF g \in over THEN "superseded" ELSE "running"

Init ==
    /\ persist \in BOOLEAN /\ tmux = persist
    /\ missed \in SUBSET {1}
    /\ stage = [g \in Gens |-> IF g # 1 THEN "unborn" ELSE Started(g, missed)]
    /\ child = [g \in Gens |-> 0] /\ doomed = {}
    /\ cur = 1 /\ alive = TRUE /\ killing = FALSE /\ closed = FALSE /\ fast = 0
    /\ killer = "idle" /\ old = 0 /\ new = 0
    /\ closer = "idle" /\ victim = 0 /\ kept = FALSE /\ meta = TRUE
    /\ lost = 0 /\ restarts = 0

-------------------------------------------------------------------------------
(* Processes *)

(* The shell in tmux ends by itself. *)
ShellEnds ==
    /\ tmux /\ tmux' = FALSE
    /\ UNCHANGED <<persist, stage, child, doomed, sessionVars, killVars, closeVars, countVars>>

(* WaitProcess returns: the shell, or the tmux client, is gone and drained. *)
Ends(g) ==
    /\ stage[g] = "running"
    /\ stage' = [stage EXCEPT ![g] = "ended"]
    /\ UNCHANGED <<persist, tmux, child, doomed, sessionVars, killVars, closeVars,
                   restarts, missed>>

MustEnd(g) == g \in doomed \/ (persist /\ ~tmux)

EndsForced(g) == MustEnd(g) /\ Ends(g) /\ UNCHANGED lost
EndsAlone(g) == ~MustEnd(g) /\ ~persist /\ Ends(g) /\ UNCHANGED lost
ClientLost(g) == ~MustEnd(g) /\ persist /\ lost < MaxLost /\ Ends(g) /\ lost' = lost + 1

(* spawn: under tmux, new-session -A attaches or starts a new shell. *)
Spawn(g) ==
    /\ Fresh(g)
    /\ tmux' = persist

-------------------------------------------------------------------------------
(* waitLoop of generation g *)

NotInstalled(g) == (killer = "install" /\ new = g) \/ \E h \in Gens : stage[h] = "install" /\ child[h] = g

(* spawn starts the waitLoop; whoever called spawn sets s.cur afterwards. *)
Overlook(g) == missed' = IF NotInstalled(g) THEN missed \cup {g} ELSE missed

(* superseded := s.cur != p || s.killing || s.closed *)
Decide_Client(g) ==                     \* mutant: under tmux every exit is only the client's
    /\ stage[g] = "ended"
    /\ stage' = [stage EXCEPT ![g] = IF cur # g \/ killing \/ closed \/ persist
                                       THEN "superseded" ELSE "genuine"]
    /\ Overlook(g)
    /\ UNCHANGED <<persist, tmux, child, doomed, sessionVars, killVars, closeVars, lost, restarts>>

Decide(g) ==
    /\ stage[g] = "ended"
    /\ stage' = [stage EXCEPT ![g] = IF cur # g \/ killing \/ closed
                                       THEN "superseded" ELSE "genuine"]
    /\ Overlook(g)
    /\ UNCHANGED <<persist, tmux, child, doomed, sessionVars, killVars, closeVars, lost, restarts>>

(* has-session: a lost client is taken back, else the exit is recorded. *)
AskTmux(g) ==
    /\ stage[g] = "genuine"
    /\ stage' = [stage EXCEPT ![g] = IF persist /\ tmux THEN "takeback" ELSE "record"]
    /\ UNCHANGED <<persist, tmux, child, doomed, sessionVars, killVars, closeVars, countVars>>

Record_Code(g) ==                       \* mutant: the exit code is set, PTYAlive is not
    /\ stage[g] = "record"
    /\ stage' = [stage EXCEPT ![g] = "notify"]
    /\ UNCHANGED <<persist, tmux, child, doomed, sessionVars, killVars, closeVars, countVars>>

Record(g) ==
    /\ stage[g] = "record"
    /\ alive' = FALSE
    /\ stage' = [stage EXCEPT ![g] = "notify"]
    /\ UNCHANGED <<persist, tmux, child, doomed, cur, killing, closed, fast,
                   killVars, closeVars, countVars>>

(* A superseded generation only closes p.exited. *)
Bury_Silent(g) ==                       \* mutant: it returns without closing p.exited
    /\ stage[g] = "superseded"
    /\ UNCHANGED vars

Bury(g) ==
    /\ stage[g] = "superseded"
    /\ stage' = [stage EXCEPT ![g] = "reaped"]
    /\ UNCHANGED <<persist, tmux, child, doomed, sessionVars, killVars, closeVars, countVars>>

(* OnExit *)
Notify(g) ==
    /\ stage[g] = "notify"
    /\ stage' = [stage EXCEPT ![g] = "reaped"]
    /\ UNCHANGED <<persist, tmux, child, doomed, sessionVars, killVars, closeVars, countVars>>

(* reattach: spawn a client unless they keep dying at once. *)
TakeBack(g) ==
    /\ stage[g] = "takeback"
    /\ fast' \in {0, IF fast > MaxFast THEN fast ELSE fast + 1}
    /\ \/ /\ fast' <= MaxFast
          /\ \E h \in Gens :
                /\ Spawn(h)
                /\ stage' = [stage EXCEPT ![g] = "install", ![h] = "running"]
                /\ child' = [child EXCEPT ![g] = h]
       \/ /\ stage' = [stage EXCEPT ![g] = "failing"]   \* gave up, or spawn failed
          /\ UNCHANGED <<tmux, child>>
    /\ UNCHANGED <<persist, doomed, cur, alive, killing, closed, killVars, closeVars, countVars>>

Install(g) ==
    /\ stage[g] = "install"
    /\ cur' = child[g] /\ alive' = TRUE
    /\ child' = [child EXCEPT ![g] = 0]
    /\ stage' = [stage EXCEPT ![g] = "reaped"]
    /\ UNCHANGED <<persist, tmux, doomed, killing, closed, fast, killVars, closeVars, countVars>>

RecordFailure(g) ==
    /\ stage[g] = "failing"
    /\ alive' = FALSE
    /\ stage' = [stage EXCEPT ![g] = "notify"]
    /\ UNCHANGED <<persist, tmux, child, doomed, cur, killing, closed, fast,
                   killVars, closeVars, countVars>>

-------------------------------------------------------------------------------
(* KillResume *)

KillResume_NoWait ==                    \* mutant: the old process is not waited for
    /\ killer = "idle" /\ ~closed /\ ~killing /\ SomeUnborn
    /\ killing' = TRUE
    /\ old' = cur
    /\ killer' = "spawn"
    /\ UNCHANGED <<persist, tmux, stage, child, doomed, cur, alive, closed, fast, new,
                   closeVars, countVars>>

KillResume ==
    /\ killer = "idle" /\ ~closed /\ ~killing /\ SomeUnborn
    /\ killing' = TRUE
    /\ old' = cur
    /\ killer' = IF cur # 0 /\ alive THEN "stop" ELSE "spawn"
    /\ UNCHANGED <<persist, tmux, stage, child, doomed, cur, alive, closed, fast, new,
                   closeVars, countVars>>

(* The grace period is over: kill the tmux session and the process. *)
Terminate ==
    /\ killer = "stop" /\ ~Exited(old) /\ old \notin doomed
    /\ tmux' = FALSE
    /\ doomed' = doomed \cup {old}
    /\ UNCHANGED <<persist, stage, child, sessionVars, killVars, closeVars, countVars>>

Stopped ==
    /\ killer = "stop" /\ Exited(old)
    /\ killer' = "spawn"
    /\ UNCHANGED <<persist, tmux, stage, child, doomed, sessionVars, old, new,
                   closeVars, countVars>>

Respawn ==
    /\ killer = "spawn"
    /\ \/ \E g \in Gens :
            /\ Spawn(g)
            /\ stage' = [stage EXCEPT ![g] = "running"]
            /\ new' = g
            /\ killer' = "install"
       \/ killer' = "failing" /\ UNCHANGED <<tmux, stage, new>>
    /\ UNCHANGED <<persist, child, doomed, sessionVars, old, closeVars, countVars>>

Resumed ==
    /\ killer = "install"
    /\ killing' = FALSE /\ cur' = new /\ alive' = TRUE
    /\ killer' = "idle" /\ old' = 0 /\ new' = 0
    /\ UNCHANGED <<persist, tmux, stage, child, doomed, closed, fast, closeVars, countVars>>

ResumeFailed ==
    /\ killer = "failing"
    /\ killing' = FALSE /\ cur' = 0 /\ alive' = FALSE
    /\ killer' = "idle" /\ old' = 0
    /\ UNCHANGED <<persist, tmux, stage, child, doomed, closed, fast, new, closeVars, countVars>>

-------------------------------------------------------------------------------
(* Close and Suspend *)

Leave(suspend) ==
    /\ closer = "idle" /\ ~closed
    /\ closed' = TRUE /\ alive' = FALSE
    /\ kept' = suspend
    /\ victim' = IF alive THEN cur ELSE 0
    /\ closer' = IF persist /\ ~suspend THEN "tmux" ELSE "terminate"
    /\ UNCHANGED <<persist, tmux, stage, child, doomed, cur, killing, fast, killVars,
                   meta, countVars>>

Close == Leave(FALSE)
Suspend == persist /\ Leave(TRUE)       \* without tmux it is Close

CloseTmux ==
    /\ closer = "tmux" /\ closer' = "terminate"
    /\ tmux' = FALSE
    /\ UNCHANGED <<persist, stage, child, doomed, sessionVars, killVars, victim, kept, meta,
                   countVars>>

(* terminate, and a bounded wait for p.exited. *)
CloseTerminate ==
    /\ closer = "terminate" /\ closer' = "forget"
    /\ doomed' = doomed \cup ({victim} \ {0})
    /\ UNCHANGED <<persist, tmux, stage, child, sessionVars, killVars, victim, kept, meta,
                   countVars>>

(* closeSession removes the session's directory; Suspend leaves it. *)
Forget ==
    /\ closer = "forget" /\ closer' = "done"
    /\ meta' = (meta /\ kept)
    /\ UNCHANGED <<persist, tmux, stage, child, doomed, sessionVars, killVars, victim, kept,
                   countVars>>

-------------------------------------------------------------------------------
(* The agent dies, in order or not, and its clients with it.  The next one  *)
(* adopts the session if tmux still has it and its directory is there.       *)
Restart ==
    /\ persist /\ restarts < MaxRestarts
    /\ restarts' = restarts + 1
    /\ \E g \in Gens :
        LET adopt == tmux /\ meta IN
        /\ Fresh(g)
        /\ missed' \in SUBSET (IF adopt THEN {g} ELSE {})
        /\ stage' = [h \in Gens |-> IF stage[h] # "unborn" THEN "reaped"
                                     ELSE IF adopt /\ h = g THEN Started(g, missed') ELSE "unborn"]
        /\ cur' = IF adopt THEN g ELSE 0
        /\ alive' = adopt /\ closed' = ~adopt
        /\ closer' = IF adopt THEN "idle" ELSE "done"
        /\ meta' = adopt
    /\ child' = [g \in Gens |-> 0] /\ doomed' = {}
    /\ killing' = FALSE /\ fast' = 0
    /\ killer' = "idle" /\ old' = 0 /\ new' = 0
    /\ victim' = 0 /\ kept' = FALSE
    /\ UNCHANGED <<persist, tmux, lost>>

-------------------------------------------------------------------------------
WaitLoop(g) ==
    Decide(g) \/ AskTmux(g) \/ Record(g) \/ Bury(g) \/ Notify(g)
    \/ TakeBack(g) \/ Install(g) \/ RecordFailure(g)

Killer == Terminate \/ Stopped \/ Respawn \/ Resumed \/ ResumeFailed
Closer == CloseTmux \/ CloseTerminate \/ Forget

Next ==
    \/ \E g \in Gens : EndsForced(g) \/ EndsAlone(g) \/ ClientLost(g) \/ WaitLoop(g)
    \/ ShellEnds \/ KillResume \/ Killer \/ Close \/ Suspend \/ Closer \/ Restart

(* Goroutines run, timers fire, and a signalled process or a client without *)
(* its session ends.  Tools, operators and crashes owe nothing.              *)
Fairness ==
    /\ \A g \in Gens : WF_vars(EndsForced(g)) /\ WF_vars(WaitLoop(g))
    /\ WF_vars(Killer) /\ WF_vars(Closer)

Spec == Init /\ [][Next]_vars
FairSpec == Spec /\ Fairness

-------------------------------------------------------------------------------
Stages == {"unborn", "running", "ended", "genuine", "record", "superseded",
           "notify", "takeback", "install", "failing", "reaped"}

TypeOK ==
    /\ {persist, tmux, alive, killing, closed, kept, meta} \subseteq BOOLEAN
    /\ stage \in [Gens -> Stages] /\ child \in [Gens -> 0..MaxGen]
    /\ doomed \subseteq Gens
    /\ {cur, old, new, victim} \subseteq 0..MaxGen
    /\ fast \in 0..(MaxFast + 1)
    /\ killer \in {"idle", "stop", "spawn", "install", "failing"}
    /\ killing = (killer # "idle") /\ (killer = "stop" => old # 0)
    /\ closer \in {"idle", "tmux", "terminate", "forget", "done"}
    /\ lost \in 0..MaxLost /\ restarts \in 0..MaxRestarts
    /\ missed \subseteq Gens

(* Without tmux a session never has two shells writing into one stream. *)
OneShell ==
    ~persist => \A g, h \in Gens : stage[g] = "running" /\ stage[h] = "running" => g = h

(* A session that says its PTY is alive has a process, or somebody at work  *)
(* to replace it or to report its end: no exit, take-back or kill_resume     *)
(* leaves it claiming a terminal that is not there, unless its process was   *)
(* over, and judged by its own waitLoop, before it was set in s.cur.         *)
AliveIsBacked ==
    alive /\ ~closed /\ ~killing /\ cur \notin missed =>
        cur # 0 /\ stage[cur] \notin {"unborn", "superseded", "notify", "reaped"}

(* Without tmux a running current process is never declared dead: an exit   *)
(* recorded late cannot hit the process kill_resume put in its place.        *)
RunningIsAlive ==
    ~persist /\ ~closed /\ cur # 0 /\ stage[cur] = "running" => alive

(* kill_resume, which waits without a timeout for p.exited, always ends. *)
KillResumeEnds == killing ~> ~killing

(* The end of the current process does not stay unnoticed: the session is   *)
(* declared dead, or gets a running process again, or is closed; or a        *)
(* replacement was set in s.cur that had itself been over before that.       *)
ExitIsNoticed ==
    (alive /\ cur # 0 /\ stage[cur] = "ended")
        ~> (closed \/ ~alive \/ stage[cur] = "running" \/ cur \in missed)

(* No session ever claims a terminal whose process had ended before it was   *)
(* installed.  The code does not achieve this: its end is never reported.    *)
NothingMissed ==
    ~(alive /\ ~closed /\ ~killing /\ cur \in missed /\ stage[cur] = "reaped")

-------------------------------------------------------------------------------
(* A closed session leaves nothing running ("Close terminates the process   *)
(* and releases the PTY", session.go; "Close really ends it", docs/04).      *)
NothingOutlivesClose ==
    /\ closer = "done" /\ ~kept /\ killer = "idle"
    /\ \A g \in Gens : stage[g] \notin {"takeback", "install"}
    => \A g \in Gens : stage[g] = "running" => MustEnd(g)
================================================================================
