------------------------------- MODULE ToolState -------------------------------
(***************************************************************************)
(* What an agent believes of the AI tool in one session until the session is *)
(* closed: running, idle, waiting for input, unknown, exited.                *)
(* Structured signals of the tool (internal/hooks/server.go) and a heuristic *)
(* over the terminal's output (internal/session/heuristic.go, run by         *)
(* internal/agent/agent.go) write the same record, each in several critical  *)
(* sections, and the exit and kill_resume write it too.                      *)
(*                                                                          *)
(* A goroutine is the list of the critical sections it still has to go       *)
(* through.  Time is in units of which the thresholds are multiples; the     *)
(* heuristic's ticker is faster, so it runs at least once in every unit.     *)
(* Approvals of hooks are in Approvals and ApprovalRelay; here only the      *)
(* heuristic's own approval is kept.  The session is one outside tmux: what   *)
(* reattaching does to its state is in SessionReport.                        *)
(***************************************************************************)
EXTENDS Naturals, Sequences

CONSTANTS
    Hooks,          \* requests the hook server can have under way
    Lines,          \* prompts the last line can show
    Debounce, Suspicious, Fresh, Stale,     \* SuspectDebounce, SilenceForSuspect,
                                            \* StructuredFreshFor, SilenceForUnknown
    MaxSignals,     \* bound on hooks and kill_resumes
    None

ASSUME NoneAssumption == None \notin Lines \cup Hooks
ASSUME ThresholdsAssumption ==
    /\ {Debounce, Suspicious, Fresh, Stale} \subseteq Nat \ {0}
    /\ Debounce <= Suspicious /\ Suspicious <= Stale /\ Fresh <= Stale
    /\ Fresh > 1        \* the heuristic runs while a signal is fresh
ASSUME BoundAssumption == MaxSignals \in Nat

Heur == "runHeuristics"
Wait == "waitLoop"
ASSUME NamesAssumption == Hooks \cap {Heur, Wait} = {}
Actors == Hooks \cup {Heur, Wait}

VARIABLES
    st,             \* Session.info.State, and whether the heuristic set it
    alive,          \* info.PTYAlive
    left,           \* toolExited: the tool has left the shell
    line,           \* the prompt on the last line, or None
    quiet, heard,   \* age of the last output, of the last structured signal
    cand,           \* age of candidateSince, or None
    verdict,        \* "suspect" while suspectAt, "unknown" while unknownAt is set
    outSince,       \* there was output after it
    due,            \* the heuristic has not run in this unit
    ptyKey,         \* Agent.ptyKeys
    pending,        \* the heuristic's approvals pending in the agent's store
    todo,           \* what each goroutine still has to do ...
    task,           \* ... the state it sets and its approval's key
    signals,        \* how many signals there were
    stray           \* the heuristic's approval came, or is coming, after the session
                    \* was settled for its end, or a kill_resume left it unsettled

sessVars == <<st, alive, left>>
heurVars == <<cand, verdict, outSince>>
timeVars == <<quiet, heard, due>>
keyVars == <<ptyKey, pending>>
workVars == <<todo, task>>
vars == <<sessVars, heurVars, timeVars, keyVars, workVars, line, signals, stray>>

Running == [s |-> "running", by |-> "tool"]
NoTask == [goal |-> None, key |-> None]
Init ==
    /\ st = Running /\ alive = TRUE /\ left = FALSE
    /\ line = None /\ quiet = 0 /\ heard = Stale        \* never heard is stale
    /\ cand = None /\ verdict = "none" /\ outSince = FALSE /\ due = TRUE
    /\ ptyKey = None /\ pending = {}
    /\ todo = [a \in Actors |-> <<>>] /\ task = [a \in Actors |-> NoTask]
    /\ signals = 0 /\ stray = FALSE

-------------------------------------------------------------------------------
(* Time and the terminal *)

Older(n) == IF n < Stale THEN n + 1 ELSE n
Pass ==
    /\ ~due /\ todo[Heur] = <<>>
    /\ quiet' = Older(quiet) /\ heard' = Older(heard) /\ due' = TRUE
    /\ cand' = IF cand = None \/ cand = Debounce THEN cand ELSE cand + 1
    /\ UNCHANGED <<sessVars, verdict, outSince, keyVars, workVars, line, signals, stray>>

Output(l) ==
    /\ alive
    /\ line' = l /\ quiet' = 0 /\ outSince' = (verdict # "none")
    /\ UNCHANGED <<sessVars, cand, verdict, heard, due, keyVars, workVars, signals, stray>>

-------------------------------------------------------------------------------
(* What starts a goroutine *)

Starts(a, steps, g, k) ==
    /\ todo[a] = <<>>
    /\ todo' = [todo EXCEPT ![a] = steps]
    /\ task' = [task EXCEPT ![a] = [goal |-> g, key |-> k]]
At(a, step) == todo[a] # <<>> /\ Head(todo[a]) = step
Counted == signals < MaxSignals /\ signals' = signals + 1

(* Handlers of the hook server.  Every one that carries the tool's session id  *)
(* first binds it.                                                             *)
Plan(e) ==
    CASE e = "prompt" -> <<"bind", "set">>      \* SessionStart, UserPromptSubmit, ...
      [] e = "ask" -> <<"bind", "set">>         \* PermissionRequest, Notification
      [] e = "stop" -> <<"bind", "settle", "set">>
      [] e = "end" -> <<"bind", "settle", "leave", "set">>
      [] e = "metrics" -> <<"measure">>         \* the status line
Wanted(e) ==
    CASE e = "prompt" -> "running" [] e = "ask" -> "needs_input" [] OTHER -> "idle"
Events == {"prompt", "ask", "stop", "end", "metrics"}
Hook(h, e) ==
    /\ Counted
    /\ Starts(h, Plan(e), [s |-> Wanted(e), by |-> "tool"], None)
    /\ UNCHANGED <<sessVars, heurVars, timeVars, keyVars, line, stray>>

(* The process ends. *)
Exit ==
    /\ alive
    /\ st' = [s |-> "exited", by |-> "tool"] /\ alive' = FALSE
    /\ Starts(Wait, <<"settle">>, None, None)
    /\ UNCHANGED <<left, heurVars, timeVars, keyVars, line, signals, stray>>

(* A suspicion's approval is still to be added. *)
Adding == todo[Heur] \in {<<"set", "add", "key">>, <<"add", "key">>}

(* kill_resume comes to its end, with a new process or without one. *)
Restarted ==
    /\ Counted
    /\ quiet' = 0 /\ outSince' = (verdict # "none") /\ line' = None
    /\ UNCHANGED <<cand, verdict, heard, due, keyVars, workVars>>
Respawn ==
    /\ Restarted
    /\ st' = Running /\ alive' = TRUE /\ left' = FALSE /\ UNCHANGED stray
RespawnFails ==
    /\ Restarted
    /\ st' = [s |-> "failed", by |-> "tool"] /\ alive' = FALSE /\ UNCHANGED left
    /\ stray' = (stray \/ Adding \/ pending # {})

-------------------------------------------------------------------------------
(* The heuristic: Session.Heuristic is one critical section, and what follows  *)
(* from its verdict are others.                                                *)

IsFresh == heard < Fresh
Concludes(v, steps, s, k) ==
    /\ Starts(Heur, steps, [s |-> s, by |-> "pty"], k)
    /\ verdict' = v /\ outSince' = FALSE
Undecided == UNCHANGED <<workVars, verdict, outSince>>

(* Output or a structured signal after a verdict takes it back. *)
TakenBack_Quiet == verdict # "none" /\ IsFresh      \* mutant: output does not count
TakenBack == verdict # "none" /\ (outSince \/ IsFresh)
Cleared_Keep ==                         \* mutant: the approval is not withdrawn
    /\ verdict = "suspect" /\ TakenBack
    /\ Concludes("none", <<"set">>, "running", None)
    /\ cand' = None
Cleared ==
    /\ verdict = "suspect" /\ TakenBack
    /\ Concludes("none", <<"take", "withdraw", "set">>, "running", None)
    /\ cand' = None
Resumed ==
    /\ verdict = "unknown" /\ TakenBack
    /\ Concludes("none", <<"set">>, "running", None)
    /\ UNCHANGED cand
Suspected == verdict = "suspect" /\ ~TakenBack /\ UNCHANGED cand /\ Undecided

(* Without one, or with a session merely unknown, a prompt that stays makes a  *)
(* suspect after the debounce, and a long silence an unknown session.          *)
Stays == verdict # "suspect" /\ ~TakenBack
Ripe == IF cand = None THEN FALSE ELSE cand = Debounce
AtPrompt == quiet >= Suspicious /\ line # None
Silent == quiet >= Stale /\ heard >= Stale /\ verdict = "none"
Calm == Stays /\ IsFresh /\ cand' = None /\ Undecided
Candidate_Restart ==                    \* mutant: the debounce starts again every time
    /\ Stays /\ ~IsFresh /\ AtPrompt /\ ~Ripe
    /\ cand' = 0 /\ Undecided
Candidate ==
    /\ Stays /\ ~IsFresh /\ AtPrompt /\ ~Ripe
    /\ cand' = (IF cand = None THEN 0 ELSE cand) /\ Undecided
Ending == \E a \in Actors : At(a, "leave")       \* a SessionEnd has settled already
Suspect ==
    /\ Stays /\ ~IsFresh /\ AtPrompt /\ Ripe
    /\ Concludes("suspect", <<"set", "add", "key">>, "needs_input", line)
    /\ cand' = None /\ stray' = Ending
Unknown ==
    /\ Stays /\ ~IsFresh /\ ~AtPrompt /\ Silent
    /\ Concludes("unknown", <<"set">>, "unknown", None)
    /\ cand' = None
Patient == Stays /\ ~IsFresh /\ ~AtPrompt /\ ~Silent /\ cand' = None /\ Undecided

Evaluate ==
    \/ Suspect
    \/ /\ Cleared \/ Resumed \/ Suspected \/ Calm \/ Candidate \/ Unknown \/ Patient
       /\ UNCHANGED stray
Watched == alive /\ ~left
Tick ==
    /\ todo[Heur] = <<>> /\ due' = FALSE
    /\ IF Watched THEN Evaluate ELSE UNCHANGED <<heurVars, workVars, stray>>
    /\ UNCHANGED <<sessVars, quiet, heard, keyVars, line, signals>>

-------------------------------------------------------------------------------
(* The steps of a goroutine *)

Goes(a, rest, t) ==
    /\ todo' = [todo EXCEPT ![a] = rest]
    /\ task' = [task EXCEPT ![a] = IF rest = <<>> THEN NoTask ELSE t]
Does(a, step) == At(a, step) /\ Goes(a, Tail(todo[a]), task[a])

Bind(a) ==                              \* SetToolSession
    /\ Does(a, "bind") /\ left' = FALSE
    /\ UNCHANGED <<st, alive, heurVars, timeVars, keyVars, line, signals, stray>>

Leave(a) ==                             \* ToolExited
    /\ Does(a, "leave") /\ left' = TRUE
    /\ UNCHANGED <<st, alive, heurVars, timeVars, keyVars, line, signals, stray>>

Settle(a) ==                            \* Store.CloseSession
    /\ Does(a, "settle") /\ pending' = {} /\ stray' = Adding
    /\ UNCHANGED <<sessVars, heurVars, timeVars, ptyKey, line, signals>>

(* SetState is refused once the session has exited. *)
SetState(a) ==
    LET refused == st.s = "exited"
        g == task[a].goal IN
    /\ Does(a, "set")
    /\ st' = IF refused THEN st ELSE g
    /\ heard' = IF refused \/ g.by = "pty" THEN heard ELSE 0
    /\ UNCHANGED <<alive, left, heurVars, quiet, due, keyVars, line, signals, stray>>

Measure(a) ==                           \* SetMetrics
    /\ Does(a, "measure") /\ heard' = 0
    /\ UNCHANGED <<sessVars, heurVars, quiet, due, keyVars, line, signals, stray>>

(* The heuristic's approval is added, then its key noted; and withdrawn by it. *)
KeyStep(a) ==
    /\ \/ Does(a, "add") /\ pending' = pending \cup {task[a].key} /\ UNCHANGED ptyKey
       \/ Does(a, "key") /\ ptyKey' = task[a].key /\ UNCHANGED pending
       \/ /\ At(a, "take") /\ Goes(a, Tail(todo[a]), [task[a] EXCEPT !.key = ptyKey])
          /\ ptyKey' = None /\ UNCHANGED pending
       \/ Does(a, "withdraw") /\ pending' = pending \ {task[a].key} /\ UNCHANGED ptyKey
    /\ UNCHANGED <<sessVars, heurVars, timeVars, line, signals, stray>>

(* A console decides it. *)
Decided(k) ==
    /\ k \in pending /\ pending' = pending \ {k}
    /\ UNCHANGED <<sessVars, heurVars, timeVars, ptyKey, workVars, line, signals, stray>>

-------------------------------------------------------------------------------
Run(a) ==
    \/ Bind(a) \/ Leave(a) \/ Settle(a) \/ SetState(a) \/ Measure(a) \/ KeyStep(a)

Next ==
    \/ Pass \/ Tick
    \/ \E l \in Lines \cup {None} : Output(l)
    \/ \E h \in Hooks, e \in Events : Hook(h, e)
    \/ Exit \/ Respawn \/ RespawnFails
    \/ \E a \in Actors : Run(a)
    \/ \E k \in Lines : Decided(k)

Spec == Init /\ [][Next]_vars

(* Goroutines run, the ticker ticks and time passes.  Tools, people and        *)
(* processes owe nothing.                                                      *)
Fairness == WF_vars(Pass) /\ WF_vars(Tick) /\ \A a \in Actors : WF_vars(Run(a))
FairSpec == Spec /\ Fairness

-------------------------------------------------------------------------------
States == {"running", "needs_input", "idle", "failed", "unknown", "exited"}
Steps == {"bind", "settle", "leave", "set", "measure", "add", "key", "take", "withdraw"}
Ages == 0..Stale
Records == [s : States, by : {"tool", "pty"}]

TypeOK ==
    /\ st \in Records /\ {alive, left, outSince, due, stray} \subseteq BOOLEAN
    /\ {line, ptyKey} \subseteq Lines \cup {None} /\ pending \subseteq Lines
    /\ {quiet, heard} \subseteq Ages /\ cand \in 0..Debounce \cup {None}
    /\ verdict \in {"none", "suspect", "unknown"}
    /\ verdict = "suspect" => cand = None
    /\ verdict = "none" => ~outSince
    /\ todo \in [Actors -> Seq(Steps)]
    /\ task \in [Actors -> [goal : Records \cup {None}, key : Lines \cup {None}]]
    /\ signals \in 0..MaxSignals

(* Between two runs of the heuristic, the agent holds the key of an approval   *)
(* exactly while the suspicion it came from stands, and any approval of the    *)
(* heuristic still pending is that one, so that the verdict that takes the     *)
(* suspicion back finds it, through hooks that close all of the session's,     *)
(* exits and kill_resume.  Where the heuristic no longer watches the session   *)
(* nothing of it stays pending that CloseSession is not still to close, but    *)
(* for one added after CloseSession or left by a kill_resume that failed.      *)
SettleAhead(a) == \E i \in DOMAIN todo[a] : todo[a][i] = "settle"
Settled == pending = {} \/ Watched \/ \E a \in Actors : SettleAhead(a)
SuspicionIsHeld ==
    /\ todo[Heur] = <<>> =>
        /\ ptyKey # None <=> verdict = "suspect"
        /\ pending \subseteq {ptyKey}
    /\ stray \/ Settled

(* The store's CloseSession is there for a session that is closed or whose     *)
(* tool exited; with the heuristic's Add after it, one approval is left.       *)
NoPhantom == Settled

(* Once output comes after a suspicion, its approval is withdrawn, unless the  *)
(* tool ends.                                                                  *)
SuspicionIsWithdrawn ==
    \A k \in Lines :
        k \in pending /\ outSince ~> k \notin pending \/ ~Watched

(* A tool that has fallen silent for good, on the terminal and in its hooks,   *)
(* ends up as waiting for input if it stopped at a prompt and as unknown if    *)
(* not, whatever signals and verdicts crossed before.                          *)
SilenceIsNoticed ==
    \A prompts \in BOOLEAN :
        <>[](Watched /\ quiet = Stale /\ heard = Stale /\ (line # None) = prompts)
            => <>[](st = [s |-> IF prompts THEN "needs_input" ELSE "unknown", by |-> "pty"])

(* The heuristic is for sessions without structured signals: it reaches no     *)
(* verdict that would replace a state the tool has reported recently.          *)
SignalsComeFirst ==
    [][todo[Heur] = <<>> /\ todo'[Heur] # <<>> => ~(st.by = "tool" /\ IsFresh)]_vars
================================================================================
