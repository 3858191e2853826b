---------------------------- MODULE ToolStateProofs ----------------------------
(***************************************************************************)
(* For any number of hooks, prompts and signals and any thresholds: the      *)
(* heuristic's approval and the agent's note of it follow its verdict, and    *)
(* what is pending of it when the tool ends is settled, but for what comes    *)
(* after the settling.                                                       *)
(*                                                                          *)
(* The argument: a verdict and what is done about it are sections of their    *)
(* own, but only the heuristic's goroutine adds, notes and withdraws, and it  *)
(* takes no further verdict before it is through (HeurStage).  Others can     *)
(* only empty the set of pending approvals (OthersDo).  For the end of the    *)
(* tool it must be known where in its plan a hook is (OthersAt): while one is *)
(* between CloseSession and ToolExited the session is as good as unwatched    *)
(* (Exposed), and what is pending then is stray or still to be settled.       *)
(***************************************************************************)
EXTENDS ToolState, TLAPS

OtherSteps == {"bind", "settle", "leave", "set", "measure"}
OthersDo == \A a \in Actors \ {Heur} : todo[a] \in Seq(OtherSteps)

(* Where the heuristic's goroutine is, and what it knows there. *)
HeurStage ==
    \/ todo[Heur] = <<>> /\ pending \subseteq {ptyKey} /\ (ptyKey # None <=> verdict = "suspect")
    \/ todo[Heur] = <<"set">> /\ pending = {} /\ ptyKey = None /\ verdict # "suspect"
    \/ /\ todo[Heur] = <<"take", "withdraw", "set">>
       /\ pending \subseteq {ptyKey} /\ verdict # "suspect"
    \/ /\ todo[Heur] = <<"withdraw", "set">>
       /\ pending \subseteq {task[Heur].key} /\ ptyKey = None /\ verdict # "suspect"
    \/ /\ todo[Heur] \in {<<"set", "add", "key">>, <<"add", "key">>}
       /\ pending = {} /\ ptyKey = None /\ task[Heur].key # None /\ verdict = "suspect"
    \/ /\ todo[Heur] = <<"key">>
       /\ pending \subseteq {task[Heur].key} /\ task[Heur].key # None
       /\ ptyKey = None /\ verdict = "suspect"

(* Whoever has still to set the state knows to what. *)
GoalsKnown ==
    \A a \in Actors : todo[a] # <<>> => task[a].goal \in Records \/ todo[a] = <<"settle">>

IInv == TypeOK /\ OthersDo /\ GoalsKnown /\ HeurStage

-------------------------------------------------------------------------------
(* Types: the session's variables, the heuristic's, the clocks, the approvals  *)
(* and the goroutines' apart.                                                 *)

Tasks == [goal : Records \cup {None}, key : Lines \cup {None}]
SessTypes == st \in Records /\ alive \in BOOLEAN /\ left \in BOOLEAN
HeurTypes ==
    /\ cand \in 0..Debounce \cup {None} /\ verdict \in {"none", "suspect", "unknown"}
    /\ outSince \in BOOLEAN
    /\ verdict = "suspect" => cand = None
    /\ verdict = "none" => ~outSince
TimeTypes == quiet \in Ages /\ heard \in Ages /\ due \in BOOLEAN
KeyTypes == ptyKey \in Lines \cup {None} /\ pending \subseteq Lines
WorkTypes == todo \in [Actors -> Seq(Steps)] /\ task \in [Actors -> Tasks]
RestTypes == line \in Lines \cup {None} /\ signals \in 0..MaxSignals /\ stray \in BOOLEAN

LEMMA TypeParts ==
    TypeOK <=> SessTypes /\ HeurTypes /\ TimeTypes /\ KeyTypes /\ WorkTypes /\ RestTypes
<1>1. {alive, left, outSince, due, stray} \subseteq BOOLEAN
        <=> /\ alive \in BOOLEAN /\ left \in BOOLEAN /\ outSince \in BOOLEAN /\ due \in BOOLEAN
            /\ stray \in BOOLEAN
  BY Zenon
<1>2. {quiet, heard} \subseteq Ages <=> quiet \in Ages /\ heard \in Ages
  BY Zenon
<1>3. {line, ptyKey} \subseteq Lines \cup {None}
        <=> line \in Lines \cup {None} /\ ptyKey \in Lines \cup {None}
  BY Zenon
<1>4. QED
  BY <1>1, <1>2, <1>3, Zenon
     DEF TypeOK, SessTypes, HeurTypes, TimeTypes, KeyTypes, WorkTypes, RestTypes, Tasks

LEMMA TypePartsNext ==
    SessTypes' /\ HeurTypes' /\ TimeTypes' /\ KeyTypes' /\ WorkTypes' /\ RestTypes' => TypeOK'
<1>1. alive' \in BOOLEAN /\ left' \in BOOLEAN /\ outSince' \in BOOLEAN /\ due' \in BOOLEAN
          /\ stray' \in BOOLEAN
        => {alive', left', outSince', due', stray'} \subseteq BOOLEAN
  BY Zenon
<1>2. quiet' \in Ages /\ heard' \in Ages => {quiet', heard'} \subseteq Ages
  BY Zenon
<1>3. line' \in Lines \cup {None} /\ ptyKey' \in Lines \cup {None}
        => {line', ptyKey'} \subseteq Lines \cup {None}
  BY Zenon
<1>4. QED
  BY <1>1, <1>2, <1>3, Zenon
     DEF TypeOK, SessTypes, HeurTypes, TimeTypes, KeyTypes, WorkTypes, RestTypes, Tasks

LEMMA Numbers ==
    /\ Debounce \in Nat /\ Debounce > 0 /\ Stale \in Nat /\ Stale > 0
    /\ MaxSignals \in Nat
<1>1. Debounce \in Nat \ {0} /\ Stale \in Nat \ {0}
  BY ThresholdsAssumption, Zenon
<1>2. QED
  BY <1>1, BoundAssumption

LEMMA AgesTyped ==
    /\ 0 \in Ages /\ Stale \in Ages
    /\ \A n \in Ages : Older(n) \in Ages
  BY Numbers DEF Ages, Older

LEMMA HeurIsActor == Heur \in Actors /\ Wait \in Actors /\ Heur # Wait
                     /\ \A h \in Hooks : h \in Actors /\ h # Heur
  BY NamesAssumption DEF Actors, Heur, Wait

(* Starting a goroutine, and one step of it. *)
LEMMA StartsTyped ==
    ASSUME WorkTypes, NEW a \in Actors, NEW steps \in Seq(Steps), NEW g \in Records \cup {None},
           NEW k \in Lines \cup {None}, Starts(a, steps, g, k)
    PROVE  /\ WorkTypes' /\ todo[a] = <<>> /\ todo'[a] = steps
           /\ task'[a].key = k /\ task'[a].goal = g
           /\ \A b \in Actors \ {a} : todo'[b] = todo[b] /\ task'[b] = task[b]
<1>1. [goal |-> g, key |-> k] \in Tasks
  BY DEF Tasks
<1>2. QED
  BY <1>1 DEF Starts, WorkTypes

LEMMA GoesTyped ==
    ASSUME WorkTypes, NEW a \in Actors, NEW t \in Tasks, Goes(a, Tail(todo[a]), t), todo[a] # <<>>
    PROVE  /\ WorkTypes' /\ todo'[a] = Tail(todo[a])
           /\ Tail(todo[a]) # <<>> => task'[a] = t
           /\ \A b \in Actors \ {a} : todo'[b] = todo[b] /\ task'[b] = task[b]
<1>1. todo[a] \in Seq(Steps)
  BY DEF WorkTypes
<1>2. Tail(todo[a]) \in Seq(Steps)
  BY <1>1
<1>3. NoTask \in Tasks
  BY DEF NoTask, Tasks
<1>4. QED
  BY <1>2, <1>3 DEF Goes, WorkTypes

(* A goroutine that goes on keeps its goal. *)
LEMMA GoesOn ==
    ASSUME WorkTypes, GoalsKnown, NEW a \in Actors, NEW t \in Tasks, t.goal = task[a].goal,
           Goes(a, Tail(todo[a]), t), todo[a] # <<>>
    PROVE  GoalsKnown'
<1>1. /\ todo'[a] = Tail(todo[a])
      /\ Tail(todo[a]) # <<>> => task'[a] = t
      /\ \A b \in Actors \ {a} : todo'[b] = todo[b] /\ task'[b] = task[b]
  BY GoesTyped
<1>2. todo[a] = <<"settle">> => Tail(todo[a]) = <<>>
  OBVIOUS
<1>3. QED
  BY <1>1, <1>2 DEF GoalsKnown

LEMMA PlansTyped ==
    ASSUME NEW e \in Events
    PROVE  Plan(e) \in Seq(OtherSteps) /\ Plan(e) \in Seq(Steps)
           /\ [s |-> Wanted(e), by |-> "tool"] \in Records
<1>1. \/ Plan(e) = <<"bind", "set">>
      \/ Plan(e) = <<"bind", "settle", "set">>
      \/ Plan(e) = <<"bind", "settle", "leave", "set">>
      \/ Plan(e) = <<"measure">>
  BY Zenon DEF Plan, Events
<1>2. Plan(e) \in Seq(OtherSteps) /\ Plan(e) \in Seq(Steps)
  <2>1. /\ <<"bind", "set">> \in Seq(OtherSteps) /\ <<"bind", "set">> \in Seq(Steps)
        /\ <<"measure">> \in Seq(OtherSteps) /\ <<"measure">> \in Seq(Steps)
    BY DEF OtherSteps, Steps
  <2>2. /\ <<"bind", "settle", "set">> \in Seq(OtherSteps)
        /\ <<"bind", "settle", "set">> \in Seq(Steps)
    BY DEF OtherSteps, Steps
  <2>3. /\ <<"bind", "settle", "leave", "set">> \in Seq(OtherSteps)
        /\ <<"bind", "settle", "leave", "set">> \in Seq(Steps)
    BY DEF OtherSteps, Steps
  <2>4. QED
    BY <1>1, <2>1, <2>2, <2>3, Zenon
<1>3. [s |-> Wanted(e), by |-> "tool"] \in Records
  <2>1. Wanted(e) \in {"running", "needs_input", "idle"}
    BY DEF Wanted, Events
  <2>2. QED
    BY <2>1 DEF Records, States
<1>4. QED
  BY <1>2, <1>3

(* The heuristic's goroutine is where it was, and approvals only went. *)
LEMMA StageStays ==
    ASSUME HeurStage, todo'[Heur] = todo[Heur], task'[Heur] = task[Heur],
           ptyKey' = ptyKey, verdict' = verdict, pending' \subseteq pending
    PROVE  HeurStage'
  BY DEF HeurStage

LEMMA OthersStay ==
    ASSUME OthersDo, \A b \in Actors \ {Heur} : todo'[b] = todo[b]
    PROVE  OthersDo'
  BY DEF OthersDo

LEMMA GoalsStay ==
    ASSUME GoalsKnown, NEW a \in Actors,
           todo'[a] # <<>> => task'[a].goal \in Records \/ todo'[a] = <<"settle">>,
           \A b \in Actors \ {a} : todo'[b] = todo[b] /\ task'[b] = task[b]
    PROVE  GoalsKnown'
  BY DEF GoalsKnown

-------------------------------------------------------------------------------
(* Time, output, hooks, processes and consoles *)

(* A step that neither starts nor ends a section of the heuristic's.           *)
LEMMA HookKeeps ==
    ASSUME IInv, NEW h \in Hooks, NEW e \in Events, Hook(h, e)
    PROVE  IInv'
<1>0. /\ SessTypes /\ HeurTypes /\ TimeTypes /\ KeyTypes /\ WorkTypes /\ RestTypes
      /\ OthersDo /\ GoalsKnown /\ HeurStage
  BY TypeParts DEF IInv
<1>1. h \in Actors /\ h # Heur
  BY HeurIsActor
<1>2. Plan(e) \in Seq(OtherSteps) /\ Plan(e) \in Seq(Steps)
      /\ [s |-> Wanted(e), by |-> "tool"] \in Records
  BY PlansTyped
<1>3. Starts(h, Plan(e), [s |-> Wanted(e), by |-> "tool"], None)
  BY DEF Hook
<1>4. WorkTypes' /\ todo'[h] = Plan(e) /\ task'[h].goal \in Records
      /\ \A b \in Actors \ {h} : todo'[b] = todo[b] /\ task'[b] = task[b]
  BY <1>0, <1>1, <1>2, <1>3, StartsTyped
<1>5. UNCHANGED <<st, alive, left, cand, verdict, outSince, quiet, heard, due, ptyKey, pending,
                  line, stray>>
      /\ signals < MaxSignals /\ signals' = signals + 1
  BY DEF Hook, Counted, sessVars, heurVars, timeVars, keyVars
<1>6. signals' \in 0..MaxSignals
  <2>1. signals \in 0..MaxSignals
    BY <1>0 DEF RestTypes
  <2>2. QED
    BY <1>5, <2>1, Numbers
<1>7. SessTypes' /\ HeurTypes' /\ TimeTypes' /\ KeyTypes' /\ RestTypes'
  BY <1>0, <1>5, <1>6 DEF SessTypes, HeurTypes, TimeTypes, KeyTypes, RestTypes
<1>8. OthersDo' /\ GoalsKnown'
  BY <1>0, <1>1, <1>2, <1>4, GoalsStay DEF OthersDo
<1>9. HeurStage'
  BY <1>0, <1>1, <1>4, <1>5, HeurIsActor, StageStays
<1>10. QED
  BY <1>4, <1>7, <1>8, <1>9, TypePartsNext DEF IInv

LEMMA ExitKeeps ==
    ASSUME IInv, Exit
    PROVE  IInv'
<1>0. /\ SessTypes /\ HeurTypes /\ TimeTypes /\ KeyTypes /\ WorkTypes /\ RestTypes
      /\ OthersDo /\ GoalsKnown /\ HeurStage
  BY TypeParts DEF IInv
<1>1. Starts(Wait, <<"settle">>, None, None)
  BY DEF Exit
<1>2. <<"settle">> \in Seq(OtherSteps) /\ <<"settle">> \in Seq(Steps)
  BY DEF OtherSteps, Steps
<1>3. WorkTypes' /\ todo'[Wait] = <<"settle">>
      /\ \A b \in Actors \ {Wait} : todo'[b] = todo[b] /\ task'[b] = task[b]
  BY <1>0, <1>1, <1>2, HeurIsActor, StartsTyped
<1>4. /\ UNCHANGED <<left, cand, verdict, outSince, quiet, heard, due, ptyKey, pending, line,
                   signals, stray>>
      /\ st' = [s |-> "exited", by |-> "tool"] /\ alive' = FALSE
  BY DEF Exit, heurVars, timeVars, keyVars
<1>5. SessTypes'
  BY <1>0, <1>4 DEF SessTypes, Records, States
<1>6. HeurTypes' /\ TimeTypes' /\ KeyTypes' /\ RestTypes'
  BY <1>0, <1>4 DEF HeurTypes, TimeTypes, KeyTypes, RestTypes
<1>7. OthersDo' /\ GoalsKnown'
  BY <1>0, <1>2, <1>3, HeurIsActor, GoalsStay DEF OthersDo
<1>8. HeurStage'
  BY <1>0, <1>3, <1>4, HeurIsActor, StageStays
<1>9. QED
  BY <1>3, <1>5, <1>6, <1>7, <1>8, TypePartsNext DEF IInv

(* Steps that run no goroutine. *)
LEMMA OutsideKeeps ==
    ASSUME IInv,
           \/ Pass \/ Respawn \/ RespawnFails
           \/ \E l \in Lines \cup {None} : Output(l)
           \/ \E k \in Lines : Decided(k)
    PROVE  IInv'
<1>0. /\ SessTypes /\ HeurTypes /\ TimeTypes /\ KeyTypes /\ WorkTypes /\ RestTypes
      /\ OthersDo /\ GoalsKnown /\ HeurStage
  BY TypeParts DEF IInv
<1>1. UNCHANGED <<todo, task, verdict, ptyKey>> /\ pending' \subseteq pending
  BY DEF Pass, Respawn, RespawnFails, Restarted, Output, Decided, heurVars, keyVars, workVars
<1>2. WorkTypes' /\ KeyTypes' /\ OthersDo' /\ GoalsKnown'
  BY <1>0, <1>1 DEF WorkTypes, KeyTypes, OthersDo, GoalsKnown
<1>3. HeurStage'
  BY <1>0, <1>1, StageStays
<1>4. SessTypes' /\ HeurTypes' /\ TimeTypes' /\ RestTypes'
  <2>1. CASE Pass
    <3>1. UNCHANGED <<st, alive, left, verdict, outSince, line, signals, stray>>
          /\ quiet' = Older(quiet) /\ heard' = Older(heard) /\ due' = TRUE
          /\ cand' = IF cand = None \/ cand = Debounce THEN cand ELSE cand + 1
      BY <2>1 DEF Pass, sessVars
    <3>2. cand' \in 0..Debounce \cup {None} /\ (cand = None => cand' = None)
      <4>1. CASE cand = None \/ cand = Debounce
        BY <1>0, <3>1, <4>1 DEF HeurTypes
      <4>2. CASE ~(cand = None \/ cand = Debounce)
        <5>1. cand \in 0..Debounce /\ cand # Debounce /\ cand' = cand + 1
          BY <1>0, <3>1, <4>2 DEF HeurTypes
        <5>2. QED
          BY <4>2, <5>1, Numbers
      <4>3. QED
        BY <4>1, <4>2
    <3>3. HeurTypes'
      BY <1>0, <3>1, <3>2, Zenon DEF HeurTypes
    <3>4. TimeTypes'
      BY <1>0, <3>1, AgesTyped DEF TimeTypes
    <3>5. QED
      BY <1>0, <3>1, <3>3, <3>4 DEF SessTypes, RestTypes
  <2>2. ASSUME NEW l \in Lines \cup {None}, Output(l)
        PROVE  SessTypes' /\ HeurTypes' /\ TimeTypes' /\ RestTypes'
    <3>1. /\ UNCHANGED <<st, alive, left, cand, verdict, heard, due, signals, stray>>
          /\ line' = l /\ quiet' = 0 /\ outSince' = (verdict # "none")
      BY <2>2 DEF Output, sessVars
    <3>2. outSince' \in BOOLEAN /\ (verdict = "none" => ~outSince')
      BY <3>1, Zenon
    <3>3. HeurTypes'
      BY <1>0, <3>1, <3>2, Zenon DEF HeurTypes
    <3>4. QED
      BY <1>0, <3>1, <3>3, AgesTyped DEF SessTypes, TimeTypes, RestTypes
  <2>3. CASE Respawn \/ RespawnFails
    <3>1. /\ UNCHANGED <<cand, verdict, heard, due>>
          /\ line' = None /\ quiet' = 0 /\ outSince' = (verdict # "none")
          /\ signals < MaxSignals /\ signals' = signals + 1
      BY <2>3 DEF Respawn, RespawnFails, Restarted, Counted
    <3>2. outSince' \in BOOLEAN /\ (verdict = "none" => ~outSince')
      BY <3>1, Zenon
    <3>3. HeurTypes'
      BY <1>0, <3>1, <3>2, Zenon DEF HeurTypes
    <3>4. signals' \in 0..MaxSignals
      <4>1. signals \in 0..MaxSignals
        BY <1>0 DEF RestTypes
      <4>2. QED
        BY <3>1, <4>1, Numbers
    <3>5. SessTypes'
      <4>1. /\ [s |-> "running", by |-> "tool"] \in Records
            /\ [s |-> "failed", by |-> "tool"] \in Records
        BY DEF Records, States
      <4>2. \/ st' = Running /\ alive' = TRUE /\ left' = FALSE
            \/ st' = [s |-> "failed", by |-> "tool"] /\ alive' = FALSE /\ left' = left
        BY <2>3 DEF Respawn, RespawnFails
      <4>3. QED
        BY <1>0, <4>1, <4>2 DEF SessTypes, Running
    <3>6. stray' \in BOOLEAN
      <4>1. stray' = stray \/ stray' = (stray \/ Adding \/ pending # {})
        BY <2>3 DEF Respawn, RespawnFails
      <4>2. QED
        BY <1>0, <4>1, Zenon DEF RestTypes
    <3>7. QED
      BY <1>0, <3>1, <3>3, <3>4, <3>5, <3>6, AgesTyped DEF TimeTypes, RestTypes
  <2>4. ASSUME NEW k \in Lines, Decided(k)
        PROVE  SessTypes' /\ HeurTypes' /\ TimeTypes' /\ RestTypes'
    BY <1>0, <2>4 DEF Decided, sessVars, heurVars, timeVars, SessTypes, HeurTypes, TimeTypes,
                      RestTypes
  <2>5. QED
    BY <2>1, <2>2, <2>3, <2>4
<1>5. QED
  BY <1>2, <1>3, <1>4, TypePartsNext DEF IInv

-------------------------------------------------------------------------------
(* The heuristic's verdicts *)

LEMMA TickKeeps ==
    ASSUME IInv, Tick
    PROVE  IInv'
<1>0. /\ SessTypes /\ HeurTypes /\ TimeTypes /\ KeyTypes /\ WorkTypes /\ RestTypes
      /\ OthersDo /\ GoalsKnown /\ HeurStage
  BY TypeParts DEF IInv
<1>1. /\ UNCHANGED <<st, alive, left, quiet, heard, ptyKey, pending, line, signals>>
      /\ due' = FALSE /\ todo[Heur] = <<>>
  BY DEF Tick, sessVars, keyVars
<1>2. SessTypes' /\ TimeTypes' /\ KeyTypes' /\ RestTypes'
  <2>1. stray' = stray \/ stray' = Ending
    BY DEF Tick, Evaluate, Suspect
  <2>2. stray' \in BOOLEAN
    BY <1>0, <2>1, Zenon DEF RestTypes, Ending
  <2>3. QED
    BY <1>0, <1>1, <2>2 DEF SessTypes, TimeTypes, KeyTypes, RestTypes
<1>3. /\ pending \subseteq {ptyKey} /\ (ptyKey # None <=> verdict = "suspect")
      /\ verdict # "suspect" => pending = {} /\ ptyKey = None
  <2>1. pending \subseteq {ptyKey} /\ (ptyKey # None <=> verdict = "suspect")
    BY <1>0, <1>1 DEF HeurStage
  <2>2. ptyKey = None => pending = {}
    BY <1>0, <2>1, NoneAssumption DEF KeyTypes
  <2>3. QED
    BY <2>1, <2>2
<1>4. ASSUME UNCHANGED <<todo, task, verdict, outSince>>,
             \/ cand' = cand
             \/ cand' \in {None, 0} /\ (verdict # "suspect" \/ cand' = None)
      PROVE  IInv'
  <2>1. cand' \in 0..Debounce \cup {None} /\ (verdict = "suspect" => cand' = None)
    BY <1>0, <1>4, Numbers DEF HeurTypes
  <2>2. HeurTypes'
    BY <1>0, <1>4, <2>1, Zenon DEF HeurTypes
  <2>3. WorkTypes' /\ OthersDo' /\ GoalsKnown'
    BY <1>0, <1>4 DEF WorkTypes, OthersDo, GoalsKnown
  <2>4. HeurStage'
    BY <1>0, <1>1, <1>4, StageStays
  <2>5. QED
    BY <1>2, <2>2, <2>3, <2>4, TypePartsNext DEF IInv
<1>5. ASSUME NEW v \in {"none", "suspect", "unknown"}, NEW steps \in Seq(Steps),
             NEW s \in States, NEW k \in Lines \cup {None}, Concludes(v, steps, s, k),
             cand' = None \/ (cand' = cand /\ v # "suspect"),
             todo'[Heur] = steps /\ task'[Heur].key = k => HeurStage'
      PROVE  IInv'
  <2>1. Starts(Heur, steps, [s |-> s, by |-> "pty"], k) /\ verdict' = v /\ outSince' = FALSE
    BY <1>5 DEF Concludes
  <2>2. [s |-> s, by |-> "pty"] \in Records
    BY DEF Records
  <2>3. WorkTypes' /\ todo'[Heur] = steps /\ task'[Heur].key = k /\ task'[Heur].goal \in Records
        /\ \A b \in Actors \ {Heur} : todo'[b] = todo[b] /\ task'[b] = task[b]
    BY <1>0, <2>1, <2>2, HeurIsActor, StartsTyped
  <2>4. HeurStage' /\ OthersDo' /\ GoalsKnown'
    BY <1>0, <1>5, <2>3, HeurIsActor, OthersStay, GoalsStay
  <2>5. HeurTypes'
    BY <1>0, <1>5, <2>1 DEF HeurTypes
  <2>6. QED
    BY <1>2, <2>3, <2>4, <2>5, TypePartsNext DEF IInv
<1>6. CASE Cleared
  <2>1. verdict = "suspect" /\ cand' = None
        /\ Concludes("none", <<"take", "withdraw", "set">>, "running", None)
    BY <1>6 DEF Cleared
  <2>2. <<"take", "withdraw", "set">> \in Seq(Steps) /\ "running" \in States
    BY DEF Steps, States
  <2>3. todo'[Heur] = <<"take", "withdraw", "set">> => HeurStage'
    BY <1>1, <1>3, <2>1 DEF Concludes, HeurStage
  <2>4. QED
    BY <1>5, <2>1, <2>2, <2>3
<1>7. CASE Resumed
  <2>1. verdict = "unknown" /\ cand' = cand /\ Concludes("none", <<"set">>, "running", None)
    BY <1>7 DEF Resumed
  <2>2. <<"set">> \in Seq(Steps) /\ "running" \in States
    BY DEF Steps, States
  <2>3. todo'[Heur] = <<"set">> => HeurStage'
    BY <1>1, <1>3, <2>1 DEF Concludes, HeurStage
  <2>4. QED
    BY <1>5, <2>1, <2>2, <2>3
<1>8. CASE Unknown
  <2>1. verdict # "suspect" /\ cand' = None /\ Concludes("unknown", <<"set">>, "unknown", None)
    BY <1>8 DEF Unknown, Stays
  <2>2. <<"set">> \in Seq(Steps) /\ "unknown" \in States
    BY DEF Steps, States
  <2>3. todo'[Heur] = <<"set">> => HeurStage'
    BY <1>1, <1>3, <2>1 DEF Concludes, HeurStage
  <2>4. QED
    BY <1>5, <2>1, <2>2, <2>3
<1>9. CASE Suspect
  <2>1. verdict # "suspect" /\ cand' = None /\ line # None
        /\ Concludes("suspect", <<"set", "add", "key">>, "needs_input", line)
    BY <1>9 DEF Suspect, Stays, AtPrompt
  <2>2. <<"set", "add", "key">> \in Seq(Steps) /\ "needs_input" \in States
        /\ line \in Lines \cup {None}
    BY <1>0 DEF Steps, States, RestTypes
  <2>3. todo'[Heur] = <<"set", "add", "key">> /\ task'[Heur].key = line => HeurStage'
    BY <1>1, <1>3, <2>1 DEF Concludes, HeurStage
  <2>4. QED
    BY <1>5, <2>1, <2>2, <2>3
<1>10. CASE Suspected \/ Calm \/ Candidate \/ Patient \/ ~Watched
  <2>1. UNCHANGED <<todo, task, verdict, outSince>>
    BY <1>10 DEF Tick, Suspected, Calm, Candidate, Patient, Undecided, workVars, heurVars
  <2>2. \/ cand' = cand
        \/ cand' \in {None, 0} /\ (verdict # "suspect" \/ cand' = None)
    BY <1>10 DEF Tick, Suspected, Calm, Candidate, Patient, Stays, heurVars
  <2>3. QED
    BY <1>4, <2>1, <2>2
<1>11. QED
  BY <1>6, <1>7, <1>8, <1>9, <1>10 DEF Tick, Evaluate

-------------------------------------------------------------------------------
(* The sections of the goroutines *)

LEMMA OthersRun ==
    ASSUME IInv, NEW a \in Actors, Run(a), a # Heur
    PROVE  IInv'
<1>0. /\ SessTypes /\ HeurTypes /\ TimeTypes /\ KeyTypes /\ WorkTypes /\ RestTypes
      /\ OthersDo /\ GoalsKnown /\ HeurStage
  BY TypeParts DEF IInv
<1>1. todo[a] \in Seq(OtherSteps) /\ task[a] \in Tasks
  BY <1>0 DEF OthersDo, WorkTypes
<1>2. todo[a] # <<>> /\ Head(todo[a]) \in OtherSteps
  <2>1. todo[a] # <<>>
    BY DEF Run, Bind, Leave, Settle, SetState, Measure, KeyStep, Does, At
  <2>2. QED
    BY <1>1, <2>1
<1>3. ~KeyStep(a)
  BY <1>2 DEF KeyStep, Does, At, OtherSteps
<1>4. Goes(a, Tail(todo[a]), task[a])
  BY <1>3 DEF Run, Bind, Leave, Settle, SetState, Measure, Does
<1>5. WorkTypes' /\ todo'[a] = Tail(todo[a])
      /\ \A b \in Actors \ {a} : todo'[b] = todo[b] /\ task'[b] = task[b]
  BY <1>0, <1>1, <1>2, <1>4, GoesTyped
<1>6. OthersDo' /\ GoalsKnown'
  <2>1. Tail(todo[a]) \in Seq(OtherSteps)
    BY <1>1, <1>2
  <2>2. GoalsKnown'
    BY <1>0, <1>1, <1>2, <1>4, GoesOn
  <2>3. QED
    BY <1>0, <1>5, <2>1, <2>2 DEF OthersDo
<1>7. UNCHANGED <<cand, verdict, outSince, quiet, due, ptyKey, line, signals>>
      /\ pending' \subseteq pending
  BY <1>3 DEF Run, Bind, Leave, Settle, SetState, Measure, heurVars, timeVars, keyVars
<1>8. HeurStage'
  BY <1>0, <1>5, <1>7, HeurIsActor, StageStays
<1>9. HeurTypes' /\ KeyTypes' /\ RestTypes'
  <2>1. stray' = stray \/ stray' = Adding
    BY <1>3 DEF Run, Bind, Leave, Settle, SetState, Measure
  <2>2. Adding \in BOOLEAN
    BY DEF Adding
  <2>3. stray' \in BOOLEAN
    BY <1>0, <2>1, <2>2, Zenon DEF RestTypes
  <2>4. QED
    BY <1>0, <1>7, <2>3 DEF HeurTypes, KeyTypes, RestTypes
<1>10. SessTypes' /\ TimeTypes'
  <2>1. CASE SetState(a)
    <3>1. task[a].goal \in Records
      <4>1. Head(todo[a]) = "set"
        BY <2>1 DEF SetState, Does, At
      <4>2. todo[a] # <<"settle">>
        BY <4>1
      <4>3. QED
        BY <1>0, <1>2, <4>2 DEF GoalsKnown
    <3>2. UNCHANGED <<alive, left>> /\ heard' \in Ages
          /\ st' = (IF st.s = "exited" THEN st ELSE task[a].goal)
      BY <1>0, <2>1, AgesTyped DEF SetState, TimeTypes
    <3>3. QED
      BY <1>0, <1>1, <1>7, <3>1, <3>2, <2>1 DEF SessTypes, TimeTypes
  <2>2. CASE Bind(a) \/ Leave(a) \/ Settle(a) \/ Measure(a)
    BY <1>0, <1>7, <2>2, AgesTyped
       DEF Bind, Leave, Settle, Measure, sessVars, timeVars, SessTypes, TimeTypes
  <2>3. QED
    BY <1>3, <2>1, <2>2 DEF Run
<1>11. QED
  BY <1>5, <1>6, <1>8, <1>9, <1>10, TypePartsNext DEF IInv

LEMMA HeurRuns ==
    ASSUME IInv, Run(Heur)
    PROVE  IInv'
<1>0. /\ SessTypes /\ HeurTypes /\ TimeTypes /\ KeyTypes /\ WorkTypes /\ RestTypes
      /\ OthersDo /\ GoalsKnown /\ HeurStage
  BY TypeParts DEF IInv
<1> DEFINE T == task[Heur]
           K == [task[Heur] EXCEPT !.key = ptyKey]
<1>1. Heur \in Actors /\ todo[Heur] # <<>> /\ T \in Tasks
  BY <1>0, HeurIsActor
     DEF Run, Bind, Leave, Settle, SetState, Measure, KeyStep, Does, At, WorkTypes
<1>2. \/ Head(todo[Heur]) = "set" /\ SetState(Heur)
      \/ Head(todo[Heur]) \in {"add", "key", "take", "withdraw"} /\ KeyStep(Heur)
  <2>1. Head(todo[Heur]) \in {"set", "add", "key", "take", "withdraw"}
    BY <1>0, <1>1 DEF HeurStage
  <2>2. QED
    BY <2>1 DEF Run, Bind, Leave, Settle, SetState, Measure, KeyStep, Does, At
<1>3. K \in Tasks /\ K.goal = T.goal /\ K.key = ptyKey
  BY <1>0, <1>1 DEF Tasks, KeyTypes
<1>4. PICK t \in {T, K} :
        /\ Goes(Heur, Tail(todo[Heur]), t)
        /\ Head(todo[Heur]) # "take" => t = T
        /\ Head(todo[Heur]) = "take" => t.key = ptyKey
  BY <1>2, <1>3 DEF SetState, KeyStep, Does, At
<1>5. /\ WorkTypes' /\ todo'[Heur] = Tail(todo[Heur])
      /\ Tail(todo[Heur]) # <<>> => task'[Heur] = t
      /\ \A b \in Actors \ {Heur} : todo'[b] = todo[b] /\ task'[b] = task[b]
  BY <1>0, <1>1, <1>3, <1>4, GoesTyped
<1>6. OthersDo' /\ GoalsKnown'
  BY <1>0, <1>1, <1>3, <1>4, <1>5, OthersStay, GoesOn
<1>7. UNCHANGED <<cand, verdict, outSince, quiet, due, line, signals, stray>>
  BY <1>2 DEF SetState, KeyStep, heurVars, timeVars
<1>8. HeurTypes' /\ RestTypes'
  BY <1>0, <1>7 DEF HeurTypes, RestTypes
<1>9. SessTypes' /\ TimeTypes'
  <2>1. CASE SetState(Heur)
    <3>1. todo[Heur] # <<"settle">>
      BY <1>2, <2>1 DEF SetState, Does, At
    <3>2. T.goal \in Records
      BY <1>0, <1>1, <3>1 DEF GoalsKnown
    <3>3. UNCHANGED <<alive, left>> /\ heard' \in Ages
          /\ st' = (IF st.s = "exited" THEN st ELSE T.goal)
      BY <1>0, <2>1, AgesTyped DEF SetState, TimeTypes
    <3>4. QED
      BY <1>0, <1>7, <3>2, <3>3 DEF SessTypes, TimeTypes
  <2>2. CASE KeyStep(Heur)
    BY <1>0, <2>2 DEF KeyStep, sessVars, timeVars, SessTypes, TimeTypes
  <2>3. QED
    BY <1>2, <2>1, <2>2
<1>10. KeyTypes' /\ HeurStage'
  <2>1. CASE todo[Heur] = <<"set">>
    <3>1. pending' = pending /\ ptyKey' = ptyKey /\ Tail(todo[Heur]) = <<>>
      BY <1>2, <2>1 DEF SetState, keyVars
    <3>2. pending = {} /\ ptyKey = None /\ verdict # "suspect"
      BY <1>0, <2>1 DEF HeurStage
    <3>3. QED
      BY <1>0, <1>5, <1>7, <3>1, <3>2 DEF HeurStage, KeyTypes
  <2>2. CASE todo[Heur] = <<"take", "withdraw", "set">>
    <3>1. pending' = pending /\ ptyKey' = None /\ t.key = ptyKey
      BY <1>2, <1>4, <2>2 DEF KeyStep, Does, At
    <3>2. pending \subseteq {ptyKey} /\ verdict # "suspect"
      BY <1>0, <2>2 DEF HeurStage
    <3>3. Tail(todo[Heur]) = <<"withdraw", "set">>
      BY <2>2
    <3>4. QED
      BY <1>0, <1>5, <1>7, <3>1, <3>2, <3>3 DEF HeurStage, KeyTypes
  <2>3. CASE todo[Heur] = <<"withdraw", "set">>
    <3>1. pending' = pending \ {T.key} /\ ptyKey' = ptyKey
      BY <1>2, <2>3 DEF KeyStep, Does, At
    <3>2. pending \subseteq {T.key} /\ ptyKey = None /\ verdict # "suspect"
      BY <1>0, <2>3 DEF HeurStage
    <3>3. Tail(todo[Heur]) = <<"set">>
      BY <2>3
    <3>4. QED
      BY <1>0, <1>5, <1>7, <3>1, <3>2, <3>3 DEF HeurStage, KeyTypes
  <2>4. CASE todo[Heur] = <<"set", "add", "key">>
    <3>1. pending' = pending /\ ptyKey' = ptyKey /\ t = T
      BY <1>2, <1>4, <2>4 DEF SetState, keyVars
    <3>2. pending = {} /\ ptyKey = None /\ T.key # None /\ verdict = "suspect"
      BY <1>0, <2>4 DEF HeurStage
    <3>3. Tail(todo[Heur]) = <<"add", "key">>
      BY <2>4
    <3>4. QED
      BY <1>0, <1>5, <1>7, <3>1, <3>2, <3>3 DEF HeurStage, KeyTypes
  <2>5. CASE todo[Heur] = <<"add", "key">>
    <3>1. pending' = pending \cup {T.key} /\ ptyKey' = ptyKey /\ t = T
      BY <1>2, <1>4, <2>5 DEF KeyStep, Does, At
    <3>2. pending = {} /\ ptyKey = None /\ T.key # None /\ verdict = "suspect"
      BY <1>0, <2>5 DEF HeurStage
    <3>3. Tail(todo[Heur]) = <<"key">> /\ T.key \in Lines
      BY <1>1, <2>5, <3>2 DEF Tasks
    <3>4. QED
      BY <1>0, <1>5, <1>7, <3>1, <3>2, <3>3 DEF HeurStage, KeyTypes
  <2>6. CASE todo[Heur] = <<"key">>
    <3>1. pending' = pending /\ ptyKey' = T.key
      BY <1>2, <2>6 DEF KeyStep, Does, At
    <3>2. pending \subseteq {T.key} /\ T.key # None /\ verdict = "suspect"
      BY <1>0, <2>6 DEF HeurStage
    <3>3. Tail(todo[Heur]) = <<>> /\ T.key \in Lines
      BY <1>1, <2>6, <3>2 DEF Tasks
    <3>4. QED
      BY <1>0, <1>5, <1>7, <3>1, <3>2, <3>3 DEF HeurStage, KeyTypes
  <2>7. QED
    BY <1>0, <1>1, <2>1, <2>2, <2>3, <2>4, <2>5, <2>6 DEF HeurStage
<1>11. QED
  BY <1>5, <1>6, <1>8, <1>9, <1>10, TypePartsNext DEF IInv

-------------------------------------------------------------------------------
(* The end of the tool *)

Settling ==
    {<<"settle">>, <<"settle", "set">>, <<"bind", "settle", "set">>,
     <<"settle", "leave", "set">>, <<"bind", "settle", "leave", "set">>}
Rests == Settling \cup {<<>>, <<"set">>, <<"bind", "set">>, <<"leave", "set">>, <<"measure">>}
OthersAt == \A a \in Actors \ {Heur} : todo[a] \in Rests
Owes == \E a \in Actors \ {Heur} : todo[a] \in Settling
HookLeaves == \E a \in Actors \ {Heur} : At(a, "leave")
Exposed == (pending # {} \/ Adding) /\ (~Watched \/ HookLeaves)
EndInv == OthersAt /\ (Exposed => stray \/ Owes)

LEMMA RestsGoOn ==
    ASSUME NEW r \in Rests, r # <<>>
    PROVE  /\ Tail(r) \in Rests
           /\ r \in Settling /\ Head(r) # "settle" => Tail(r) \in Settling
           /\ Head(r) = "leave" => r \notin Settling
           /\ Head(r) # "settle" => Tail(r) = <<>> \/ Head(Tail(r)) # "leave"
<1>1. CASE r \in {<<"set">>, <<"measure">>, <<"settle">>}
  <2>1. /\ Tail(<<"set">>) = <<>>
        /\ Tail(<<"measure">>) = <<>>
        /\ Tail(<<"settle">>) = <<>>
    OBVIOUS
  <2>2. Tail(r) = <<>>
    BY <1>1, <2>1
  <2>3. QED
    BY <1>1, <2>2 DEF Rests, Settling
<1>2. CASE r \in {<<"bind", "set">>, <<"leave", "set">>, <<"settle", "set">>}
  <2>1. /\ Tail(<<"bind", "set">>) = <<"set">>
        /\ Tail(<<"leave", "set">>) = <<"set">>
        /\ Tail(<<"settle", "set">>) = <<"set">>
    OBVIOUS
  <2>2. Tail(r) = <<"set">>
    BY <1>2, <2>1
  <2>3. QED
    BY <1>2, <2>2 DEF Rests, Settling
<1>3. CASE r = <<"bind", "settle", "set">>
  <2>1. Tail(r) = <<"settle", "set">>
    BY <1>3
  <2>2. QED
    BY <1>3, <2>1 DEF Rests, Settling
<1>4. CASE r = <<"settle", "leave", "set">>
  <2>1. Tail(r) = <<"leave", "set">>
    BY <1>4
  <2>2. QED
    BY <1>4, <2>1 DEF Rests, Settling
<1>5. CASE r = <<"bind", "settle", "leave", "set">>
  <2>1. Tail(r) = <<"settle", "leave", "set">>
    BY <1>5
  <2>2. QED
    BY <1>5, <2>1 DEF Rests, Settling
<1>6. QED
  BY <1>1, <1>2, <1>3, <1>4, <1>5 DEF Rests, Settling

LEMMA PlansSettle == \A e \in Events : Plan(e) \in Rests /\ Head(Plan(e)) # "leave"
<1>1. ASSUME NEW e \in Events PROVE Plan(e) \in Rests /\ Head(Plan(e)) # "leave"
  <2>1. \/ Plan(e) = <<"bind", "set">>
        \/ Plan(e) = <<"bind", "settle", "set">>
        \/ Plan(e) = <<"bind", "settle", "leave", "set">>
        \/ Plan(e) = <<"measure">>
    BY Zenon DEF Plan, Events
  <2>2. QED
    BY <2>1 DEF Rests, Settling
<1>2. QED
  BY <1>1

(* A step that changes no goroutine but the heuristic's, and exposes nothing.  *)
LEMMA EndStays ==
    ASSUME EndInv, \A a \in Actors \ {Heur} : todo'[a] = todo[a],
           stray' = stray, Watched' = Watched,
           pending' # {} \/ Adding' => pending # {} \/ Adding
    PROVE  EndInv'
<1>1. OthersAt' /\ (Owes <=> Owes') /\ (HookLeaves <=> HookLeaves')
  BY DEF EndInv, OthersAt, Owes, HookLeaves, At
<1>2. QED
  BY <1>1 DEF EndInv, Exposed

LEMMA OutsideEnds ==
    ASSUME IInv, EndInv,
           \/ Pass \/ Exit \/ Respawn \/ RespawnFails
           \/ \E l \in Lines \cup {None} : Output(l)
           \/ \E k \in Lines : Decided(k)
    PROVE  EndInv'
<1>1. CASE Pass \/ (\E l \in Lines \cup {None} : Output(l)) \/ \E k \in Lines : Decided(k)
  <2>1. UNCHANGED <<todo, stray, alive, left>> /\ pending' \subseteq pending
    BY <1>1 DEF Pass, Output, Decided, sessVars, keyVars, workVars
  <2>2. QED
    BY <2>1, EndStays DEF Watched, Adding
<1>2. CASE Respawn \/ RespawnFails
  <2>1. UNCHANGED <<todo, pending>>
    BY <1>2 DEF Respawn, RespawnFails, Restarted, keyVars, workVars
  <2>2. OthersAt' /\ (Owes <=> Owes') /\ (HookLeaves <=> HookLeaves') /\ (Adding <=> Adding')
    BY <2>1 DEF EndInv, OthersAt, Owes, HookLeaves, At, Adding
  <2>3. CASE Respawn
    <3>1. Watched' /\ stray' = stray
      BY <2>3 DEF Respawn, Watched
    <3>2. QED
      BY <2>1, <2>2, <3>1 DEF EndInv, Exposed
  <2>4. CASE RespawnFails
    <3>1. pending # {} \/ Adding => stray'
      BY <2>4 DEF RespawnFails
    <3>2. QED
      BY <2>1, <2>2, <3>1 DEF EndInv, Exposed
  <2>5. QED
    BY <1>2, <2>3, <2>4
<1>3. CASE Exit
  <2>1. WorkTypes /\ Starts(Wait, <<"settle">>, None, None)
    BY <1>3, TypeParts DEF Exit, IInv
  <2>2. <<"settle">> \in Seq(Steps)
    BY DEF Steps
  <2>3. todo'[Wait] = <<"settle">> /\ \A b \in Actors \ {Wait} : todo'[b] = todo[b]
    BY <2>1, <2>2, HeurIsActor, StartsTyped
  <2>4. Owes' /\ OthersAt'
    BY <2>3, HeurIsActor DEF Owes, EndInv, OthersAt, Rests, Settling
  <2>5. QED
    BY <2>4 DEF EndInv
<1>4. QED
  BY <1>1, <1>2, <1>3

LEMMA HookEnds ==
    ASSUME IInv, EndInv, NEW h \in Hooks, NEW e \in Events, Hook(h, e)
    PROVE  EndInv'
<1>1. WorkTypes /\ Starts(h, Plan(e), [s |-> Wanted(e), by |-> "tool"], None)
      /\ UNCHANGED <<alive, left, pending, stray>>
  BY TypeParts DEF IInv, Hook, sessVars, keyVars
<1>2. Plan(e) \in Seq(Steps) /\ [s |-> Wanted(e), by |-> "tool"] \in Records
      /\ Plan(e) \in Rests /\ Head(Plan(e)) # "leave"
  BY PlansTyped, PlansSettle
<1>3. todo[h] = <<>> /\ todo'[h] = Plan(e) /\ \A b \in Actors \ {h} : todo'[b] = todo[b]
  BY <1>1, <1>2, HeurIsActor, StartsTyped
<1>4. h \in Actors /\ h # Heur
  BY HeurIsActor
<1>5. OthersAt' /\ (HookLeaves' => HookLeaves) /\ (Adding' <=> Adding)
  BY <1>2, <1>3, <1>4, HeurIsActor DEF EndInv, OthersAt, HookLeaves, At, Adding
<1>6. Owes => Owes'
  <2>1. <<>> \notin Settling
    BY DEF Settling
  <2>2. QED
    BY <1>3, <2>1 DEF Owes
<1>7. QED
  BY <1>1, <1>5, <1>6 DEF EndInv, Exposed, Watched

LEMMA TickEnds ==
    ASSUME IInv, EndInv, Tick
    PROVE  EndInv'
<1>1. WorkTypes /\ todo[Heur] = <<>> /\ UNCHANGED <<alive, left, pending>>
  BY TypeParts DEF IInv, Tick, sessVars, keyVars
<1>2. \A a \in Actors \ {Heur} : todo'[a] = todo[a]
  BY <1>1 DEF WorkTypes, Tick, Evaluate, Cleared, Resumed, Suspected, Calm, Candidate, Suspect,
              Unknown, Patient, Undecided, Concludes, Starts, workVars
<1>3. CASE ~(Watched /\ Suspect)
  <2>1. stray' = stray
    BY <1>3 DEF Tick, Evaluate
  <2>2. todo'[Heur] \in {<<>>, <<"take", "withdraw", "set">>, <<"set">>}
    BY <1>1, <1>3, HeurIsActor
       DEF WorkTypes, Tick, Evaluate, Cleared, Resumed, Suspected, Calm, Candidate, Unknown,
           Patient, Undecided, Concludes, Starts, workVars
  <2>3. ~Adding'
    BY <2>2 DEF Adding
  <2>4. QED
    BY <1>1, <1>2, <2>1, <2>3, EndStays DEF Watched
<1>4. CASE Watched /\ Suspect
  <2>1. stray' = Ending /\ Watched'
    BY <1>1, <1>4 DEF Suspect, Watched
  <2>2. OthersAt' /\ (HookLeaves' => Ending)
    BY <1>2 DEF EndInv, OthersAt, HookLeaves, Ending, At
  <2>3. QED
    BY <2>1, <2>2 DEF EndInv, Exposed
<1>5. QED
  BY <1>3, <1>4

LEMMA OthersEnd ==
    ASSUME IInv, EndInv, NEW a \in Actors, Run(a), a # Heur
    PROVE  EndInv'
<1>0. WorkTypes /\ todo[a] \in Rests /\ task[a] \in Tasks
  BY TypeParts DEF IInv, EndInv, OthersAt, WorkTypes
<1>1. todo[a] # <<>>
  BY DEF Run, Bind, Leave, Settle, SetState, Measure, KeyStep, Does, At
<1>2. Head(todo[a]) \in OtherSteps
  BY <1>1 DEF IInv, OthersDo
<1>3. ~KeyStep(a)
  BY <1>2 DEF KeyStep, Does, At, OtherSteps
<1>4. Goes(a, Tail(todo[a]), task[a])
  BY <1>3 DEF Run, Bind, Leave, Settle, SetState, Measure, Does
<1>5. todo'[a] = Tail(todo[a]) /\ \A b \in Actors \ {a} : todo'[b] = todo[b]
  BY <1>0, <1>1, <1>4, GoesTyped
<1>6. /\ Tail(todo[a]) \in Rests
      /\ todo[a] \in Settling /\ Head(todo[a]) # "settle" => Tail(todo[a]) \in Settling
      /\ Head(todo[a]) = "leave" => todo[a] \notin Settling
      /\ Head(todo[a]) # "settle" => Tail(todo[a]) = <<>> \/ Head(Tail(todo[a])) # "leave"
  BY <1>0, <1>1, RestsGoOn
<1>7. OthersAt' /\ (Adding' <=> Adding)
  BY <1>5, <1>6, HeurIsActor DEF EndInv, OthersAt, Adding
<1>8. CASE Settle(a)
  <2>1. stray' = Adding /\ pending' = {}
    BY <1>8 DEF Settle
  <2>2. QED
    BY <1>7, <2>1 DEF EndInv, Exposed
<1>9. CASE Head(todo[a]) # "settle"
  <2>1. Owes => Owes'
    BY <1>5, <1>6, <1>9 DEF Owes
  <2>2. HookLeaves' => HookLeaves
    <3>1. ~At(a, "leave")'
      BY <1>5, <1>6, <1>9 DEF At
    <3>2. QED
      BY <1>5, <3>1 DEF HookLeaves, At
  <2>3. ~Settle(a)
    BY <1>9 DEF Settle, Does, At
  <2>4. UNCHANGED <<pending, stray>>
    BY <1>3, <2>3 DEF Run, Bind, Leave, SetState, Measure, keyVars
  <2>5. ~Watched' => ~Watched \/ HookLeaves
    <3>1. CASE Leave(a)
      BY <1>0, <3>1 DEF Leave, Does, HookLeaves
    <3>2. CASE ~Leave(a)
      BY <1>3, <2>3, <3>2 DEF Run, Bind, SetState, Measure, sessVars, Watched
    <3>3. QED
      BY <3>1, <3>2
  <2>6. QED
    BY <1>7, <2>1, <2>2, <2>4, <2>5 DEF EndInv, Exposed
<1>10. QED
  BY <1>3, <1>8, <1>9 DEF Run, Bind, Leave, Settle, SetState, Measure, Does, At

LEMMA HeurEnds ==
    ASSUME IInv, EndInv, Run(Heur)
    PROVE  EndInv'
<1>0. WorkTypes /\ HeurStage
  BY TypeParts DEF IInv
<1>1. todo[Heur] # <<>> /\ Head(todo[Heur]) \in {"set", "add", "key", "take", "withdraw"}
  BY <1>0 DEF Run, Bind, Leave, Settle, SetState, Measure, KeyStep, Does, At, HeurStage
<1>2. SetState(Heur) \/ KeyStep(Heur)
  BY <1>1 DEF Run, Bind, Leave, Settle, Measure, Does, At
<1>3. todo'[Heur] = Tail(todo[Heur]) /\ \A b \in Actors \ {Heur} : todo'[b] = todo[b]
  BY <1>0, <1>2, HeurIsActor DEF SetState, KeyStep, Does, Goes, WorkTypes
<1>4. UNCHANGED <<alive, left, stray>>
  BY <1>2 DEF SetState, KeyStep, sessVars
<1>5. Adding' => Adding
  <2>1. CASE todo[Heur] = <<"take", "withdraw", "set">>
    <3>1. todo'[Heur] = <<"withdraw", "set">>
      BY <1>3, <2>1
    <3>2. QED
      BY <3>1 DEF Adding
  <2>2. CASE todo[Heur] = <<"withdraw", "set">>
    <3>1. todo'[Heur] = <<"set">>
      BY <1>3, <2>2
    <3>2. QED
      BY <3>1 DEF Adding
  <2>3. CASE todo[Heur] \in {<<"set">>, <<"key">>}
    <3>1. /\ Tail(<<"set">>) = <<>>
          /\ Tail(<<"key">>) = <<>>
      OBVIOUS
    <3>2. Tail(todo[Heur]) = <<>>
      BY <2>3, <3>1
    <3>3. todo'[Heur] = <<>>
      BY <1>3, <3>2
    <3>4. QED
      BY <3>3 DEF Adding
  <2>4. QED
    BY <1>0, <1>1, <2>1, <2>2, <2>3 DEF Adding, HeurStage
<1>6. pending' # {} => pending # {} \/ Adding
  <2>1. CASE todo[Heur] = <<"add", "key">>
    BY <2>1 DEF Adding
  <2>2. CASE todo[Heur] # <<"add", "key">>
    <3>1. Head(todo[Heur]) # "add"
      BY <1>0, <1>1, <2>2 DEF HeurStage
    <3>2. pending' \subseteq pending
      BY <1>2, <3>1 DEF SetState, KeyStep, Does, At, keyVars
    <3>3. QED
      BY <3>2
  <2>3. QED
    BY <2>1, <2>2
<1>7. QED
  BY <1>3, <1>4, <1>5, <1>6, EndStays DEF Watched

LEMMA InitEndInv == Init => EndInv
  BY HeurIsActor DEF Init, EndInv, OthersAt, Rests, Exposed, Adding

LEMMA NextEndInv == IInv /\ EndInv /\ [Next]_vars => EndInv'
<1> SUFFICES ASSUME IInv, EndInv, [Next]_vars PROVE EndInv'
  OBVIOUS
<1>1. CASE UNCHANGED vars
  <2>1. UNCHANGED <<todo, pending, stray, alive, left>>
    BY <1>1 DEF vars, sessVars, keyVars, workVars
  <2>2. QED
    BY <2>1, EndStays DEF Watched, Adding
<1>2. CASE Next
  BY <1>2, OutsideEnds, HookEnds, TickEnds, OthersEnd, HeurEnds DEF Next
<1>3. QED
  BY <1>1, <1>2

LEMMA SettledUnlessStray == EndInv => stray \/ Settled
<1> SUFFICES ASSUME EndInv, ~stray, pending # {}, ~Watched PROVE \E a \in Actors : SettleAhead(a)
  BY DEF Settled
<1>1. PICK a \in Actors \ {Heur} : todo[a] \in Settling
  BY DEF EndInv, Exposed, Owes
<1>2. \E i \in DOMAIN todo[a] : todo[a][i] = "settle"
  <2>1. CASE todo[a] \in {<<"settle">>, <<"settle", "set">>, <<"settle", "leave", "set">>}
    <3>1. 1 \in DOMAIN todo[a] /\ todo[a][1] = "settle"
      BY <2>1
    <3>2. QED
      BY <3>1
  <2>2. CASE todo[a] \in {<<"bind", "settle", "set">>, <<"bind", "settle", "leave", "set">>}
    <3>1. 2 \in DOMAIN todo[a] /\ todo[a][2] = "settle"
      BY <2>2
    <3>2. QED
      BY <3>1
  <2>3. QED
    BY <1>1, <2>1, <2>2 DEF Settling
<1>3. QED
  BY <1>2 DEF SettleAhead

-------------------------------------------------------------------------------
(* The theorems. *)

LEMMA InitIInv == Init => IInv
<1> SUFFICES ASSUME Init PROVE IInv
  OBVIOUS
<1>1. SessTypes
  BY DEF Init, Running, SessTypes, Records, States
<1>2. HeurTypes /\ TimeTypes /\ KeyTypes
  BY AgesTyped DEF Init, HeurTypes, TimeTypes, KeyTypes
<1>3. WorkTypes /\ OthersDo /\ GoalsKnown
  <2>1. NoTask \in Tasks /\ <<>> \in Seq(Steps) /\ <<>> \in Seq(OtherSteps)
    BY DEF NoTask, Tasks
  <2>2. QED
    BY <2>1 DEF Init, WorkTypes, OthersDo, GoalsKnown
<1>4. RestTypes
  <2>1. 0 \in 0..MaxSignals
    BY Numbers
  <2>2. QED
    BY <2>1, Zenon DEF Init, RestTypes
<1>5. HeurStage
  BY HeurIsActor DEF Init, HeurStage
<1>6. QED
  BY <1>1, <1>2, <1>3, <1>4, <1>5, TypeParts DEF IInv

LEMMA NextIInv == IInv /\ [Next]_vars => IInv'
<1> SUFFICES ASSUME IInv, [Next]_vars PROVE IInv'
  OBVIOUS
<1>1. ASSUME NEW a \in Actors, Run(a) PROVE IInv'
  BY <1>1, OthersRun, HeurRuns
<1>2. CASE \E h \in Hooks, e \in Events : Hook(h, e)
  BY <1>2, HookKeeps
<1>3. CASE Exit \/ Tick
  BY <1>3, ExitKeeps, TickKeeps
<1>4. CASE \/ Pass \/ Respawn \/ RespawnFails
           \/ \E l \in Lines \cup {None} : Output(l)
           \/ \E k \in Lines : Decided(k)
  BY <1>4, OutsideKeeps
<1>5. CASE UNCHANGED vars
  <2>1. UNCHANGED <<st, alive, left, cand, verdict, outSince, quiet, heard, due, ptyKey, pending,
                    todo, task, line, signals, stray>>
    BY <1>5 DEF vars, sessVars, heurVars, timeVars, keyVars, workVars
  <2>2. OthersDo' /\ GoalsKnown' /\ HeurStage'
    BY <2>1 DEF IInv, OthersDo, GoalsKnown, HeurStage
  <2>3. SessTypes' /\ HeurTypes' /\ TimeTypes' /\ KeyTypes' /\ WorkTypes' /\ RestTypes'
    BY <2>1, TypeParts
       DEF IInv, SessTypes, HeurTypes, TimeTypes, KeyTypes, WorkTypes, RestTypes
  <2>4. QED
    BY <2>2, <2>3, TypePartsNext DEF IInv
<1>6. QED
  BY <1>1, <1>2, <1>3, <1>4, <1>5 DEF Next

THEOREM Invariant == Spec => []IInv
  BY InitIInv, NextIInv, PTL DEF Spec

(* Every variable stays in its set; a suspect has no candidate behind it.      *)
THEOREM TypeCorrect == Spec => []TypeOK
<1>1. IInv => TypeOK
  BY DEF IInv
<1>2. QED
  BY <1>1, Invariant, PTL

(* runHeuristics forgets no approval of its own while its suspicion stands,    *)
(* and what is pending of it when the tool ends is closed by CloseSession, but  *)
(* for what Add brings after it or a failed kill_resume leaves.                *)
THEOREM SuspicionHeld == Spec => []SuspicionIsHeld
<1>1. Spec => []EndInv
  BY Invariant, InitEndInv, NextEndInv, PTL DEF Spec
<1>2. IInv /\ EndInv => SuspicionIsHeld
  BY SettledUnlessStray DEF IInv, HeurStage, SuspicionIsHeld
<1>3. QED
  BY <1>1, <1>2, Invariant, PTL
================================================================================
