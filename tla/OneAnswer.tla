------------------------------- MODULE OneAnswer -------------------------------
(***************************************************************************)
(* What the approval store promises about every permission request it       *)
(* registers: the request is open until it gets its one answer (or a later  *)
(* identical request takes its place), the first answer stands, and a tool  *)
(* call that waits for it is told allow or deny only if that was the answer.*)
(* Approvals.tla is shown to implement this.                                 *)
(***************************************************************************)
CONSTANT Requests

VARIABLES
    outcome,    \* what became of each request
    told        \* the answers tools were given for it

answerVars == <<outcome, told>>

Answers == {"allowed", "denied", "closed_local", "fallback", "dropped"}
Verdict == [a \in {"allowed", "denied"} |-> IF a = "allowed" THEN "allow" ELSE "deny"]

Init ==
    /\ outcome = [r \in Requests |-> "unused"]
    /\ told = [r \in Requests |-> {}]

(* r is registered; an open request it replaces is dropped. *)
Open(r) ==
    /\ outcome[r] = "unused"
    /\ \/ outcome' = [outcome EXCEPT ![r] = "pending"]
       \/ \E p \in Requests \ {r} :
            /\ outcome[p] = "pending"
            /\ outcome' = [outcome EXCEPT ![r] = "pending", ![p] = "dropped"]
    /\ UNCHANGED told

Answer(r) ==
    /\ outcome[r] = "pending"
    /\ \E a \in Answers \ {"dropped"} : outcome' = [outcome EXCEPT ![r] = a]
    /\ UNCHANGED told

Tell(r) ==
    /\ outcome[r] \in DOMAIN Verdict
    /\ told' = [told EXCEPT ![r] = @ \cup {Verdict[outcome[r]]}]
    /\ UNCHANGED outcome

Next == \E r \in Requests : Open(r) \/ Answer(r) \/ Tell(r)

Spec == Init /\ [][Next]_answerVars
================================================================================
