------------------------------- MODULE Approvals -------------------------------
(***************************************************************************)
(* The agent's approval store (internal/hooks/approvals.go) with everything *)
(* that works on it at the same time: the HTTP handlers of PermissionRequest *)
(* hooks, which register an approval and may block on it; the handlers of    *)
(* the local hooks that close approvals (PostToolUse, Stop, SessionEnd, the  *)
(* session's exit or close); and the decisions the relay forwards from a     *)
(* console.  The keys are those of one session.                              *)
(*                                                                          *)
(* Every Store method holds s.mu from start to end, so it is one step; what  *)
(* a handler does after the method returned (announce, wait, retract) is a   *)
(* step of its own.  A registered approval is named by the call that created *)
(* it, as the Go code tells approvals apart by their *pending object.        *)
(***************************************************************************)
EXTENDS Naturals, Sequences

CONSTANTS
    Keys,       \* approval keys (hash of session, tool and input)
    Calls,      \* PermissionRequest hook calls
    Closers,    \* goroutines that close approvals locally
    None,
    MaxDecides  \* bound on the decisions in flight for one key

ASSUME NoneAssumption == None \notin Calls
ASSUME MaxDecidesAssumption == MaxDecides \in Nat

VARIABLES
    live,       \* Store.items: the call whose Add made the item under a key
    status,     \* Approval.Status of the item each call made
    old,        \* whether that item is older than the 60 s dedupe window
    chan,       \* its decision channel, capacity 1
    pc,         \* where each hook handler is
    key,        \* the key its request hashes to
    level,      \* A (remote_first: the handler blocks) or B (notify)
    waits,      \* the item whose channel it blocks on
    verdict,    \* what it answered the tool
    todo,       \* keys a closer still has to close
    closed,     \* keys it closed and still has to announce as closed
    shown,      \* what the console shows for a key: no, or the pending level
    inflight    \* decisions forwarded by the relay, not yet handled

storeVars == <<live, status, old, chan>>
callVars == <<pc, key, level, waits, verdict>>
vars == <<live, status, old, chan, pc, key, level, waits, verdict,
          todo, closed, shown, inflight>>

Levels == {"A", "B"}
Settled == {"allowed", "denied", "closed_local", "fallback"}
Statuses == {"unused", "pending", "dropped"} \cup Settled
Tokens == {"allow", "deny", "none"}         \* what a Decision carries

Init ==
    /\ live = [k \in Keys |-> None]
    /\ status = [c \in Calls |-> "unused"]
    /\ old = [c \in Calls |-> FALSE]
    /\ chan = [c \in Calls |-> "empty"]
    /\ pc = [c \in Calls |-> "idle"]
    /\ key \in [Calls -> Keys]
    /\ level \in [Calls -> Levels]
    /\ waits = [c \in Calls |-> None]
    /\ verdict = [c \in Calls |-> "none"]
    /\ todo = [x \in Closers |-> {}]
    /\ closed = [x \in Closers |-> {}]
    /\ shown = [k \in Keys |-> "no"]
    /\ inflight = [k \in Keys |-> <<>>]

Pending(k) == live[k] # None /\ status[live[k]] = "pending"

-------------------------------------------------------------------------------
(* Store.Decide and Store.Close once the item was found pending: the status *)
(* is final and the blocked handler is woken by a non-blocking send.        *)
Settle_StaysPending(k, s, token) ==     \* mutant: woken, but not marked
    LET p == live[k] IN
    /\ chan' = [chan EXCEPT ![p] = IF level[p] = "A" /\ @ = "empty" THEN token ELSE @]
    /\ UNCHANGED <<live, status, old>>

Settle(k, s, token) ==
    LET p == live[k] IN
    /\ status' = [status EXCEPT ![p] = s]
    /\ chan' = [chan EXCEPT ![p] = IF level[p] = "A" /\ @ = "empty" THEN token ELSE @]
    /\ UNCHANGED <<live, old>>

(* Store.Add: an identical item that is pending and young is joined (dup),  *)
(* anything else the key held is replaced.                                   *)
Joins(c) == Pending(key[c]) /\ ~old[live[key[c]]]

Add(c) ==
    IF Joins(c) THEN UNCHANGED storeVars
    ELSE /\ live' = [live EXCEPT ![key[c]] = c]
         /\ status' = [d \in Calls |->
                         IF d = c THEN "pending"
                         ELSE IF d = live[key[c]] /\ status[d] = "pending" THEN "dropped"
                         ELSE status[d]]
         /\ UNCHANGED <<old, chan>>

(* permissionRequest: a hook call comes in; only what is new is announced. *)
Request(c) ==
    /\ pc[c] = "idle"
    /\ Add(c)
    /\ pc' = [pc EXCEPT ![c] = IF ~Joins(c) THEN "announce"
                               ELSE IF level[c] = "A" THEN "listen" ELSE "done"]
    /\ UNCHANGED <<key, level, waits, verdict, todo, closed, shown, inflight>>

(* ApprovalNew reaches the console; in notify mode the handler then returns *)
(* no decision, so that the local dialog appears.                           *)
Announce(c) ==
    /\ pc[c] = "announce"
    /\ shown' = [shown EXCEPT ![key[c]] = level[c]]
    /\ pc' = [pc EXCEPT ![c] = IF level[c] = "A" THEN "listen" ELSE "done"]
    /\ UNCHANGED <<live, status, old, chan, key, level, waits, verdict,
                   todo, closed, inflight>>

(* Store.wait: the channel of whatever item the key holds by now. *)
Listen(c) ==
    LET p == live[key[c]] IN
    /\ pc[c] = "listen"
    /\ IF p = None \/ level[p] = "B"
         THEN /\ pc' = [pc EXCEPT ![c] = "done"]
              /\ UNCHANGED waits
         ELSE /\ pc' = [pc EXCEPT ![c] = "blocked"]
              /\ waits' = [waits EXCEPT ![c] = p]
    /\ UNCHANGED <<live, status, old, chan, key, level, verdict,
                   todo, closed, shown, inflight>>

(* case d := <-ch: the tool is told the decision, or none. *)
Wake(c) ==
    /\ pc[c] = "blocked"
    /\ chan[waits[c]] # "empty"
    /\ verdict' = [verdict EXCEPT ![c] = chan[waits[c]]]
    /\ chan' = [chan EXCEPT ![waits[c]] = "empty"]
    /\ pc' = [pc EXCEPT ![c] = "done"]
    /\ UNCHANGED <<live, status, old, key, level, waits, todo, closed, shown, inflight>>

(* case <-time.After(timeout) and case <-r.Context().Done(): fall back to   *)
(* the local dialog, closing whatever the key holds if it is still pending. *)
(* select may take these cases even when a decision is already in ch.       *)
GiveUp_Silently(c) ==                   \* mutant: the approval stays pending
    /\ pc[c] = "blocked"
    /\ pc' = [pc EXCEPT ![c] = "done"]
    /\ UNCHANGED <<live, status, old, chan, key, level, waits, verdict,
                   todo, closed, shown, inflight>>

GiveUp(c) ==
    /\ pc[c] = "blocked"
    /\ IF Pending(key[c])
         THEN /\ Settle(key[c], "fallback", "none")
              /\ pc' = [pc EXCEPT ![c] = "retract"]
         ELSE /\ pc' = [pc EXCEPT ![c] = "done"]
              /\ UNCHANGED storeVars
    /\ UNCHANGED <<key, level, waits, verdict, todo, closed, shown, inflight>>

(* ... and ApprovalClosed for it. *)
Retract(c) ==
    /\ pc[c] = "retract"
    /\ shown' = [shown EXCEPT ![key[c]] = "no"]
    /\ pc' = [pc EXCEPT ![c] = "done"]
    /\ UNCHANGED <<live, status, old, chan, key, level, waits, verdict,
                   todo, closed, inflight>>

-------------------------------------------------------------------------------
(* PostToolUse closes the key of the call that ran, whoever answered it. *)
PostToolUse(x, k) ==
    /\ todo[x] = {} /\ closed[x] = {}
    /\ todo' = [todo EXCEPT ![x] = {k}]
    /\ UNCHANGED <<live, status, old, chan, pc, key, level, waits, verdict,
                   closed, shown, inflight>>

(* Stop, SessionEnd, exit and close: CloseSession first lists what is       *)
(* pending, then closes it key by key, then announces what it closed.       *)
CloseSession(x) ==
    /\ todo[x] = {} /\ closed[x] = {}
    /\ \E k \in Keys : Pending(k)
    /\ todo' = [todo EXCEPT ![x] = {k \in Keys : Pending(k)}]
    /\ UNCHANGED <<live, status, old, chan, pc, key, level, waits, verdict,
                   closed, shown, inflight>>

(* Store.Close: only a pending item is closed. *)
CloseOne_Any(x, k) ==                   \* mutant: a settled item is closed too
    /\ k \in todo[x]
    /\ todo' = [todo EXCEPT ![x] = @ \ {k}]
    /\ IF live[k] # None
         THEN /\ Settle(k, "closed_local", "none")
              /\ closed' = [closed EXCEPT ![x] = @ \cup {k}]
         ELSE UNCHANGED <<storeVars, closed>>
    /\ UNCHANGED <<pc, key, level, waits, verdict, shown, inflight>>

CloseOne_NoWake(x, k) ==                \* mutant: the blocked handler is not woken
    /\ k \in todo[x]
    /\ todo' = [todo EXCEPT ![x] = @ \ {k}]
    /\ IF Pending(k)
         THEN /\ status' = [status EXCEPT ![live[k]] = "closed_local"]
              /\ closed' = [closed EXCEPT ![x] = @ \cup {k}]
         ELSE UNCHANGED <<status, closed>>
    /\ UNCHANGED <<live, old, chan, pc, key, level, waits, verdict, shown, inflight>>

CloseOne(x, k) ==
    /\ k \in todo[x]
    /\ todo' = [todo EXCEPT ![x] = @ \ {k}]
    /\ IF Pending(k)
         THEN /\ Settle(k, "closed_local", "none")
              /\ closed' = [closed EXCEPT ![x] = @ \cup {k}]
         ELSE UNCHANGED <<storeVars, closed>>
    /\ UNCHANGED <<pc, key, level, waits, verdict, shown, inflight>>

AnnounceClosed(x, k) ==
    /\ todo[x] = {}
    /\ k \in closed[x]
    /\ closed' = [closed EXCEPT ![x] = @ \ {k}]
    /\ shown' = [shown EXCEPT ![k] = "no"]
    /\ UNCHANGED <<live, status, old, chan, pc, key, level, waits, verdict,
                   todo, inflight>>

-------------------------------------------------------------------------------
(* The relay accepts a decision for a level-A approval it shows as pending, *)
(* takes the card down at once and forwards the decision.                   *)
ConsoleDecide(k, d) ==
    /\ shown[k] = "A"
    /\ Len(inflight[k]) < MaxDecides
    /\ shown' = [shown EXCEPT ![k] = "no"]
    /\ inflight' = [inflight EXCEPT ![k] = Append(@, d)]
    /\ UNCHANGED <<live, status, old, chan, pc, key, level, waits, verdict, todo, closed>>

(* approval.decide arrives: Store.Decide, ignored unless the key is pending. *)
Decide_Any(k) ==                        \* mutant: a settled approval is decided again
    /\ inflight[k] # <<>>
    /\ inflight' = [inflight EXCEPT ![k] = Tail(@)]
    /\ IF live[k] # None
         THEN IF Head(inflight[k]) = "allow" THEN Settle(k, "allowed", "allow")
                                             ELSE Settle(k, "denied", "deny")
         ELSE UNCHANGED storeVars
    /\ UNCHANGED <<pc, key, level, waits, verdict, todo, closed, shown>>

Decide(k) ==
    /\ inflight[k] # <<>>
    /\ inflight' = [inflight EXCEPT ![k] = Tail(@)]
    /\ IF Pending(k)
         THEN IF Head(inflight[k]) = "allow" THEN Settle(k, "allowed", "allow")
                                             ELSE Settle(k, "denied", "deny")
         ELSE UNCHANGED storeVars
    /\ UNCHANGED <<pc, key, level, waits, verdict, todo, closed, shown>>

(* The clock: an item passes its first 60 s; Sweep drops one settled long ago. *)
Age(k) ==
    /\ Pending(k) /\ ~old[live[k]]
    /\ old' = [old EXCEPT ![live[k]] = TRUE]
    /\ UNCHANGED <<live, status, chan, pc, key, level, waits, verdict,
                   todo, closed, shown, inflight>>

Sweep(k) ==
    /\ live[k] # None /\ ~Pending(k)
    /\ live' = [live EXCEPT ![k] = None]
    /\ UNCHANGED <<status, old, chan, pc, key, level, waits, verdict,
                   todo, closed, shown, inflight>>

-------------------------------------------------------------------------------
Handler(c) == Request(c) \/ Announce(c) \/ Listen(c) \/ Wake(c) \/ GiveUp(c) \/ Retract(c)

Closer(x) ==
    \/ CloseSession(x)
    \/ \E k \in Keys : PostToolUse(x, k) \/ CloseOne(x, k) \/ AnnounceClosed(x, k)

Remote(k) == Decide(k) \/ \E d \in {"allow", "deny"} : ConsoleDecide(k, d)

Clock(k) == Age(k) \/ Sweep(k)

Next ==
    \/ \E c \in Calls : Handler(c)
    \/ \E x \in Closers : Closer(x)
    \/ \E k \in Keys : Remote(k) \/ Clock(k)

(* A started handler is a running goroutine: each of its steps is eventually *)
(* taken, and a blocked one's timer fires (GiveUp) unless it is woken first. *)
(* Hooks, consoles and the clock owe nothing.                                *)
Fairness ==
    \A c \in Calls :
        /\ WF_vars(Announce(c)) /\ WF_vars(Listen(c))
        /\ WF_vars(GiveUp(c)) /\ WF_vars(Retract(c))

Spec == Init /\ [][Next]_vars
FairSpec == Spec /\ Fairness

-------------------------------------------------------------------------------
TypeOK ==
    /\ live \in [Keys -> Calls \cup {None}]
    /\ status \in [Calls -> Statuses]
    /\ old \in [Calls -> BOOLEAN]
    /\ chan \in [Calls -> {"empty"} \cup Tokens]
    /\ pc \in [Calls -> {"idle", "announce", "listen", "blocked", "retract", "done"}]
    /\ key \in [Calls -> Keys]
    /\ level \in [Calls -> Levels]
    /\ waits \in [Calls -> Calls \cup {None}]
    /\ verdict \in [Calls -> Tokens]
    /\ todo \in [Closers -> SUBSET Keys]
    /\ closed \in [Closers -> SUBSET Keys]
    /\ shown \in [Keys -> {"no"} \cup Levels]
    /\ inflight \in [Keys -> Seq({"allow", "deny"})]

Attends(c, p) == pc[c] \in {"announce", "listen"} \/ (pc[c] = "blocked" /\ waits[c] = p)

(* A level-A approval that is still pending always has the hook handler     *)
(* that registered it alive and on its way to, or blocked on, its channel:   *)
(* no timeout, duplicate, replacement or local close leaves an approval on   *)
(* the console that nobody would hear the answer of and no timer would ever  *)
(* take down.                                                               *)
PendingIsAttended ==
    \A k \in Keys : Pending(k) /\ level[live[k]] = "A" => Attends(live[k], live[k])

(* A tool is told allow (deny) only if a console allowed (denied) the very  *)
(* request it waited for: a local close, a fallback, a replacement or an     *)
(* answer to a later request with the same key never turns into a verdict.   *)
VerdictIsDecision ==
    \A c \in Calls : verdict[c] # "none" =>
        /\ waits[c] # None
        /\ status[waits[c]] = IF verdict[c] = "allow" THEN "allowed" ELSE "denied"

(* The only handler that waits for an approval is never left behind once it *)
(* is settled: the wake-up stays in the channel until that handler takes it. *)
SoleWaiterIsWoken ==
    \A c \in Calls :
        /\ pc[c] = "blocked"
        /\ status[waits[c]] \in Settled
        /\ \A d \in Calls \ {c} : waits[d] # waits[c]
        => chan[waits[c]] # "empty"

(* A level-A approval does not stay pending for ever, whatever the consoles, *)
(* the tool and the other hooks do: its own handler's timer ends it.          *)
PendingIsSettled ==
    \A c \in Calls : status[c] = "pending" /\ level[c] = "A" ~> status[c] # "pending"

(* What the tools whose handlers waited for each item were told. *)
Told == [p \in Calls |->
            {verdict[c] : c \in {d \in Calls : waits[d] = p /\ verdict[d] # "none"}}]

Ledger == INSTANCE OneAnswer WITH Requests <- Calls, outcome <- status, told <- Told

(* The store and all its handlers implement "the first answer stands, and   *)
(* only it is told".                                                        *)
FirstAnswerStands == Ledger!Spec

-------------------------------------------------------------------------------
(* What the code's comments promise and the code does not keep. *)

Quiet(k) ==
    /\ inflight[k] = <<>>
    /\ \A x \in Closers : k \notin todo[x] \cup closed[x]
    /\ \A c \in Calls : key[c] = k => pc[c] \notin {"announce", "retract"}

(* With no announcement about a key under way, the console shows a card for *)
(* it only if the approval is still pending ("so the console does not keep   *)
(* showing a phantom approval", hooks/server.go).                            *)
NoPhantom == \A k \in Keys : Quiet(k) /\ shown[k] # "no" => Pending(k)

(* Every handler blocked on a settled approval has its wake-up waiting ("the *)
(* handler is woken", Store.Decide and Store.Close).                          *)
EveryWaiterIsWoken ==
    \A c \in Calls :
        pc[c] = "blocked" /\ status[waits[c]] \in Settled => chan[waits[c]] # "empty"
===============================================================================
