---------------------------- MODULE ApprovalsProofs ----------------------------
(***************************************************************************)
(* For any number of calls, keys, closers and forwarded decisions: the       *)
(* approval store's safety properties, and that it implements OneAnswer.     *)
(*                                                                          *)
(* The argument: only the item a key currently holds is ever settled, and    *)
(* only while it is pending, so its channel is written once, with the token  *)
(* of its final status (Tokens agree), and emptied only by a handler that    *)
(* is done afterwards (TokenTaken).  A call registers at most one item, the  *)
(* one named after it (LiveIsOwn, IdleIsUnused), so the handler of a pending *)
(* item cannot have left without settling it.                                *)
(***************************************************************************)
EXTENDS Approvals, TLAPS

(* A key holds only items made for it, that were registered and not replaced. *)
LiveIsOwn ==
    \A k \in Keys : live[k] # None =>
        key[live[k]] = k /\ status[live[k]] \in {"pending"} \cup Settled

(* A call that has not begun has registered nothing. *)
IdleIsUnused == \A c \in Calls : pc[c] = "idle" => status[c] = "unused"

(* Only level-A items are waited for; a blocked handler waits for one. *)
WaitsAreHooks ==
    \A c \in Calls :
        /\ pc[c] = "blocked" => waits[c] # None
        /\ waits[c] # None => level[waits[c]] = "A"
        /\ pc[c] # "done" => verdict[c] = "none"

(* A channel holds a token only once its item is settled, and it agrees. *)
TokensAgree ==
    \A p \in Calls :
        /\ chan[p] # "empty" => status[p] \in Settled
        /\ chan[p] = "allow" => status[p] = "allowed"
        /\ chan[p] = "deny" => status[p] = "denied"

(* The token of a settled item is in its channel or was taken. *)
TokenTaken ==
    \A p \in Calls : status[p] \in Settled /\ level[p] = "A" /\ chan[p] = "empty" =>
        \E d \in Calls : pc[d] = "done" /\ waits[d] = p

IInv ==
    /\ TypeOK
    /\ LiveIsOwn
    /\ IdleIsUnused
    /\ WaitsAreHooks
    /\ TokensAgree
    /\ TokenTaken
    /\ PendingIsAttended
    /\ VerdictIsDecision

-------------------------------------------------------------------------------
LEMMA InitIInv == Init => IInv
<1> SUFFICES ASSUME Init PROVE IInv
  OBVIOUS
<1>1. TypeOK
  BY DEF Init, TypeOK, Tokens, Statuses
<1>2. LiveIsOwn /\ IdleIsUnused /\ WaitsAreHooks /\ TokensAgree
  BY DEF Init, LiveIsOwn, IdleIsUnused, WaitsAreHooks, TokensAgree
<1>3. TokenTaken /\ PendingIsAttended /\ VerdictIsDecision
  BY DEF Init, TokenTaken, PendingIsAttended, VerdictIsDecision, Pending, Settled
<1>4. QED
  BY <1>1, <1>2, <1>3 DEF IInv

(* A step that touches neither the items nor the handlers. *)
LEMMA ElsewhereIInv ==
    ASSUME IInv, TypeOK', UNCHANGED <<live, status, chan, pc, key, level, waits, verdict>>
    PROVE  IInv'
<1>1. (LiveIsOwn /\ IdleIsUnused /\ WaitsAreHooks /\ TokensAgree)'
  BY DEF IInv, LiveIsOwn, IdleIsUnused, WaitsAreHooks, TokensAgree
<1>2. (TokenTaken /\ PendingIsAttended /\ VerdictIsDecision)'
  BY DEF IInv, TokenTaken, PendingIsAttended, VerdictIsDecision, Pending, Attends
<1>3. QED
  BY <1>1, <1>2 DEF IInv

(* Whoever settles the pending item of a key, and whichever blocked handlers *)
(* of that key move on to retract it.                                       *)
LEMMA SettleIInv ==
    ASSUME IInv, TypeOK',
           NEW k \in Keys, Pending(k),
           NEW s \in Settled, NEW token \in Tokens,
           token = "allow" => s = "allowed", token = "deny" => s = "denied",
           Settle(k, s, token),
           UNCHANGED <<key, level, waits, verdict>>,
           \A c \in Calls : \/ pc'[c] = pc[c]
                            \/ key[c] = k /\ pc[c] = "blocked" /\ pc'[c] = "retract"
    PROVE  IInv'
<1> DEFINE p == live[k]
<1>1. /\ p \in Calls /\ status[p] = "pending" /\ chan[p] = "empty" /\ key[p] = k
  <2>1. p \in Calls /\ status[p] = "pending"
    BY NoneAssumption DEF IInv, TypeOK, Pending
  <2>2. key[p] = k
    BY DEF IInv, LiveIsOwn, Pending
  <2>3. chan[p] = "empty"
    BY <2>1 DEF IInv, TokensAgree, Settled
  <2>4. QED
    BY <2>1, <2>2, <2>3
<1>2. /\ live' = live
      /\ status' = [status EXCEPT ![p] = s]
      /\ chan' = [chan EXCEPT ![p] = IF level[p] = "A" THEN token ELSE "empty"]
  BY <1>1 DEF Settle, IInv, TypeOK
<1>3. /\ status'[p] = s /\ \A q \in Calls \ {p} : status'[q] = status[q]
      /\ chan'[p] = IF level[p] = "A" THEN token ELSE "empty"
      /\ \A q \in Calls \ {p} : chan'[q] = chan[q]
  BY <1>1, <1>2 DEF IInv, TypeOK
<1>4. s # "pending" /\ s # "unused" /\ token # "empty"
  BY DEF Settled, Tokens
<1> HIDE DEF p
<1>5. LiveIsOwn'
  BY <1>1, <1>2, <1>3 DEF IInv, TypeOK, LiveIsOwn
<1>6. IdleIsUnused'
  <2> SUFFICES ASSUME NEW c \in Calls, pc'[c] = "idle" PROVE status'[c] = "unused"
    BY DEF IdleIsUnused
  <2>1. pc[c] = "idle"
    OBVIOUS
  <2>2. status[c] = "unused" /\ c # p
    BY <1>1, <2>1 DEF IInv, IdleIsUnused
  <2>3. QED
    BY <1>3, <2>2
<1>7. WaitsAreHooks'
  BY DEF IInv, TypeOK, WaitsAreHooks
<1>8. TokensAgree'
  <2> SUFFICES ASSUME NEW q \in Calls
               PROVE  /\ chan'[q] # "empty" => status'[q] \in Settled
                      /\ chan'[q] = "allow" => status'[q] = "allowed"
                      /\ chan'[q] = "deny" => status'[q] = "denied"
    BY DEF TokensAgree
  <2>1. CASE q = p
    BY <1>3, <2>1
  <2>2. CASE q # p
    BY <1>3, <2>2 DEF IInv, TokensAgree
  <2>3. QED
    BY <2>1, <2>2
<1>9. TokenTaken'
  <2> SUFFICES ASSUME NEW q \in Calls, status'[q] \in Settled,
                      level[q] = "A", chan'[q] = "empty"
               PROVE  \E d \in Calls : pc'[d] = "done" /\ waits[d] = q
    BY DEF TokenTaken
  <2>1. q # p
    BY <1>3, <1>4
  <2>2. PICK d \in Calls : pc[d] = "done" /\ waits[d] = q
    BY <1>3, <2>1 DEF IInv, TokenTaken
  <2>3. pc'[d] = "done"
    BY <2>2
  <2>4. QED
    BY <2>2, <2>3
<1>10. PendingIsAttended'
  <2> SUFFICES ASSUME NEW j \in Keys, Pending(j)', level'[live'[j]] = "A"
               PROVE  Attends(live[j], live[j])'
    BY <1>2 DEF PendingIsAttended
  <2>1. live[j] \in Calls /\ live[j] # p
    BY <1>2, <1>3, <1>4, NoneAssumption DEF Pending, IInv, TypeOK
  <2>2. Pending(j) /\ level[live[j]] = "A" /\ key[live[j]] = j /\ j # k
    BY <1>2, <1>3, <2>1 DEF Pending, IInv, TypeOK, LiveIsOwn, p
  <2>3. Attends(live[j], live[j]) /\ pc'[live[j]] = pc[live[j]]
    BY <2>1, <2>2 DEF IInv, PendingIsAttended
  <2>4. QED
    BY <1>2, <2>3 DEF Attends
<1>11. VerdictIsDecision'
  BY <1>1, <1>3 DEF IInv, TypeOK, VerdictIsDecision
<1>12. QED
  BY <1>5, <1>6, <1>7, <1>8, <1>9, <1>10, <1>11 DEF IInv

(* A hook that joins the pending item or registers one of its own. *)
LEMMA RequestIInv ==
    ASSUME IInv, NEW c \in Calls, Request(c)
    PROVE  IInv'
<1> DEFINE k == key[c]
<1>0. /\ pc[c] = "idle" /\ status[c] = "unused" /\ verdict[c] = "none" /\ k \in Keys
      /\ \A j \in Keys : live[j] # c
      /\ UNCHANGED <<key, level, waits, verdict, old, chan>>
  <2>1. pc[c] = "idle" /\ k \in Keys /\ UNCHANGED <<key, level, waits, verdict, old, chan>>
    BY DEF Request, Add, IInv, TypeOK, storeVars
  <2>2. status[c] = "unused" /\ verdict[c] = "none"
    BY <2>1 DEF IInv, IdleIsUnused, WaitsAreHooks
  <2>3. \A j \in Keys : live[j] # c
    BY <2>2, NoneAssumption DEF IInv, LiveIsOwn, Settled
  <2>4. QED
    BY <2>1, <2>2, <2>3
<1>1. CASE Joins(c)
  <2>1. /\ pc' = [pc EXCEPT ![c] = IF level[c] = "A" THEN "listen" ELSE "done"]
        /\ UNCHANGED <<live, status, old, chan>>
    BY <1>1 DEF Request, Add, storeVars
  <2>2. TypeOK'
    BY <2>1 DEF Request, IInv, TypeOK
  <2>3. (LiveIsOwn /\ IdleIsUnused /\ WaitsAreHooks /\ TokensAgree)'
    BY <1>0, <2>1 DEF IInv, TypeOK, LiveIsOwn, IdleIsUnused, WaitsAreHooks, TokensAgree
  <2>4. (TokenTaken /\ VerdictIsDecision)'
    BY <1>0, <2>1 DEF IInv, TypeOK, TokenTaken, VerdictIsDecision
  <2>5. PendingIsAttended'
    BY <1>0, <2>1 DEF IInv, TypeOK, PendingIsAttended, Pending, Attends
  <2>6. QED
    BY <2>2, <2>3, <2>4, <2>5 DEF IInv
<1>2. CASE ~Joins(c)
  <2>1. /\ pc' = [pc EXCEPT ![c] = "announce"]
        /\ status' = [d \in Calls |->
                         IF d = c THEN "pending"
                         ELSE IF d = live[k] /\ status[d] = "pending" THEN "dropped"
                         ELSE status[d]]
        /\ live' = [live EXCEPT ![k] = c]
    BY <1>2 DEF Request, Add
  <2>2. TypeOK'
    BY <1>0, <2>1 DEF Request, IInv, TypeOK, Statuses
  <2>3. /\ status'[c] = "pending"
        /\ \A d \in Calls \ {c} : \/ status'[d] = status[d]
                                  \/ d = live[k] /\ status[d] = "pending" /\ status'[d] = "dropped"
    <3>1. \A d \in Calls : status'[d] = IF d = c THEN "pending"
                                        ELSE IF d = live[k] /\ status[d] = "pending"
                                               THEN "dropped" ELSE status[d]
      BY <2>1
    <3> HIDE DEF k
    <3>2. status'[c] = "pending"
      BY <3>1
    <3>3. ASSUME NEW d \in Calls \ {c}
          PROVE  \/ status'[d] = status[d]
                 \/ d = live[k] /\ status[d] = "pending" /\ status'[d] = "dropped"
      <4>1. status'[d] = IF d = live[k] /\ status[d] = "pending" THEN "dropped" ELSE status[d]
        BY <3>1
      <4>2. QED
        BY <4>1
    <3>4. QED
      BY <3>2, <3>3
  <2>4. LiveIsOwn'
    <3> SUFFICES ASSUME NEW j \in Keys, live'[j] # None
                 PROVE  key[live'[j]] = j /\ status'[live'[j]] \in {"pending"} \cup Settled
      BY <1>0 DEF LiveIsOwn
    <3>1. CASE j = k
      BY <1>0, <2>1, <2>3, <3>1 DEF IInv, TypeOK
    <3>2. CASE j # k
      <4>1. live'[j] = live[j] /\ live[j] \in Calls \ {c} /\ key[live[j]] = j
            /\ status[live[j]] \in {"pending"} \cup Settled
        BY <1>0, <2>1, <3>2 DEF IInv, TypeOK, LiveIsOwn
      <4>2. live[j] # live[k]
        BY <1>0, <4>1, <3>2 DEF IInv, TypeOK, LiveIsOwn
      <4>3. QED
        BY <2>3, <4>1, <4>2
    <3>3. QED
      BY <3>1, <3>2
  <2>5. IdleIsUnused'
    BY <1>0, <2>1, <2>3 DEF IInv, TypeOK, IdleIsUnused
  <2>6. WaitsAreHooks'
    BY <1>0, <2>1 DEF IInv, TypeOK, WaitsAreHooks
  <2>7. TokensAgree'
    BY <1>0, <2>3 DEF IInv, TypeOK, TokensAgree, Settled
  <2>8. TokenTaken'
    BY <1>0, <2>1, <2>3 DEF IInv, TypeOK, TokenTaken, Settled
  <2>9. PendingIsAttended'
    <3> SUFFICES ASSUME NEW j \in Keys, Pending(j)', level[live'[j]] = "A"
                 PROVE  Attends(live[j], live[j])'
      BY <1>0 DEF PendingIsAttended
    <3>1. CASE j = k
      BY <1>0, <2>1, <3>1 DEF Attends, IInv, TypeOK
    <3>2. CASE j # k
      <4>1. live'[j] = live[j] /\ live[j] \in Calls \ {c}
        BY <1>0, <2>1, <3>2 DEF IInv, TypeOK, Pending
      <4>2. status[live[j]] = "pending" /\ Pending(j)
        BY <2>3, <4>1 DEF Pending
      <4>3. Attends(live[j], live[j]) /\ pc'[live[j]] = pc[live[j]]
        BY <1>0, <2>1, <4>1, <4>2 DEF IInv, TypeOK, PendingIsAttended
      <4>4. QED
        BY <1>0, <4>1, <4>3 DEF Attends
    <3>3. QED
      BY <3>1, <3>2
  <2>10. VerdictIsDecision'
    BY <1>0, <2>1, <2>3 DEF IInv, TypeOK, VerdictIsDecision
  <2>11. QED
    BY <2>2, <2>4, <2>5, <2>6, <2>7, <2>8, <2>9, <2>10 DEF IInv
<1>3. QED
  BY <1>1, <1>2

(* A handler that goes on without touching an item. *)
LEMMA AnnounceIInv ==
    ASSUME IInv, NEW c \in Calls, Announce(c) \/ Retract(c)
    PROVE  IInv'
<1>0. /\ UNCHANGED <<live, status, old, chan, key, level, waits, verdict>>
      /\ pc[c] \in {"announce", "retract"}
      /\ \/ /\ pc[c] = "announce"
            /\ pc' = [pc EXCEPT ![c] = IF level[c] = "A" THEN "listen" ELSE "done"]
         \/ pc[c] = "retract" /\ pc' = [pc EXCEPT ![c] = "done"]
  BY DEF Announce, Retract
<1>1. TypeOK'
  BY <1>0 DEF IInv, TypeOK, Announce, Retract, Levels
<1>2. (LiveIsOwn /\ IdleIsUnused /\ TokensAgree)'
  BY <1>0 DEF IInv, TypeOK, LiveIsOwn, IdleIsUnused, TokensAgree
<1>3. WaitsAreHooks' /\ VerdictIsDecision'
  BY <1>0 DEF IInv, TypeOK, WaitsAreHooks, VerdictIsDecision
<1>4. TokenTaken'
  BY <1>0 DEF IInv, TypeOK, TokenTaken
<1>5. PendingIsAttended'
  <2> SUFFICES ASSUME NEW j \in Keys, Pending(j), level[live[j]] = "A"
               PROVE  Attends(live[j], live[j])'
    BY <1>0 DEF PendingIsAttended, Pending
  <2>1. live[j] \in Calls /\ Attends(live[j], live[j])
    BY DEF IInv, TypeOK, PendingIsAttended, Pending
  <2>2. CASE live[j] = c
    <3>1. pc[c] = "announce"
      BY <1>0, <2>1, <2>2 DEF Attends
    <3>2. pc'[c] = "listen"
      BY <1>0, <2>2, <3>1 DEF IInv, TypeOK
    <3>3. QED
      BY <2>2, <1>0, <3>2 DEF Attends
  <2>3. CASE live[j] # c
    <3>1. pc'[live[j]] = pc[live[j]] /\ waits'[live[j]] = waits[live[j]]
      BY <1>0, <2>1, <2>3 DEF IInv, TypeOK
    <3>2. QED
      BY <1>0, <2>1, <3>1 DEF Attends
  <2>4. QED
    BY <2>2, <2>3
<1>6. QED
  BY <1>1, <1>2, <1>3, <1>4, <1>5 DEF IInv

(* A handler that starts to wait for the item its key holds. *)
LEMMA ListenIInv ==
    ASSUME IInv, NEW c \in Calls, Listen(c)
    PROVE  IInv'
<1> DEFINE p == live[key[c]]
<1>0. /\ UNCHANGED <<live, status, old, chan, key, level, verdict>>
      /\ pc[c] = "listen" /\ verdict[c] = "none"
      /\ \/ /\ p = None \/ level[p] = "B"
            /\ pc' = [pc EXCEPT ![c] = "done"] /\ waits' = waits
         \/ /\ p # None /\ level[p] # "B"
            /\ pc' = [pc EXCEPT ![c] = "blocked"] /\ waits' = [waits EXCEPT ![c] = p]
  BY DEF Listen, IInv, WaitsAreHooks
<1>1. /\ key[c] \in Keys /\ p \in Calls \cup {None}
      /\ p # None => level[p] \in Levels
  BY DEF IInv, TypeOK
<1>2. TypeOK'
  BY <1>0, <1>1 DEF IInv, TypeOK, Listen
<1>3. (LiveIsOwn /\ IdleIsUnused /\ TokensAgree)'
  BY <1>0 DEF IInv, TypeOK, LiveIsOwn, IdleIsUnused, TokensAgree
<1>4. WaitsAreHooks'
  BY <1>0, <1>1 DEF IInv, TypeOK, WaitsAreHooks, Levels
<1>5. VerdictIsDecision'
  <2> SUFFICES ASSUME NEW d \in Calls, verdict[d] # "none"
               PROVE  /\ waits'[d] # None
                      /\ status[waits'[d]] = IF verdict[d] = "allow" THEN "allowed" ELSE "denied"
    BY <1>0 DEF VerdictIsDecision
  <2>1. d # c
    BY <1>0
  <2>2. waits'[d] = waits[d]
    BY <1>0, <2>1 DEF IInv, TypeOK
  <2>3. QED
    BY <2>2 DEF IInv, VerdictIsDecision
<1>6. TokenTaken'
  BY <1>0 DEF IInv, TypeOK, TokenTaken
<1>7. PendingIsAttended'
  <2> SUFFICES ASSUME NEW j \in Keys, Pending(j), level[live[j]] = "A"
               PROVE  Attends(live[j], live[j])'
    BY <1>0 DEF PendingIsAttended, Pending
  <2>1. live[j] \in Calls /\ Attends(live[j], live[j]) /\ key[live[j]] = j
    BY DEF IInv, TypeOK, PendingIsAttended, Pending, LiveIsOwn
  <2>2. CASE live[j] = c
    BY <1>0, <2>1, <2>2 DEF Attends, IInv, TypeOK, Pending
  <2>3. CASE live[j] # c
    BY <1>0, <2>1, <2>3 DEF Attends, IInv, TypeOK
  <2>4. QED
    BY <2>2, <2>3
<1>8. QED
  BY <1>2, <1>3, <1>4, <1>5, <1>6, <1>7 DEF IInv

(* A handler that takes the token and answers its tool. *)
LEMMA WakeIInv ==
    ASSUME IInv, NEW c \in Calls, Wake(c)
    PROVE  IInv'
<1> DEFINE p == waits[c]
<1>0. /\ UNCHANGED <<live, status, old, key, level, waits>>
      /\ pc[c] = "blocked" /\ chan[p] # "empty"
      /\ verdict' = [verdict EXCEPT ![c] = chan[p]]
      /\ chan' = [chan EXCEPT ![p] = "empty"]
      /\ pc' = [pc EXCEPT ![c] = "done"]
  BY DEF Wake
<1>1. p \in Calls /\ status[p] \in Settled /\ chan[p] \in Tokens
  BY <1>0 DEF IInv, TypeOK, WaitsAreHooks, TokensAgree
<1>2. TypeOK'
  BY <1>0, <1>1 DEF IInv, TypeOK, Wake
<1>3. (LiveIsOwn /\ IdleIsUnused /\ WaitsAreHooks /\ TokensAgree)'
  BY <1>0, <1>1 DEF IInv, TypeOK, LiveIsOwn, IdleIsUnused, WaitsAreHooks, TokensAgree
<1>4. TokenTaken'
  BY <1>0, <1>1 DEF IInv, TypeOK, TokenTaken
<1>5. PendingIsAttended'
  BY <1>0, <1>1, NoneAssumption
     DEF IInv, TypeOK, PendingIsAttended, Pending, Attends, Settled
<1>6. VerdictIsDecision'
  BY <1>0, <1>1, NoneAssumption DEF IInv, TypeOK, VerdictIsDecision, TokensAgree, Tokens
<1>7. QED
  BY <1>2, <1>3, <1>4, <1>5, <1>6 DEF IInv

(* A handler whose timer fires or whose tool hung up. *)
LEMMA GiveUpIInv ==
    ASSUME IInv, NEW c \in Calls, GiveUp(c)
    PROVE  IInv'
<1>0. /\ UNCHANGED <<key, level, waits, verdict, old>> /\ pc[c] = "blocked" /\ key[c] \in Keys
  BY DEF GiveUp, IInv, TypeOK, Settle, storeVars
<1>1. CASE Pending(key[c])
  <2>1. Settle(key[c], "fallback", "none") /\ pc' = [pc EXCEPT ![c] = "retract"]
    BY <1>1 DEF GiveUp
  <2>2. TypeOK'
    BY <1>0, <2>1 DEF IInv, TypeOK, GiveUp, Settle, Statuses, Settled, Tokens
  <2>3. \A d \in Calls : \/ pc'[d] = pc[d]
                         \/ key[d] = key[c] /\ pc[d] = "blocked" /\ pc'[d] = "retract"
    <3>1. pc \in [Calls -> {"idle", "announce", "listen", "blocked", "retract", "done"}]
      BY DEF IInv, TypeOK
    <3>2. TAKE d \in Calls
    <3>3. CASE d = c
      BY <1>0, <2>1, <3>1, <3>3
    <3>4. CASE d # c
      <4>1. pc'[d] = pc[d]
        BY <2>1, <3>1, <3>4
      <4>2. QED
        BY <4>1
    <3>5. QED
      BY <3>3, <3>4
  <2>4. "fallback" \in Settled /\ "none" \in Tokens
    BY DEF Settled, Tokens
  <2>5. QED
    BY <1>0, <1>1, <2>1, <2>2, <2>3, <2>4, SettleIInv
<1>2. CASE ~Pending(key[c])
  <2>1. pc' = [pc EXCEPT ![c] = "done"] /\ UNCHANGED <<live, status, chan>>
    BY <1>2 DEF GiveUp, storeVars
  <2>2. TypeOK'
    BY <1>0, <2>1 DEF IInv, TypeOK, GiveUp
  <2>3. (LiveIsOwn /\ IdleIsUnused /\ WaitsAreHooks /\ TokensAgree)'
    BY <1>0, <2>1 DEF IInv, TypeOK, LiveIsOwn, IdleIsUnused, WaitsAreHooks, TokensAgree
  <2>4. (TokenTaken /\ VerdictIsDecision)'
    BY <1>0, <2>1 DEF IInv, TypeOK, TokenTaken, VerdictIsDecision
  <2>5. PendingIsAttended'
    <3> SUFFICES ASSUME NEW j \in Keys, Pending(j), level[live[j]] = "A"
                 PROVE  Attends(live[j], live[j])'
      BY <1>0, <2>1 DEF PendingIsAttended, Pending
    <3>1. live[j] \in Calls /\ Attends(live[j], live[j]) /\ live[j] # c
      BY <1>2 DEF IInv, TypeOK, PendingIsAttended, Pending, LiveIsOwn
    <3>2. QED
      BY <1>0, <2>1, <3>1 DEF Attends, IInv, TypeOK
  <2>6. QED
    BY <2>2, <2>3, <2>4, <2>5 DEF IInv
<1>3. QED
  BY <1>1, <1>2

(* A closer at one key of its list. *)
LEMMA CloseOneIInv ==
    ASSUME IInv, NEW x \in Closers, NEW k \in Keys, CloseOne(x, k)
    PROVE  IInv'
<1>1. CASE Pending(k)
  <2>1. Settle(k, "closed_local", "none") /\ UNCHANGED <<pc, key, level, waits, verdict>>
    BY <1>1 DEF CloseOne
  <2>2. TypeOK'
    <3>1. live' = live /\ old' = old
          /\ status' \in [Calls -> Statuses] /\ chan' \in [Calls -> {"empty"} \cup Tokens]
      BY <2>1 DEF IInv, TypeOK, Settle, Statuses, Settled, Tokens
    <3>2. /\ todo' = [todo EXCEPT ![x] = @ \ {k}]
          /\ closed' = [closed EXCEPT ![x] = @ \cup {k}]
      BY <1>1 DEF CloseOne
    <3>3. UNCHANGED <<pc, key, level, waits, verdict, shown, inflight>>
      BY DEF CloseOne
    <3>4. QED
      BY <3>1, <3>2, <3>3 DEF IInv, TypeOK
  <2>3. "closed_local" \in Settled /\ "none" \in Tokens
    BY DEF Settled, Tokens
  <2>4. QED
    BY <1>1, <2>1, <2>2, <2>3, SettleIInv
<1>2. CASE ~Pending(k)
  <2>1. UNCHANGED <<live, status, old, chan, closed>>
    BY <1>2 DEF CloseOne, storeVars
  <2>2. TypeOK'
    BY <2>1 DEF IInv, TypeOK, CloseOne
  <2>3. QED
    BY <2>1, <2>2, ElsewhereIInv DEF CloseOne
<1>3. QED
  BY <1>1, <1>2

(* A forwarded decision. *)
LEMMA DecideIInv ==
    ASSUME IInv, NEW k \in Keys, Decide(k)
    PROVE  IInv'
<1>0. /\ inflight' \in [Keys -> Seq({"allow", "deny"})]
      /\ UNCHANGED <<pc, key, level, waits, verdict, todo, closed, shown>>
  BY DEF Decide, IInv, TypeOK
<1>1. CASE Pending(k)
  <2>1. PICK s \in {"allowed", "denied"}, t \in {"allow", "deny"} :
          Settle(k, s, t) /\ (t = "allow" => s = "allowed") /\ (t = "deny" => s = "denied")
    BY <1>1 DEF Decide
  <2>2. TypeOK'
    BY <1>0, <1>1, <2>1 DEF IInv, TypeOK, Settle, Statuses, Settled, Tokens
  <2>3. s \in Settled /\ t \in Tokens
    BY DEF Settled, Tokens
  <2>4. QED
    BY <1>0, <1>1, <2>1, <2>2, <2>3, SettleIInv
<1>2. CASE ~Pending(k)
  <2>1. UNCHANGED <<live, status, old, chan>>
    BY <1>2 DEF Decide, storeVars
  <2>2. TypeOK'
    BY <1>0, <2>1 DEF IInv, TypeOK
  <2>3. QED
    BY <1>0, <2>1, <2>2, ElsewhereIInv
<1>3. QED
  BY <1>1, <1>2

(* An item settled long ago is forgotten. *)
LEMMA SweepIInv ==
    ASSUME IInv, NEW k \in Keys, Sweep(k)
    PROVE  IInv'
<1>1. TypeOK'
  BY DEF IInv, TypeOK, Sweep
<1>2. (LiveIsOwn /\ IdleIsUnused /\ WaitsAreHooks /\ TokensAgree)'
  BY DEF Sweep, IInv, TypeOK, LiveIsOwn, IdleIsUnused, WaitsAreHooks, TokensAgree
<1>3. (TokenTaken /\ VerdictIsDecision)'
  BY DEF Sweep, IInv, TypeOK, TokenTaken, VerdictIsDecision
<1>4. PendingIsAttended'
  BY DEF Sweep, IInv, TypeOK, PendingIsAttended, Pending, Attends
<1>5. QED
  BY <1>1, <1>2, <1>3, <1>4 DEF IInv

-------------------------------------------------------------------------------
LEMMA NextIInv == IInv /\ [Next]_vars => IInv'
<1> SUFFICES ASSUME IInv, [Next]_vars PROVE IInv'
  OBVIOUS
<1>1. ASSUME NEW c \in Calls, Handler(c) PROVE IInv'
  BY <1>1, RequestIInv, AnnounceIInv, ListenIInv, WakeIInv, GiveUpIInv DEF Handler
<1>2. ASSUME NEW x \in Closers, Closer(x) PROVE IInv'
  <2>1. CASE CloseSession(x)
    <3>1. TypeOK'
      BY <2>1 DEF IInv, TypeOK, CloseSession
    <3>2. QED
      BY <2>1, <3>1, ElsewhereIInv DEF CloseSession
  <2>2. ASSUME NEW k \in Keys, PostToolUse(x, k) \/ AnnounceClosed(x, k) PROVE IInv'
    <3>1. TypeOK'
      <4>1. CASE PostToolUse(x, k)
        BY <4>1 DEF IInv, TypeOK, PostToolUse
      <4>2. CASE AnnounceClosed(x, k)
        BY <4>2 DEF IInv, TypeOK, AnnounceClosed
      <4>3. QED
        BY <2>2, <4>1, <4>2
    <3>2. QED
      BY <2>2, <3>1, ElsewhereIInv DEF PostToolUse, AnnounceClosed
  <2>3. QED
    BY <1>2, <2>1, <2>2, CloseOneIInv DEF Closer
<1>3. ASSUME NEW k \in Keys, Remote(k) \/ Clock(k) PROVE IInv'
  <2>1. ASSUME NEW d \in {"allow", "deny"}, ConsoleDecide(k, d) PROVE IInv'
    <3>1. TypeOK'
      BY <2>1 DEF IInv, TypeOK, ConsoleDecide
    <3>2. QED
      BY <2>1, <3>1, ElsewhereIInv DEF ConsoleDecide
  <2>2. CASE Age(k)
    <3>1. TypeOK'
      BY <2>2 DEF IInv, TypeOK, Age
    <3>2. QED
      BY <2>2, <3>1, ElsewhereIInv DEF Age
  <2>3. QED
    BY <1>3, <2>1, <2>2, DecideIInv, SweepIInv DEF Remote, Clock
<1>4. CASE UNCHANGED vars
  BY <1>4, ElsewhereIInv DEF vars, IInv, TypeOK
<1>5. QED
  BY <1>1, <1>2, <1>3, <1>4 DEF Next

LEMMA Invariance == Spec => []IInv
BY InitIInv, NextIInv, PTL DEF Spec

(* The store, its channels and its handlers keep their types, for any       *)
(* number of calls, keys, closers and decisions.                            *)
THEOREM TypeCorrect == Spec => []TypeOK
BY Invariance, PTL DEF IInv

(* No interleaving of timeouts, duplicates, replacements and local closes   *)
(* leaves a pending level-A approval without the handler that registered it. *)
THEOREM NeverOrphaned == Spec => []PendingIsAttended
BY Invariance, PTL DEF IInv

(* A tool is told allow or deny only for the request a console answered so. *)
THEOREM VerdictSound == Spec => []VerdictIsDecision
BY Invariance, PTL DEF IInv

(* A handler that waits alone is not left behind by a settled approval.     *)
THEOREM AloneIsWoken == Spec => []SoleWaiterIsWoken
<1>1. IInv => SoleWaiterIsWoken
  <2> SUFFICES ASSUME IInv, NEW c \in Calls, pc[c] = "blocked",
                      status[waits[c]] \in Settled,
                      \A d \in Calls \ {c} : waits[d] # waits[c],
                      chan[waits[c]] = "empty"
               PROVE  FALSE
    BY DEF SoleWaiterIsWoken
  <2>1. waits[c] \in Calls /\ level[waits[c]] = "A"
    BY DEF IInv, TypeOK, WaitsAreHooks
  <2>2. PICK d \in Calls : pc[d] = "done" /\ waits[d] = waits[c]
    BY <2>1 DEF IInv, TokenTaken
  <2>3. QED
    BY <2>2
<1>2. QED
  BY <1>1, Invariance, PTL

-------------------------------------------------------------------------------
(* Steps that settle nothing, register nothing and tell nothing. *)
LEMMA LedgerStutters ==
    ASSUME IInv, UNCHANGED <<status, verdict>>,
           \A c \in Calls : verdict[c] # "none" => waits'[c] = waits[c]
    PROVE  UNCHANGED Ledger!answerVars
<1>1. \A p \in Calls : {d \in Calls : waits'[d] = p /\ verdict'[d] # "none"}
                     = {d \in Calls : waits[d] = p /\ verdict[d] # "none"}
  OBVIOUS
<1>2. Told' = Told
  BY <1>1 DEF Told
<1>3. QED
  BY <1>2 DEF Ledger!answerVars

(* Whoever settles an item gives it its one answer. *)
LEMMA LedgerAnswers ==
    ASSUME IInv, NEW k \in Keys, Pending(k), NEW s \in Settled, NEW token,
           Settle(k, s, token), UNCHANGED <<waits, verdict>>
    PROVE  Ledger!Next
<1>1. live[k] \in Calls /\ status[live[k]] = "pending"
  BY NoneAssumption DEF IInv, TypeOK, Pending
<1>2. Told' = Told
  BY DEF Told
<1>3. s \in Ledger!Answers \ {"dropped"}
  BY DEF Settled, Ledger!Answers
<1>4. Ledger!Answer(live[k])
  BY <1>1, <1>2, <1>3 DEF Settle, Ledger!Answer
<1>5. QED
  BY <1>1, <1>4 DEF Ledger!Next

LEMMA LedgerOpens ==
    ASSUME IInv, NEW c \in Calls, Request(c)
    PROVE  [Ledger!Next]_(Ledger!answerVars)
<1> DEFINE p == live[key[c]]
<1>0. Told' = Told /\ pc[c] = "idle" /\ status[c] = "unused"
  BY DEF Told, Request, IInv, IdleIsUnused
<1>1. CASE Joins(c)
  BY <1>0, <1>1 DEF Request, Add, storeVars, Ledger!answerVars
<1>2. CASE ~Joins(c)
  <2>1. status' = [d \in Calls |->
                     IF d = c THEN "pending"
                     ELSE IF d = p /\ status[d] = "pending" THEN "dropped"
                     ELSE status[d]]
    BY <1>2 DEF Request, Add
  <2>2. status \in [Calls -> Statuses]
    BY DEF IInv, TypeOK
  <2> HIDE DEF p
  <2>3. CASE p \in Calls /\ status[p] = "pending"
    <3>1. p # c
      BY <1>0, <2>3
    <3>2. status' = [status EXCEPT ![c] = "pending", ![p] = "dropped"]
      BY <2>1, <2>2, <2>3, <3>1
    <3>3. Ledger!Open(c)
      BY <1>0, <2>3, <3>1, <3>2 DEF Ledger!Open
    <3>4. QED
      BY <3>3 DEF Ledger!Next
  <2>4. CASE ~(p \in Calls /\ status[p] = "pending")
    <3>1. status' = [status EXCEPT ![c] = "pending"]
      BY <2>1, <2>2, <2>4
    <3>2. Ledger!Open(c)
      BY <1>0, <3>1 DEF Ledger!Open
    <3>3. QED
      BY <3>2 DEF Ledger!Next
  <2>5. QED
    BY <2>3, <2>4
<1>3. QED
  BY <1>1, <1>2

LEMMA LedgerTells ==
    ASSUME IInv, NEW c \in Calls, Wake(c)
    PROVE  [Ledger!Next]_(Ledger!answerVars)
<1> DEFINE p == waits[c]
           v == chan[p]
<1>1. /\ p \in Calls /\ v \in Tokens /\ verdict[c] = "none"
      /\ UNCHANGED <<status, waits>> /\ verdict' = [verdict EXCEPT ![c] = v]
      /\ v = "allow" => status[p] = "allowed"
      /\ v = "deny" => status[p] = "denied"
  BY DEF Wake, IInv, TypeOK, WaitsAreHooks, TokensAgree
<1>2. verdict \in [Calls -> Tokens]
  BY DEF IInv, TypeOK
<1> HIDE DEF p, v
<1>3. CASE v = "none"
  <2>1. verdict' = verdict
    BY <1>1, <1>2, <1>3
  <2>2. QED
    BY <1>1, <2>1, LedgerStutters
<1>4. CASE v # "none"
  <2>1. /\ p \in Calls /\ status[p] \in {"allowed", "denied"}
        /\ Ledger!Verdict[status[p]] = v
    BY <1>1, <1>4 DEF Tokens, Ledger!Verdict
  <2>2. \A q \in Calls : Told'[q] = IF q = p THEN Told[q] \cup {v} ELSE Told[q]
    <3>1. TAKE q \in Calls
    <3>2. /\ Told'[q] = {verdict'[d] : d \in {e \in Calls : waits[e] = q /\ verdict'[e] # "none"}}
          /\ Told[q] = {verdict[d] : d \in {e \in Calls : waits[e] = q /\ verdict[e] # "none"}}
      BY <1>1 DEF Told
    <3>3. /\ verdict'[c] = v
          /\ \A d \in Calls \ {c} : verdict'[d] = verdict[d]
      BY <1>1, <1>2
    <3>4. CASE q = p
      <4>1. {e \in Calls : waits[e] = q /\ verdict'[e] # "none"}
              = {e \in Calls : waits[e] = q /\ verdict[e] # "none"} \cup {c}
        BY <1>1, <1>4, <3>3, <3>4 DEF p
      <4>2. QED
        BY <1>1, <3>2, <3>3, <3>4, <4>1
    <3>5. CASE q # p
      <4>1. waits[c] # q
        BY <3>5 DEF p
      <4>2. {e \in Calls : waits[e] = q /\ verdict'[e] # "none"}
              = {e \in Calls : waits[e] = q /\ verdict[e] # "none"}
        BY <3>3, <4>1
      <4>3. QED
        BY <3>2, <3>3, <3>5, <4>1, <4>2
    <3>6. QED
      BY <3>4, <3>5
  <2>3. Told' = [Told EXCEPT ![p] = @ \cup {v}]
    BY <2>1, <2>2 DEF Told
  <2>4. Ledger!Tell(p)
    BY <1>1, <2>1, <2>3 DEF Ledger!Tell, Ledger!Verdict
  <2>5. QED
    BY <2>1, <2>4 DEF Ledger!Next
<1>5. QED
  BY <1>3, <1>4

(* The store, its handlers, closers and consoles implement OneAnswer: every *)
(* step registers a request, gives an open one its only answer, tells a     *)
(* waiting tool that answer, or changes nothing the tool could see.         *)
THEOREM StoreImplements == Spec => FirstAnswerStands
<1>1. Init => Ledger!Init
  <2> SUFFICES ASSUME Init PROVE Ledger!Init
    OBVIOUS
  <2>1. \A p \in Calls : {d \in Calls : waits[d] = p /\ verdict[d] # "none"} = {}
    BY DEF Init
  <2>2. Told = [p \in Calls |-> {}]
    BY <2>1 DEF Told
  <2>3. QED
    BY <2>2 DEF Init, Ledger!Init
<1>2. IInv /\ [Next]_vars => [Ledger!Next]_(Ledger!answerVars)
  <2> SUFFICES ASSUME IInv, [Next]_vars PROVE [Ledger!Next]_(Ledger!answerVars)
    OBVIOUS
  <2>1. ASSUME NEW c \in Calls, Handler(c) PROVE [Ledger!Next]_(Ledger!answerVars)
    <3>1. CASE Announce(c) \/ Retract(c)
      BY <3>1, LedgerStutters DEF Announce, Retract
    <3>2. CASE Listen(c)
      <4>1. verdict[c] = "none"
        BY <3>2 DEF Listen, IInv, WaitsAreHooks
      <4>2. \A d \in Calls : verdict[d] # "none" => waits'[d] = waits[d]
        BY <3>2, <4>1 DEF Listen, IInv, TypeOK
      <4>3. QED
        BY <3>2, <4>2, LedgerStutters DEF Listen
    <3>3. CASE GiveUp(c)
      <4>1. key[c] \in Keys /\ "fallback" \in Settled
        BY DEF IInv, TypeOK, Settled
      <4>2. CASE Pending(key[c])
        BY <3>3, <4>1, <4>2, LedgerAnswers DEF GiveUp
      <4>3. CASE ~Pending(key[c])
        BY <3>3, <4>3, LedgerStutters DEF GiveUp, storeVars
      <4>4. QED
        BY <4>2, <4>3
    <3>4. QED
      BY <2>1, <3>1, <3>2, <3>3, LedgerOpens, LedgerTells DEF Handler
  <2>2. ASSUME NEW x \in Closers, Closer(x) PROVE [Ledger!Next]_(Ledger!answerVars)
    <3>1. CASE CloseSession(x)
      BY <3>1, LedgerStutters DEF CloseSession
    <3>2. ASSUME NEW k \in Keys, PostToolUse(x, k) \/ AnnounceClosed(x, k)
          PROVE [Ledger!Next]_(Ledger!answerVars)
      BY <3>2, LedgerStutters DEF PostToolUse, AnnounceClosed
    <3>3. ASSUME NEW k \in Keys, CloseOne(x, k) PROVE [Ledger!Next]_(Ledger!answerVars)
      <4>1. "closed_local" \in Settled
        BY DEF Settled
      <4>2. CASE Pending(k)
        BY <3>3, <4>1, <4>2, LedgerAnswers DEF CloseOne
      <4>3. CASE ~Pending(k)
        BY <3>3, <4>3, LedgerStutters DEF CloseOne, storeVars
      <4>4. QED
        BY <4>2, <4>3
    <3>4. QED
      BY <2>2, <3>1, <3>2, <3>3 DEF Closer
  <2>3. ASSUME NEW k \in Keys, Remote(k) \/ Clock(k) PROVE [Ledger!Next]_(Ledger!answerVars)
    <3>1. CASE Decide(k)
      <4>1. {"allowed", "denied"} \subseteq Settled
        BY DEF Settled
      <4>2. CASE Pending(k)
        <5>1. \/ Settle(k, "allowed", "allow") \/ Settle(k, "denied", "deny")
          BY <3>1, <4>2 DEF Decide
        <5>2. QED
          BY <3>1, <4>1, <4>2, <5>1, LedgerAnswers DEF Decide
      <4>3. CASE ~Pending(k)
        BY <3>1, <4>3, LedgerStutters DEF Decide, storeVars
      <4>4. QED
        BY <4>2, <4>3
    <3>2. ASSUME NEW d \in {"allow", "deny"}, ConsoleDecide(k, d)
          PROVE [Ledger!Next]_(Ledger!answerVars)
      BY <3>2, LedgerStutters DEF ConsoleDecide
    <3>3. CASE Clock(k)
      BY <3>3, LedgerStutters DEF Clock, Age, Sweep
    <3>4. QED
      BY <2>3, <3>1, <3>2, <3>3 DEF Remote
  <2>4. CASE UNCHANGED vars
    BY <2>4, LedgerStutters DEF vars
  <2>5. QED
    BY <2>1, <2>2, <2>3, <2>4 DEF Next
<1>3. QED
  BY <1>1, <1>2, Invariance, PTL DEF Spec, FirstAnswerStands, Ledger!Spec
================================================================================
