----------------------------- MODULE AccessProofs -----------------------------
(***************************************************************************)
(* For any number of requests, addresses, codes and failures: a pairing code  *)
(* pairs one device, recent failures lock, and a lock is kept until its time.  *)
(*                                                                          *)
(* The argument: an issue of a code that paired or is pairing a device is     *)
(* marked used in its row for as long as the row has that issue               *)
(* (TakenIsUsed), and when the row is purged and the code drawn again, that is *)
(* an issue of its own, of which nothing was taken yet (RowsNumbered).  A      *)
(* lock never ends later than LockoutFor after the last failure (LocksDated), *)
(* so a failure under a live lock finds the entry and only extends it.  Every *)
(* failure the entry no longer counts is older than LockoutFor or is outlived   *)
(* by the lock it led to (TallyPassed).                                        *)
(***************************************************************************)
EXTENDS Access, TLAPS

Pairs(a, c, n) ==
    pc[a] \in {"clear", "create"} /\ req[a].kind = "pair" /\ req[a].code = c /\ issue[a] = n
Taken(c, n) == made[c][n] > 0 \/ \E a \in Requests : Pairs(a, c, n)

RowsNumbered == \A c \in Codes : codes[c] # None => codes[c].issued <= issues

TakenIsUsed ==
    \A c \in Codes, n \in Issues : Taken(c, n) =>
        /\ n <= issues
        /\ codes[c] # None /\ codes[c].issued = n => codes[c].used # None

LocksDated ==
    \A k \in Keys : ents[k] # None =>
        ents[k].last <= now /\ ents[k].until <= ents[k].last + LockoutFor

(* OneDevicePerCode, request by request *)
Alone ==
    \A c \in Codes, n \in Issues :
        /\ made[c][n] <= 1
        /\ \A a \in Requests : Pairs(a, c, n) =>
            made[c][n] = 0 /\ \A b \in Requests : Pairs(b, c, n) => b = a

RowInv == RowsNumbered /\ TakenIsUsed /\ Alone
IInv == TypeOK /\ RowInv /\ LocksDated

-------------------------------------------------------------------------------
LEMMA Numbers ==
    /\ LockoutAfter \in Nat /\ LockoutAfter > 0 /\ LockoutFor \in Nat /\ LockoutFor > 0
    /\ PairCodeTTL \in Nat /\ PairCodeTTL > 0 /\ PurgeAfter \in Nat /\ PurgeAfter > 0
    /\ MaxTime \in Nat /\ MaxAsks \in Nat /\ MaxIssues \in Nat
<1>1. LockoutAfter \in Nat \ {0} /\ LockoutFor \in Nat \ {0}
  BY TimesAssumption, Zenon
<1>2. PairCodeTTL \in Nat \ {0} /\ PurgeAfter \in Nat \ {0}
  BY TimesAssumption, Zenon
<1>3. QED
  BY <1>1, <1>2, BoundsAssumption

LEMMA TimesAreNat == Times \subseteq Nat
  BY Numbers DEF Times

(* Of the failures recorded one is added at the end, and one may go in front. *)
LEMMA LatestShifts ==
    ASSUME NEW s \in Seq(Times), NEW x \in Times
    PROVE  LET r == Latest(Append(s, x))
           IN /\ r \in Seq(Times)
              /\ \E d \in {0, 1} :
                    /\ Len(r) = Len(s) + 1 - d
                    /\ \A i \in 1..Len(r) :
                        IF i = Len(r) THEN r[i] = x ELSE i + d \in 1..Len(s) /\ r[i] = s[i + d]
<1> DEFINE u == Append(s, x)
           r == Latest(u)
<1>1. /\ u \in Seq(Times) /\ Len(u) = Len(s) + 1 /\ Len(s) \in Nat
      /\ u[Len(s) + 1] = x /\ \A i \in 1..Len(s) : u[i] = s[i]
  OBVIOUS
<1> HIDE DEF u
<1>2. CASE Len(u) > LockoutAfter
  <2>1. r = Tail(u) /\ u # <<>>
    BY <1>1, <1>2, Numbers DEF Latest
  <2>2. /\ r \in Seq(Times) /\ Len(r) = Len(s) /\ Len(s) \in Nat
        /\ \A i \in 1..Len(r) : r[i] = u[i + 1]
    BY <1>1, <2>1
  <2>3. \A i \in 1..Len(r) :
          IF i = Len(r) THEN r[i] = x ELSE i + 1 \in 1..Len(s) /\ r[i] = s[i + 1]
    BY <1>1, <2>2
  <2>4. Len(r) = Len(s) + 1 - 1
    BY <2>2
  <2>5. QED
    BY <2>2, <2>3, <2>4 DEF u
<1>3. CASE ~(Len(u) > LockoutAfter)
  <2>1. r = u
    BY <1>3 DEF Latest
  <2>2. \A i \in 1..Len(r) :
          IF i = Len(r) THEN r[i] = x ELSE i + 0 \in 1..Len(s) /\ r[i] = s[i + 0]
    BY <1>1, <2>1
  <2>3. Len(r) = Len(s) + 1 - 0
    BY <1>1, <2>1
  <2>4. QED
    BY <1>1, <2>1, <2>2, <2>3 DEF u
<1>4. QED
  BY <1>2, <1>3

LEMMA KeysTyped ==
    ASSUME TypeOK, NEW a \in Requests, pc[a] # "idle"
    PROVE  /\ req[a] \in Asks /\ OwnKey(a) \in Keys
           /\ req[a].kind = "pair" => OwnCode(a) \in Keys /\ req[a].code \in Codes
<1>1. req[a] \in Asks
  BY DEF TypeOK
<1>2. req[a].addr \in Addrs /\ (req[a].kind = "pair" => req[a].code \in Codes)
  BY <1>1 DEF Asks
<1>3. QED
  BY <1>1, <1>2 DEF OwnKey, KeyOf, OwnCode, Keys, LoginKey, AddrKey, CodeKey

LEMMA CountedTyped ==
    ASSUME TypeOK, NEW k \in Keys
    PROVE  Counted(k) \in [fails : 0..(LockoutAfter - 1), last : Times,
                           until : 0..(MaxTime + LockoutFor)]
<1> DEFINE E == Entry(k)
<1>1. E \in [fails : 0..(LockoutAfter - 1), last : Times, until : 0..(MaxTime + LockoutFor)]
  <2>1. CASE E = [fails |-> 0, last |-> 0, until |-> 0]
    <3>1. /\ 0 \in 0..(LockoutAfter - 1) /\ 0 \in Times
          /\ 0 \in 0..(MaxTime + LockoutFor)
      BY Numbers DEF Times
    <3>2. QED
      BY <2>1, <3>1
  <2>2. CASE ents[k] # None /\ E = ents[k]
    <3>1. ents \in [Keys -> {None} \cup [fails : 0..(LockoutAfter - 1), last : Times,
                                         until : 0..(MaxTime + LockoutFor)]]
      BY DEF TypeOK
    <3>2. QED
      BY <2>2, <3>1, Zenon
  <2>3. QED
    BY <2>1, <2>2 DEF Entry
<1>2. now \in Times /\ now + LockoutFor \in 0..(MaxTime + LockoutFor)
  <2>1. now \in Times
    BY DEF TypeOK
  <2>2. QED
    BY <2>1, Numbers DEF Times
<1>3. CASE E.fails + 1 >= LockoutAfter
  BY <1>2, <1>3, Numbers DEF Counted
<1>4. CASE ~(E.fails + 1 >= LockoutAfter)
  <2>1. E.fails + 1 \in 0..(LockoutAfter - 1)
    BY <1>1, <1>4, Numbers
  <2>2. Counted(k) = [fails |-> E.fails + 1, last |-> now, until |-> E.until]
    BY <1>4 DEF Counted
  <2>3. QED
    BY <1>1, <1>2, <2>1, <2>2
<1>5. QED
  BY <1>3, <1>4

-------------------------------------------------------------------------------
(* Types: the lockout's, the database's and the requests' variables apart. *)

LockTypes ==
    /\ ents \in [Keys -> {None} \cup [fails : 0..(LockoutAfter - 1), last : Times,
                                      until : 0..(MaxTime + LockoutFor)]]
    /\ tally \in [Keys -> Seq(Times)]

LEMMA LockSteps ==
    ASSUME TypeOK, NEW k \in Keys
    PROVE  Ask(k) \/ Fail(k) \/ Clear(k) => LockTypes'
<1>1. Counted(k) \in [fails : 0..(LockoutAfter - 1), last : Times,
                      until : 0..(MaxTime + LockoutFor)]
  BY CountedTyped
<1>2. now \in Times
  BY DEF TypeOK
<1>3. Ask(k) => LockTypes'
  BY DEF TypeOK, Ask, LockTypes
<1>4. ASSUME Fail(k) PROVE LockTypes'
  <2> DEFINE T == Latest(Append(tally[k], now))
  <2>1. T \in Seq(Times)
    BY <1>2, LatestShifts DEF TypeOK
  <2>2. tally' = [tally EXCEPT ![k] = T] /\ ents' = [ents EXCEPT ![k] = Counted(k)]
    BY <1>4 DEF Fail
  <2>3. QED
    BY <1>1, <2>1, <2>2 DEF TypeOK, LockTypes
<1>5. ASSUME Clear(k) PROVE LockTypes'
  <2>1. <<>> \in Seq(Times)
    OBVIOUS
  <2>2. QED
    BY <1>5, <2>1 DEF TypeOK, Clear, LockTypes
<1>6. QED
  BY <1>3, <1>4, <1>5

RequestTypes ==
    /\ pc \in [Requests -> {"idle", "ask code", "redeem", "fail", "fail code", "clear",
                            "create"}]
    /\ req \in [Requests -> {None} \cup Asks]
    /\ at \in [Requests -> Times] /\ issue \in [Requests -> {None} \cup Issues]
    /\ \A a \in Requests :
        /\ pc[a] # "idle" => req[a] # None
        /\ pc[a] \in {"ask code", "redeem", "fail code", "create"} => req[a].kind = "pair"
        /\ pc[a] \in {"clear", "create"} /\ req[a].kind = "pair" => issue[a] # None

RowTypes ==
    /\ codes \in [Codes -> {None} \cup [issued : Issues, expires : Nat,
                                        used : {None} \cup Times]]
    /\ made \in [Codes -> [Issues -> Nat]]
    /\ issues \in 0..MaxIssues
    /\ making \in [Issuers -> {None} \cup [t : Times, step : {"purge", "insert"}]]

LEMMA TypeParts ==
    TypeOK <=> now \in Times /\ asked \in 0..MaxAsks /\ LockTypes /\ RowTypes /\ RequestTypes
  BY DEF TypeOK, LockTypes, RowTypes, RequestTypes

LEMMA Answered ==
    ASSUME TypeOK, NEW a \in Requests, Answer(a)
    PROVE  RequestTypes'
<1>1. /\ 0 \in Times
      /\ pc' = [pc EXCEPT ![a] = "idle"] /\ req' = [req EXCEPT ![a] = None]
      /\ at' = [at EXCEPT ![a] = 0] /\ issue' = [issue EXCEPT ![a] = None]
  BY Numbers DEF Answer, Go, Times
<1>2. \A b \in Requests \ {a} :
        pc'[b] = pc[b] /\ req'[b] = req[b] /\ issue'[b] = issue[b]
  BY <1>1 DEF TypeOK
<1>3. pc'[a] = "idle"
  BY <1>1 DEF TypeOK
<1>4. \A b \in Requests :
        /\ pc'[b] # "idle" => req'[b] # None
        /\ pc'[b] \in {"ask code", "redeem", "fail code", "create"} => req'[b].kind = "pair"
        /\ pc'[b] \in {"clear", "create"} /\ req'[b].kind = "pair" => issue'[b] # None
  BY <1>2, <1>3 DEF TypeOK
<1>5. /\ pc' \in [Requests -> {"idle", "ask code", "redeem", "fail", "fail code", "clear",
                               "create"}]
      /\ req' \in [Requests -> {None} \cup Asks]
      /\ at' \in [Requests -> Times] /\ issue' \in [Requests -> {None} \cup Issues]
  BY <1>1 DEF TypeOK
<1>6. QED
  BY <1>4, <1>5 DEF RequestTypes

LEMMA NextTypeOK == TypeOK /\ [Next]_vars => TypeOK'
<1> SUFFICES ASSUME TypeOK, [Next]_vars PROVE TypeOK'
  OBVIOUS
<1>0. 0 \in Times /\ now \in Times /\ asked \in 0..MaxAsks /\ LockTypes /\ RowTypes /\ RequestTypes
  BY BoundsAssumption, TypeParts DEF Times
<1>1. ASSUME NEW a \in Requests, Begin(a) PROVE TypeOK'
  <2>1. PICK q \in Asks :
          /\ pc[a] = "idle" /\ asked < MaxAsks
          /\ Ask(KeyOf(q))
          /\ IF Locked(KeyOf(q)) THEN UNCHANGED <<pc, req, asked>>
             ELSE /\ req' = [req EXCEPT ![a] = q] /\ asked' = asked + 1
                  /\ \E next \in IF q.kind = "pair" THEN {"ask code"}
                                 ELSE {"clear", "fail"} : Go(a, next)
          /\ UNCHANGED <<now, codes, made, newVars, at, issue>>
    BY <1>1 DEF Begin
  <2>2. KeyOf(q) \in Keys /\ q # None /\ q.kind \in {"pair", "login"}
    BY NoneAssumption DEF Asks, KeyOf, Keys, LoginKey, AddrKey
  <2>3. LockTypes'
    BY <2>1, <2>2, LockSteps
  <2>4. RequestTypes' /\ asked' \in 0..MaxAsks
    <3>1. CASE Locked(KeyOf(q))
      BY <1>0, <2>1, <3>1 DEF RequestTypes
    <3>2. CASE ~Locked(KeyOf(q))
      <4>1. /\ req' = [req EXCEPT ![a] = q] /\ asked' = asked + 1
            /\ at' = at /\ issue' = issue
        BY <2>1, <3>2
      <4>2. \/ q.kind = "pair" /\ pc' = [pc EXCEPT ![a] = "ask code"]
            \/ q.kind = "login" /\ pc' = [pc EXCEPT ![a] = "clear"]
            \/ q.kind = "login" /\ pc' = [pc EXCEPT ![a] = "fail"]
        BY <2>1, <2>2, <3>2 DEF Go
      <4>3. asked' \in 0..MaxAsks
        <5>1. asked < MaxAsks /\ asked \in 0..MaxAsks
          BY <1>0, <2>1
        <5>2. QED
          BY <4>1, <5>1, Numbers
      <4>4. RequestTypes'
        BY <1>0, <2>2, <4>1, <4>2 DEF RequestTypes
      <4>5. QED
        BY <4>3, <4>4
    <3>3. QED
      BY <3>1, <3>2
  <2>5. now' \in Times /\ RowTypes'
    BY <1>0, <2>1 DEF RowTypes, newVars
  <2>6. QED
    BY <2>3, <2>4, <2>5 DEF TypeOK, LockTypes, RowTypes, RequestTypes
<1>2. ASSUME NEW a \in Requests, AskCode(a) \/ FailAddr(a) \/ FailCode(a) \/ Succeed(a)
      PROVE  TypeOK'
  <2>1. pc[a] # "idle" /\ UNCHANGED <<now, codes, made, newVars, asked>>
    BY <1>2 DEF AskCode, FailAddr, FailCode, Succeed, Answer
  <2>2. LockTypes'
    <3>1. OwnKey(a) \in Keys /\ (pc[a] \in {"ask code", "fail code"} => OwnCode(a) \in Keys)
      BY <2>1, KeysTyped DEF TypeOK
    <3>2. QED
      BY <1>2, <3>1, LockSteps DEF AskCode, FailAddr, FailCode, Succeed
  <2>3. RequestTypes'
    <3>1. CASE Answer(a)
      BY <3>1, Answered
    <3>2. CASE ~Answer(a)
      BY <1>0, <1>2, <3>2 DEF RequestTypes, AskCode, FailAddr, FailCode, Succeed, Go
    <3>3. QED
      BY <3>1, <3>2
  <2>4. now' \in Times /\ asked' \in 0..MaxAsks /\ RowTypes'
    BY <1>0, <2>1 DEF RowTypes, newVars
  <2>5. QED
    BY <2>2, <2>3, <2>4 DEF TypeOK, LockTypes, RowTypes, RequestTypes
<1>3. ASSUME NEW a \in Requests, Redeem(a) \/ Refuse(a) PROVE TypeOK'
  <2>1. pc[a] = "redeem" /\ req[a].code \in Codes /\ at[a] \in Times
    BY <1>3, KeysTyped DEF Redeem, Refuse, TypeOK
  <2>2. LockTypes' /\ now' \in Times /\ asked' \in 0..MaxAsks
    BY <1>0, <1>3 DEF Redeem, Refuse, LockTypes, lockVars
  <2>3. RowTypes'
    <3>1. CASE Redeem(a)
      <4> DEFINE c == req[a].code
                 R == [codes[c] EXCEPT !.used = at[a]]
      <4>1. codes[c] # None /\ codes' = [codes EXCEPT ![c] = R] /\ made' = made
        BY <3>1 DEF Redeem, Redeemable
      <4>2. R \in [issued : Issues, expires : Nat, used : {None} \cup Times]
        <5>1. codes[c] \in [issued : Issues, expires : Nat, used : {None} \cup Times]
          BY <1>0, <2>1, <4>1 DEF RowTypes
        <5>2. QED
          BY <2>1, <5>1
      <4>3. UNCHANGED newVars
        BY <3>1 DEF Redeem
      <4>4. QED
        BY <1>0, <2>1, <4>1, <4>2, <4>3 DEF RowTypes, newVars
    <3>2. CASE Refuse(a)
      BY <1>0, <3>2 DEF Refuse, RowTypes, newVars
    <3>3. QED
      BY <1>3, <3>1, <3>2
  <2>4. RequestTypes'
    <3>1. CASE Redeem(a)
      <4>1. codes[req[a].code].issued \in Issues
        BY <1>0, <2>1, <3>1 DEF Redeem, Redeemable, RowTypes
      <4>2. codes[req[a].code].issued # None
        BY <4>1, NoneAssumption DEF Issues
      <4>3. QED
        BY <1>0, <2>1, <3>1, <4>1, <4>2 DEF Redeem, RequestTypes, Go
    <3>2. CASE Refuse(a)
      BY <1>0, <2>1, <3>2 DEF Refuse, RequestTypes, Go
    <3>3. QED
      BY <1>3, <3>1, <3>2
  <2>5. QED
    BY <2>2, <2>3, <2>4 DEF TypeOK, LockTypes, RowTypes, RequestTypes
<1>4. ASSUME NEW a \in Requests, CreateDevice(a) \/ StoreFails(a) PROVE TypeOK'
  <2>1. Answer(a) /\ now' = now /\ LockTypes' /\ asked' \in 0..MaxAsks
    BY <1>0, <1>4 DEF CreateDevice, StoreFails, LockTypes, lockVars, Answer
  <2>2. RequestTypes'
    BY <2>1, Answered
  <2>3. RowTypes'
    <3>1. CASE CreateDevice(a)
      <4>1. req[a].code \in Codes /\ issue[a] \in Issues
        BY <3>1, KeysTyped DEF CreateDevice, TypeOK
      <4>2. QED
        BY <1>0, <3>1, <4>1 DEF CreateDevice, RowTypes, newVars
    <3>2. CASE StoreFails(a)
      BY <1>0, <3>2 DEF StoreFails, RowTypes, newVars
    <3>3. QED
      BY <1>4, <3>1, <3>2
  <2>4. QED
    BY <1>0, <2>1, <2>2, <2>3 DEF TypeOK, LockTypes, RowTypes, RequestTypes
<1>5. ASSUME NEW w \in Issuers, Making(w) PROVE TypeOK'
  <2>1. UNCHANGED <<now, lockVars, made, reqVars>>
    BY <1>5 DEF Making, PairNew, Purge, Issue
  <2>2. LockTypes' /\ RequestTypes' /\ now' \in Times /\ asked' \in 0..MaxAsks
    BY <1>0, <2>1 DEF LockTypes, RequestTypes, lockVars, reqVars
  <2>3. RowTypes'
    <3> DEFINE Rows == [issued : Issues, expires : Nat, used : {None} \cup Times]
               Makings == [t : Times, step : {"purge", "insert"}]
    <3>0. /\ codes \in [Codes -> {None} \cup Rows] /\ issues \in 0..MaxIssues
          /\ making \in [Issuers -> {None} \cup Makings] /\ made' \in [Codes -> [Issues -> Nat]]
      BY <1>0, <2>1 DEF RowTypes
    <3>1. CASE PairNew(w)
      <4>1. [t |-> now, step |-> "purge"] \in Makings
        BY <1>0
      <4>2. making' \in [Issuers -> {None} \cup Makings] /\ UNCHANGED <<codes, issues>>
        BY <3>0, <3>1, <4>1 DEF PairNew
      <4>3. QED
        BY <3>0, <4>2 DEF RowTypes
    <3>2. CASE Purge(w)
      <4>1. making[w] \in Makings
        BY <3>0, <3>2 DEF Purge
      <4>2. making' \in [Issuers -> {None} \cup Makings] /\ issues' = issues
        BY <3>0, <3>2, <4>1 DEF Purge
      <4>3. codes' \in [Codes -> {None} \cup Rows]
        BY <3>0, <3>2 DEF Purge
      <4>4. QED
        BY <3>0, <4>2, <4>3 DEF RowTypes
    <3>3. CASE Issue(w)
      <4>1. making[w] \in Makings /\ making' \in [Issuers -> {None} \cup Makings]
        BY <3>0, <3>3 DEF Issue
      <4>2. CASE UNCHANGED <<codes, issues>>
        BY <3>0, <4>1, <4>2 DEF RowTypes
      <4>3. CASE /\ issues < MaxIssues /\ issues' = issues + 1
                 /\ \E c \in Codes \ Malformed :
                      codes' = [codes EXCEPT ![c] = [issued |-> issues', used |-> None,
                                                     expires |-> making[w].t + PairCodeTTL]]
        <5>1. issues' \in 0..MaxIssues /\ issues' \in Issues
          BY <3>0, <4>3, Numbers DEF Issues
        <5>2. making[w].t + PairCodeTTL \in Nat
          <6>1. making[w].t \in Times
            BY <4>1
          <6>2. \A t \in Times : t + PairCodeTTL \in Nat
            BY Numbers, TimesAreNat
          <6>3. QED
            BY <6>1, <6>2
        <5>3. [issued |-> issues', used |-> None, expires |-> making[w].t + PairCodeTTL] \in Rows
          BY <5>1, <5>2
        <5>4. codes' \in [Codes -> {None} \cup Rows]
          BY <3>0, <4>3, <5>3
        <5>5. QED
          BY <3>0, <4>1, <5>1, <5>4 DEF RowTypes
      <4>4. QED
        BY <3>3, <4>2, <4>3 DEF Issue
    <3>4. QED
      BY <1>5, <3>1, <3>2, <3>3 DEF Making
  <2>4. QED
    BY <2>2, <2>3 DEF TypeOK, LockTypes, RowTypes, RequestTypes
<1>6. CASE Tick
  <2>1. now' \in Times
    BY <1>0, <1>6, BoundsAssumption DEF Tick, Times
  <2>2. LockTypes'
    BY <1>0, <1>6 DEF Tick, LockTypes, lockVars
  <2>3. QED
    BY <1>0, <1>6, <2>1, <2>2
       DEF Tick, TypeOK, LockTypes, RowTypes, RequestTypes, reqVars, newVars
<1>7. CASE Restart
  <2>1. <<>> \in Seq(Times) /\ 0 \in Times
    BY Numbers DEF Times
  <2>2. LockTypes'
    BY <1>7, <2>1 DEF Restart, LockTypes
  <2>3. RowTypes' /\ RequestTypes'
    BY <1>0, <1>7, <2>1 DEF Restart, RowTypes, RequestTypes
  <2>4. QED
    BY <1>0, <1>7, <2>2, <2>3, TypeParts DEF Restart, TypeOK, LockTypes, RowTypes, RequestTypes
<1>8. CASE UNCHANGED vars
  BY <1>8 DEF vars, reqVars, lockVars, newVars, TypeOK
<1>9. QED
  BY <1>1, <1>2, <1>3, <1>4, <1>5, <1>6, <1>7, <1>8 DEF Next, Step

-------------------------------------------------------------------------------
(* The codes. *)

LEMMA AloneIsOne == Alone => OneDevicePerCode
<1>1. \A c \in Codes, n \in Issues, a \in Requests : a \in Pairing(c, n) <=> Pairs(a, c, n)
  BY DEF Pairing, Pairs
<1>2. \A c \in Codes, n \in Issues : Pairing(c, n) \subseteq Requests
  BY DEF Pairing
<1>3. SUFFICES ASSUME Alone PROVE OneDevicePerCode
  OBVIOUS
<1>4. ASSUME NEW c \in Codes, NEW n \in Issues, NEW a \in Pairing(c, n)
      PROVE  made[c][n] = 0 /\ Pairing(c, n) = {a}
  BY <1>1, <1>2, <1>3, <1>4 DEF Alone
<1>5. QED
  BY <1>3, <1>4 DEF Alone, OneDevicePerCode

(* Steps that leave the rows alone and let no request start to pair. *)
LEMMA NoNewPair ==
    ASSUME RowInv, UNCHANGED <<codes, made, issues>>,
           \A b \in Requests, c \in Codes, n \in Issues : Pairs(b, c, n)' => Pairs(b, c, n)
    PROVE  RowInv'
<1>1. RowsNumbered'
  BY DEF RowInv, RowsNumbered
<1>2. \A c \in Codes, n \in Issues : Taken(c, n)' => Taken(c, n)
  BY DEF Taken
<1>3. TakenIsUsed'
  BY <1>2 DEF RowInv, TakenIsUsed
<1>4. Alone'
  BY DEF RowInv, Alone
<1>5. QED
  BY <1>1, <1>3, <1>4 DEF RowInv

LEMMA QuietKeepsRows ==
    ASSUME TypeOK, RowInv, NEW a \in Requests,
           Begin(a) \/ AskCode(a) \/ Refuse(a) \/ FailAddr(a) \/ FailCode(a)
               \/ Succeed(a) \/ StoreFails(a)
    PROVE  RowInv'
<1>1. UNCHANGED <<codes, made, issues>>
  BY DEF Begin, AskCode, Refuse, FailAddr, FailCode, Succeed, StoreFails, newVars
<1>2. \A b \in Requests \ {a} : pc'[b] = pc[b] /\ req'[b] = req[b] /\ issue'[b] = issue[b]
  <2>1. CASE Answer(a)
    BY <2>1 DEF TypeOK, Answer, Go
  <2>2. CASE Begin(a)
    BY <2>2 DEF TypeOK, Begin, Go
  <2>3. CASE ~Answer(a) /\ ~Begin(a)
    BY <2>3 DEF TypeOK, AskCode, Refuse, FailAddr, FailCode, Succeed, StoreFails, Go
  <2>4. QED
    BY <2>1, <2>2, <2>3
<1>3. \/ pc'[a] \in {"idle", "redeem", "fail", "fail code", "ask code"}
      \/ req'[a].kind = "login"
      \/ pc[a] = "clear" /\ pc'[a] = "create" /\ req'[a] = req[a] /\ issue'[a] = issue[a]
      \/ pc'[a] = pc[a] /\ req'[a] = req[a] /\ issue'[a] = issue[a]
  <2>1. CASE Answer(a)
    BY <2>1 DEF TypeOK, Answer, Go
  <2>2. CASE Begin(a)
    <3>1. PICK q \in Asks :
            IF Locked(KeyOf(q)) THEN UNCHANGED <<pc, req, asked>>
            ELSE /\ req' = [req EXCEPT ![a] = q] /\ asked' = asked + 1
                 /\ \E next \in IF q.kind = "pair" THEN {"ask code"}
                                ELSE {"clear", "fail"} : Go(a, next)
      BY <2>2 DEF Begin
    <3>2. issue' = issue /\ q.kind \in {"pair", "login"}
      BY <2>2 DEF Begin, Asks
    <3>3. QED
      BY <3>1, <3>2 DEF Go, TypeOK
  <2>3. CASE ~Answer(a) /\ ~Begin(a)
    BY <2>3 DEF TypeOK, AskCode, Refuse, FailAddr, FailCode, Succeed, StoreFails, Go
  <2>4. QED
    BY <2>1, <2>2, <2>3
<1>4. \A b \in Requests, c \in Codes, n \in Issues : Pairs(b, c, n)' => Pairs(b, c, n)
  BY <1>2, <1>3 DEF Pairs
<1>5. QED
  BY <1>1, <1>4, NoNewPair

LEMMA RedeemKeepsRows ==
    ASSUME TypeOK, RowInv, NEW a \in Requests, Redeem(a)
    PROVE  RowInv'
<1> DEFINE c0 == req[a].code
           n0 == codes[c0].issued
           R  == [codes[c0] EXCEPT !.used = at[a]]
<1>1. pc[a] = "redeem" /\ c0 \in Codes /\ req[a].kind = "pair" /\ at[a] \in Times
  BY KeysTyped DEF Redeem, TypeOK
<1>2. codes[c0] # None /\ codes[c0].used = None
  BY DEF Redeem, Redeemable
<1>3. /\ codes' = [codes EXCEPT ![c0] = R] /\ issue' = [issue EXCEPT ![a] = n0]
      /\ pc' = [pc EXCEPT ![a] = "clear"]
      /\ issues' = issues /\ made' = made /\ req' = req
  BY DEF Redeem, Go, newVars
<1>4. codes[c0] \in [issued : Issues, expires : Nat, used : {None} \cup Times]
  BY <1>1, <1>2 DEF TypeOK
<1>5. n0 \in Issues /\ n0 <= issues
  BY <1>1, <1>2, <1>4 DEF RowInv, RowsNumbered
<1>6. at[a] # None
  BY <1>1, NoneAssumption DEF Times
<1>7. R # None /\ R.issued = n0 /\ R.used # None
  <2>1. R \in [issued : Nat, expires : Nat, used : Nat \cup {None}]
    BY <1>1, <1>4 DEF Times, Issues
  <2>2. QED
    BY <1>4, <1>6, <2>1, NoneAssumption
<1>8. codes'[c0] = R /\ \A c \in Codes \ {c0} : codes'[c] = codes[c]
  BY <1>1, <1>3 DEF TypeOK
<1>9. ~Taken(c0, n0)
  BY <1>1, <1>2, <1>5 DEF RowInv, TakenIsUsed
<1>10. /\ pc'[a] = "clear" /\ issue'[a] = n0
       /\ \A b \in Requests \ {a} : pc'[b] = pc[b] /\ issue'[b] = issue[b]
  BY <1>3 DEF TypeOK
<1>11. \A b \in Requests, c \in Codes, n \in Issues :
         Pairs(b, c, n)' => Pairs(b, c, n) \/ (b = a /\ c = c0 /\ n = n0)
  BY <1>3, <1>10 DEF Pairs
<1>12. \A c \in Codes, n \in Issues : Taken(c, n)' => Taken(c, n) \/ (c = c0 /\ n = n0)
  BY <1>3, <1>11 DEF Taken
<1>13. RowsNumbered'
  BY <1>3, <1>5, <1>7, <1>8 DEF RowInv, RowsNumbered
<1>14. TakenIsUsed'
  <2>1. ASSUME NEW c \in Codes, NEW n \in Issues, Taken(c, n)'
        PROVE  /\ n <= issues
               /\ codes'[c] # None /\ codes'[c].issued = n => codes'[c].used # None
    <3>1. CASE c = c0 /\ n = n0
      BY <1>5, <1>7, <1>8, <3>1
    <3>2. CASE Taken(c, n) /\ c = c0
      BY <1>2, <1>7, <1>8, <3>2 DEF RowInv, TakenIsUsed
    <3>3. CASE Taken(c, n) /\ c # c0
      BY <1>8, <3>3 DEF RowInv, TakenIsUsed
    <3>4. QED
      BY <1>12, <2>1, <3>1, <3>2, <3>3
  <2>2. QED
    BY <1>3, <2>1 DEF TakenIsUsed
<1>15. Alone'
  <2>1. Alone
    BY DEF RowInv
  <2>2. made[c0][n0] = 0
    <3>1. made[c0][n0] \in Nat
      <4>1. made \in [Codes -> [Issues -> Nat]]
        BY DEF TypeOK
      <4>2. \A n \in Issues : made[c0][n] \in Nat
        BY <1>1, <4>1
      <4>3. QED
        BY <1>5, <4>2
    <3>2. ~(made[c0][n0] > 0)
      BY <1>9 DEF Taken
    <3>3. QED
      BY <3>1, <3>2
  <2>3. \A b \in Requests : ~Pairs(b, c0, n0)
    BY <1>9 DEF Taken
  <2>4. QED
    BY <1>3, <1>11, <2>1, <2>2, <2>3 DEF Alone
<1>16. QED
  BY <1>13, <1>14, <1>15 DEF RowInv

LEMMA CreateKeepsRows ==
    ASSUME TypeOK, RowInv, NEW a \in Requests, CreateDevice(a)
    PROVE  RowInv'
<1> DEFINE c0 == req[a].code
           n0 == issue[a]
           M  == [made[c0] EXCEPT ![n0] = made[c0][n0] + 1]
<1>1. pc[a] = "create" /\ c0 \in Codes /\ req[a].kind = "pair" /\ n0 \in Issues
  BY KeysTyped DEF CreateDevice, TypeOK
<1>2. Pairs(a, c0, n0) /\ Taken(c0, n0)
  BY <1>1 DEF Pairs, Taken
<1>3. Alone
  BY DEF RowInv
<1>4. made[c0][n0] = 0 /\ \A b \in Requests : Pairs(b, c0, n0) => b = a
  BY <1>1, <1>2, <1>3 DEF Alone
<1>5. made' = [made EXCEPT ![c0] = M] /\ codes' = codes /\ issues' = issues
  BY DEF CreateDevice, newVars
<1>6. /\ \A c \in Codes \ {c0}, n \in Issues : made'[c][n] = made[c][n]
      /\ \A n \in Issues \ {n0} : made'[c0][n] = made[c0][n]
      /\ made'[c0][n0] = 1
  <2>1. made[c0] \in [Issues -> Nat] /\ made \in [Codes -> [Issues -> Nat]]
    BY <1>1 DEF TypeOK
  <2>2. M[n0] = 1 /\ \A n \in Issues \ {n0} : M[n] = made[c0][n]
    BY <1>1, <1>4, <2>1
  <2>3. QED
    BY <1>1, <1>5, <2>1, <2>2
<1>7. pc'[a] = "idle" /\ \A b \in Requests \ {a} : pc'[b] = pc[b] /\ req'[b] = req[b]
                                                   /\ issue'[b] = issue[b]
  BY DEF CreateDevice, Answer, Go, TypeOK
<1>8. \A b \in Requests, c \in Codes, n \in Issues :
        Pairs(b, c, n)' => b # a /\ Pairs(b, c, n)
  BY <1>7 DEF Pairs
<1>9. \A c \in Codes, n \in Issues : Taken(c, n)' => Taken(c, n)
  <2>1. ASSUME NEW c \in Codes, NEW n \in Issues, Taken(c, n)'
        PROVE  Taken(c, n)
    <3>1. CASE c = c0 /\ n = n0
      BY <1>2, <3>1
    <3>2. CASE ~(c = c0 /\ n = n0)
      BY <1>6, <1>8, <2>1, <3>2 DEF Taken
    <3>3. QED
      BY <3>1, <3>2
  <2>2. QED
    BY <2>1
<1>10. RowsNumbered' /\ TakenIsUsed'
  BY <1>5, <1>9 DEF RowInv, RowsNumbered, TakenIsUsed
<1>11. Alone'
  <2>1. ASSUME NEW c \in Codes, NEW n \in Issues
        PROVE  /\ made'[c][n] <= 1
               /\ \A b \in Requests : Pairs(b, c, n)' =>
                    made'[c][n] = 0 /\ \A d \in Requests : Pairs(d, c, n)' => d = b
    <3>1. CASE c = c0 /\ n = n0
      BY <1>4, <1>6, <1>8, <3>1
    <3>2. CASE ~(c = c0 /\ n = n0)
      BY <1>3, <1>6, <1>8, <3>2 DEF Alone
    <3>3. QED
      BY <3>1, <3>2
  <2>2. QED
    BY <2>1 DEF Alone
<1>12. QED
  BY <1>10, <1>11 DEF RowInv

(* A row that goes takes nothing with it, and a new one is another issue. *)
LEMMA MakingKeepsRows ==
    ASSUME TypeOK, RowInv, NEW w \in Issuers, Making(w)
    PROVE  RowInv'
<1>1. UNCHANGED <<made, pc, req, issue>>
  BY DEF Making, PairNew, Purge, Issue, reqVars
<1>2. \A b \in Requests, c \in Codes, n \in Issues :
        (Pairs(b, c, n)' <=> Pairs(b, c, n)) /\ (Taken(c, n)' <=> Taken(c, n))
  BY <1>1 DEF Pairs, Taken
<1>3. \A c \in Codes, n \in Issues : Taken(c, n)' <=> Taken(c, n)
  BY <1>1 DEF Pairs, Taken
<1>4. Alone'
  BY <1>1, <1>2 DEF RowInv, Alone
<1>5. CASE issues' = issues /\ \A c \in Codes : codes'[c] \in {None, codes[c]}
  <2>1. RowsNumbered'
    BY <1>5 DEF RowInv, RowsNumbered
  <2>2. TakenIsUsed'
    BY <1>3, <1>5 DEF RowInv, TakenIsUsed
  <2>3. QED
    BY <1>4, <2>1, <2>2 DEF RowInv
<1>6. CASE \E c0 \in Codes :
            /\ issues' = issues + 1 /\ codes'[c0].issued = issues'
            /\ \A c \in Codes \ {c0} : codes'[c] = codes[c]
  <2> PICK c0 \in Codes : /\ issues' = issues + 1 /\ codes'[c0].issued = issues'
                          /\ \A c \in Codes \ {c0} : codes'[c] = codes[c]
    BY <1>6
  <2>1. /\ issues \in Nat
        /\ \A c \in Codes : codes[c] # None => codes[c].issued \in Nat
    <3>1. codes \in [Codes -> {None} \cup [issued : Issues, expires : Nat,
                                           used : {None} \cup Times]]
      BY DEF TypeOK
    <3>2. Issues \subseteq Nat /\ issues \in Nat
      <4>1. issues \in 0..MaxIssues
        BY DEF TypeOK
      <4>2. QED
        BY <4>1, Numbers DEF Issues
    <3>3. ASSUME NEW c \in Codes, codes[c] # None PROVE codes[c].issued \in Nat
      <4>1. codes[c] \in [issued : Issues, expires : Nat, used : {None} \cup Times]
        BY <3>1, <3>3
      <4>2. QED
        BY <3>2, <4>1
    <3>4. QED
      BY <3>2, <3>3
  <2>2. RowsNumbered'
    BY <2>1 DEF RowInv, RowsNumbered
  <2>3. ASSUME NEW c \in Codes, NEW n \in Issues, Taken(c, n)
        PROVE  /\ n <= issues'
               /\ codes'[c] # None /\ codes'[c].issued = n => codes'[c].used # None
    <3>1. n <= issues /\ n \in Nat
      BY <2>3 DEF RowInv, TakenIsUsed, Issues
    <3>2. CASE c = c0
      BY <2>1, <3>1, <3>2
    <3>3. CASE c # c0
      BY <2>1, <2>3, <3>1, <3>3 DEF RowInv, TakenIsUsed
    <3>4. QED
      BY <3>2, <3>3
  <2>4. TakenIsUsed'
    BY <1>3, <2>3 DEF TakenIsUsed
  <2>5. QED
    BY <1>4, <2>2, <2>4 DEF RowInv
<1>7. codes \in [Codes -> {None} \cup [issued : Issues, expires : Nat,
                                       used : {None} \cup Times]]
  BY DEF TypeOK
<1>8. QED
  <2>1. CASE PairNew(w)
    BY <1>5, <2>1 DEF PairNew
  <2>2. CASE Purge(w)
    BY <1>5, <2>2 DEF Purge
  <2>3. CASE Issue(w)
    <3>1. CASE UNCHANGED <<codes, issues>>
      BY <1>5, <3>1
    <3>2. CASE ~UNCHANGED <<codes, issues>>
      <4>1. PICK c0 \in Codes :
              /\ issues' = issues + 1
              /\ codes' = [codes EXCEPT ![c0] = [issued |-> issues', used |-> None,
                                                 expires |-> making[w].t + PairCodeTTL]]
        BY <2>3, <3>2 DEF Issue
      <4>2. codes'[c0].issued = issues' /\ \A c \in Codes \ {c0} : codes'[c] = codes[c]
        BY <1>7, <4>1
      <4>3. QED
        BY <1>6, <4>1, <4>2
    <3>3. QED
      BY <3>1, <3>2
  <2>4. QED
    BY <2>1, <2>2, <2>3 DEF Making

LEMMA RestartKeepsRows ==
    ASSUME TypeOK, RowInv, Restart
    PROVE  RowInv'
<1>1. UNCHANGED <<codes, made, issues>> /\ \A b \in Requests : pc'[b] = "idle"
  BY DEF Restart
<1>2. \A b \in Requests, c \in Codes, n \in Issues : ~Pairs(b, c, n)'
  BY <1>1 DEF Pairs
<1>3. QED
  BY <1>1, <1>2, NoNewPair

-------------------------------------------------------------------------------
(* The locks. *)

LEMMA LocksTyped ==
    ASSUME TypeOK, NEW k \in Keys, ents[k] # None
    PROVE  ents[k].last \in Nat /\ ents[k].until \in Nat /\ ents[k].fails \in Nat
<1>1. ents \in [Keys -> {None} \cup [fails : 0..(LockoutAfter - 1), last : Times,
                                     until : 0..(MaxTime + LockoutFor)]]
  BY DEF TypeOK
<1>2. ents[k] \in [fails : 0..(LockoutAfter - 1), last : Times,
                   until : 0..(MaxTime + LockoutFor)]
  BY <1>1
<1>3. 0..(LockoutAfter - 1) \subseteq Nat /\ 0..(MaxTime + LockoutFor) \subseteq Nat
  BY Numbers
<1>4. QED
  BY <1>2, <1>3, TimesAreNat

(* A failure is dated now and never shortens a lock with time left. *)
LEMMA CountedDated ==
    ASSUME TypeOK, LocksDated, NEW k \in Keys
    PROVE  /\ Counted(k) # None /\ Counted(k).last = now
           /\ Counted(k).until <= now + LockoutFor
           /\ Locked(k) => Counted(k).until >= ents[k].until
<1> DEFINE E == Entry(k)
<1>1. now \in Nat
  BY TimesAreNat DEF TypeOK
<1>2. /\ E.fails \in Nat /\ E.until \in Nat
      /\ E.until <= now + LockoutFor
      /\ Locked(k) => E.until = ents[k].until
  <2>1. CASE ents[k] = None
    <3>1. E.fails = 0 /\ E.until = 0 /\ ~Locked(k)
      BY <2>1 DEF Entry, Locked
    <3>2. QED
      BY <1>1, <3>1, Numbers
  <2>2. CASE ents[k] # None
    <3>1. /\ ents[k].last \in Nat /\ ents[k].until \in Nat /\ ents[k].fails \in Nat
          /\ ents[k].last <= now /\ ents[k].until <= ents[k].last + LockoutFor
      BY <2>2, LocksTyped DEF LocksDated
    <3>2. CASE now > ents[k].last + LockoutFor
      <4>1. E.fails = 0 /\ E.until = 0
        BY <3>2 DEF Entry
      <4>2. ~Locked(k)
        BY <1>1, <3>1, <3>2, Numbers DEF Locked
      <4>3. QED
        BY <1>1, <4>1, <4>2, Numbers
    <3>3. CASE ~(now > ents[k].last + LockoutFor)
      <4>1. E = ents[k]
        BY <2>2, <3>3 DEF Entry
      <4>2. QED
        BY <1>1, <3>1, <4>1, Numbers
    <3>4. QED
      BY <3>2, <3>3
  <2>3. QED
    BY <2>1, <2>2
<1>3. Counted(k).last = now /\ (Counted(k).until = now + LockoutFor
                                 \/ Counted(k).until = E.until)
  BY DEF Counted
<1>4. Counted(k) # None
  <2>1. Counted(k) \in [fails : Nat, last : Nat, until : Nat]
    <3>1. Counted(k) = [fails |-> 0, last |-> now, until |-> now + LockoutFor]
            \/ Counted(k) = [fails |-> E.fails + 1, last |-> now, until |-> E.until]
      BY DEF Counted
    <3>2. now + LockoutFor \in Nat /\ E.fails + 1 \in Nat
      BY <1>1, <1>2, Numbers
    <3>3. QED
      BY <1>1, <1>2, <3>1, <3>2
  <2>2. QED
    BY <2>1, NoneAssumption
<1>5. QED
  BY <1>1, <1>2, <1>3, <1>4, Numbers

(* What the lockout's three sections and the clock do to the entries. *)
LEMMA SectionKeepsDates ==
    ASSUME TypeOK, LocksDated, NEW k \in Keys, Ask(k) \/ Fail(k) \/ Clear(k), now' = now
    PROVE  LocksDated'
<1>1. ents \in [Keys -> {None} \cup [fails : 0..(LockoutAfter - 1), last : Times,
                                     until : 0..(MaxTime + LockoutFor)]]
  BY DEF TypeOK
<1>2. ASSUME Ask(k) \/ Clear(k) PROVE LocksDated'
  BY <1>1, <1>2 DEF Ask, Clear, LocksDated
<1>3. ASSUME Fail(k) PROVE LocksDated'
  <2>1. ents' = [ents EXCEPT ![k] = Counted(k)]
    BY <1>3 DEF Fail
  <2>2. Counted(k).last = now /\ Counted(k).until <= now + LockoutFor
    BY CountedDated
  <2>3. now <= now
    <3>1. now \in Nat
      BY TimesAreNat DEF TypeOK
    <3>2. QED
      BY <3>1
  <2>4. ASSUME NEW l \in Keys, ents'[l] # None
        PROVE  ents'[l].last <= now /\ ents'[l].until <= ents'[l].last + LockoutFor
    <3>1. CASE l = k
      <4>1. ents'[l] = Counted(k)
        BY <1>1, <2>1, <3>1
      <4>2. QED
        BY <2>2, <2>3, <4>1
    <3>2. CASE l # k
      <4>1. ents'[l] = ents[l]
        BY <1>1, <2>1, <3>2
      <4>2. QED
        BY <2>4, <4>1 DEF LocksDated
    <3>3. QED
      BY <3>1, <3>2
  <2>5. QED
    BY <2>4 DEF LocksDated
<1>4. QED
  BY <1>2, <1>3

LEMMA TickKeepsDates ==
    ASSUME TypeOK, LocksDated, Tick
    PROVE  LocksDated'
<1>1. now \in Nat /\ now' = now + 1 /\ ents' = ents
  BY TimesAreNat DEF TypeOK, Tick, lockVars
<1>2. ASSUME NEW k \in Keys, ents[k] # None
      PROVE  ents[k].last <= now' /\ ents[k].until <= ents[k].last + LockoutFor
  <2>1. ents[k].last \in Nat /\ ents[k].last <= now
    BY <1>2, LocksTyped DEF LocksDated
  <2>2. ents[k].last <= now'
    BY <1>1, <2>1
  <2>3. QED
    BY <1>2, <2>2 DEF LocksDated
<1>3. QED
  BY <1>1, <1>2 DEF LocksDated

(* Which key a step of a request asks, fails or clears. *)
LEMMA StepSections ==
    ASSUME TypeOK, NEW a \in Requests, Step(a)
    PROVE  \/ \E k \in Keys : Ask(k) \/ Fail(k) \/ (Clear(k) /\ pc[a] = "clear" /\ k = OwnKey(a))
           \/ UNCHANGED lockVars
<1>1. CASE Begin(a)
  <2>1. PICK q \in Asks : Ask(KeyOf(q))
    BY <1>1 DEF Begin
  <2>2. KeyOf(q) \in Keys
    BY DEF Asks, KeyOf, Keys, LoginKey, AddrKey
  <2>3. QED
    BY <2>1, <2>2
<1>2. CASE AskCode(a) \/ FailCode(a)
  <2>1. pc[a] \in {"ask code", "fail code"}
    BY <1>2 DEF AskCode, FailCode
  <2>2. OwnCode(a) \in Keys
    BY <2>1, KeysTyped DEF TypeOK
  <2>3. QED
    BY <1>2, <2>2 DEF AskCode, FailCode
<1>3. CASE FailAddr(a) \/ Succeed(a)
  <2>1. pc[a] \in {"fail", "clear"}
    BY <1>3 DEF FailAddr, Succeed
  <2>2. OwnKey(a) \in Keys
    BY <2>1, KeysTyped
  <2>3. QED
    BY <1>3, <2>2 DEF FailAddr, Succeed
<1>4. CASE Redeem(a) \/ Refuse(a) \/ CreateDevice(a) \/ StoreFails(a)
  BY <1>4 DEF Redeem, Refuse, CreateDevice, StoreFails
<1>5. QED
  BY <1>1, <1>2, <1>3, <1>4 DEF Step

-------------------------------------------------------------------------------
(* The theorems. *)

LEMMA InitIInv == Init => IInv
<1> SUFFICES ASSUME Init PROVE IInv
  OBVIOUS
<1>1. 0 \in Times /\ 0 \in Nat /\ 0 \in 0..MaxAsks /\ 0 \in 0..MaxIssues
  BY Numbers DEF Times
<1>2. /\ [n \in Issues |-> 0] \in [Issues -> Nat] /\ <<>> \in Seq(Times)
      /\ \A n \in Issues : [m \in Issues |-> 0][n] = 0
  OBVIOUS
<1>3. TypeOK
  BY <1>1, <1>2 DEF Init, TypeOK
<1>4. RowsNumbered /\ LocksDated
  BY DEF Init, RowsNumbered, LocksDated
<1>5. \A c \in Codes, n \in Issues : made[c][n] = 0 /\ \A a \in Requests : ~Pairs(a, c, n)
  BY <1>2 DEF Init, Pairs
<1>6. TakenIsUsed /\ Alone
  BY <1>5 DEF TakenIsUsed, Taken, Alone
<1>7. QED
  BY <1>3, <1>4, <1>6 DEF IInv, RowInv

LEMMA NextIInv == IInv /\ [Next]_vars => IInv'
<1> SUFFICES ASSUME IInv, [Next]_vars PROVE IInv'
  OBVIOUS
<1>0. TypeOK /\ RowInv /\ LocksDated
  BY DEF IInv
<1>1. TypeOK'
  BY <1>0, NextTypeOK
<1>2. ASSUME NEW a \in Requests, Step(a) PROVE RowInv' /\ LocksDated'
  <2>1. RowInv'
    BY <1>0, <1>2, QuietKeepsRows, RedeemKeepsRows, CreateKeepsRows DEF Step
  <2>2. now' = now
    BY <1>2 DEF Step, Begin, AskCode, Redeem, Refuse, FailAddr, FailCode, Succeed,
                CreateDevice, StoreFails
  <2>3. LocksDated'
    <3>1. CASE ents' = ents
      BY <1>0, <2>2, <3>1 DEF LocksDated
    <3>2. QED
      BY <1>0, <1>2, <2>2, <3>1, StepSections, SectionKeepsDates DEF lockVars
  <2>4. QED
    BY <2>1, <2>3
<1>3. ASSUME NEW w \in Issuers, Making(w) PROVE RowInv' /\ LocksDated'
  <2>1. LocksDated'
    BY <1>0, <1>3 DEF Making, PairNew, Purge, Issue, lockVars, LocksDated
  <2>2. QED
    BY <1>0, <1>3, <2>1, MakingKeepsRows
<1>4. CASE Tick
  <2>1. UNCHANGED <<codes, made, issues, pc, req, issue>>
    BY <1>4 DEF Tick, newVars, reqVars
  <2>2. RowInv'
    BY <1>0, <2>1, NoNewPair DEF Pairs
  <2>3. QED
    BY <1>0, <1>1, <1>4, <2>2, TickKeepsDates DEF IInv
<1>5. CASE Restart
  <2>1. LocksDated'
    BY <1>5 DEF Restart, LocksDated
  <2>2. QED
    BY <1>0, <1>1, <1>5, <2>1, RestartKeepsRows DEF IInv
<1>6. CASE UNCHANGED vars
  <2>1. UNCHANGED <<now, codes, made, issues, ents, pc, req, issue>>
    BY <1>6 DEF vars, lockVars, reqVars, newVars
  <2>2. RowInv'
    BY <1>0, <2>1, NoNewPair DEF Pairs
  <2>3. LocksDated'
    BY <1>0, <2>1 DEF LocksDated
  <2>4. QED
    BY <1>1, <2>2, <2>3 DEF IInv
<1>7. QED
  BY <1>1, <1>2, <1>3, <1>4, <1>5, <1>6 DEF Next, IInv

THEOREM Invariant == Spec => []IInv
  BY InitIInv, NextIInv, PTL DEF Spec

(* Every variable stays in its set, and a request that pairs has redeemed a    *)
(* code.                                                                      *)
THEOREM TypeCorrect == Spec => []TypeOK
<1>1. IInv => TypeOK
  BY DEF IInv
<1>2. QED
  BY <1>1, Invariant, PTL

(* RedeemPairCode's single UPDATE lets no two requests pair a device by the    *)
(* same issue of a code, however often its row is purged and issued again.     *)
THEOREM CodesPairOnce == Spec => []OneDevicePerCode
<1>1. IInv => OneDevicePerCode
  BY AloneIsOne DEF IInv, RowInv
<1>2. QED
  BY <1>1, Invariant, PTL

(* Nothing but a success of its own address or a restart ends a lock before    *)
(* its time.                                                                  *)
THEOREM LocksLast == Spec => LockIsKept
<1> DEFINE Held ==
      \A k \in Keys : Locked(k) =>
        \/ ents'[k] # None /\ ents'[k].until >= ents[k].until
        \/ Restart
        \/ \E a \in Requests : pc[a] = "clear" /\ k = OwnKey(a)
<1>1. IInv /\ [Next]_vars => [Held]_vars
  <2> SUFFICES ASSUME IInv, Next, NEW k \in Keys, Locked(k), ~Restart,
                      ~ \E a \in Requests : pc[a] = "clear" /\ k = OwnKey(a)
               PROVE  ents'[k] # None /\ ents'[k].until >= ents[k].until
    OBVIOUS
  <2>0. TypeOK /\ LocksDated
    BY DEF IInv
  <2>1. ents[k] # None /\ ents[k].until >= ents[k].until
    BY <2>0, LocksTyped DEF Locked
  <2>2. CASE ents' = ents
    BY <2>1, <2>2
  <2>3. ASSUME NEW l \in Keys, Ask(l) \/ Fail(l) \/ (Clear(l) /\ l # k)
        PROVE  ents'[k] # None /\ ents'[k].until >= ents[k].until
    <3>0. ents \in [Keys -> {None} \cup [fails : 0..(LockoutAfter - 1), last : Times,
                                         until : 0..(MaxTime + LockoutFor)]]
      BY <2>0 DEF TypeOK
    <3>1. CASE l # k
      <4>1. ents'[k] = ents[k]
        BY <2>3, <3>0, <3>1 DEF Ask, Fail, Clear
      <4>2. QED
        BY <2>1, <4>1
    <3>2. CASE l = k /\ Ask(l)
      BY <2>1, <3>2 DEF Ask, Outlived
    <3>3. CASE l = k /\ Fail(l)
      <4>1. ents'[k] = Counted(k)
        BY <3>0, <3>3 DEF Fail
      <4>2. QED
        BY <2>0, <4>1, CountedDated
    <3>4. QED
      BY <2>3, <3>1, <3>2, <3>3
  <2>4. ASSUME NEW a \in Requests, Step(a)
        PROVE  ents'[k] # None /\ ents'[k].until >= ents[k].until
    BY <2>0, <2>2, <2>3, <2>4, StepSections DEF lockVars
  <2>5. CASE Tick \/ \E w \in Issuers : Making(w)
    BY <2>2, <2>5 DEF Making, PairNew, Purge, Issue, Tick, lockVars
  <2>6. QED
    BY <2>4, <2>5 DEF Next
<1>2. QED
  BY <1>1, Invariant, PTL DEF Spec, LockIsKept

-------------------------------------------------------------------------------
(* The failures recorded.  Every one but the last ents[k].fails is past: it  *)
(* is more than LockoutFor old, or the lock lasts until it will be.           *)

TallyDated ==
    \A k \in Keys : \A i \in 1..Len(tally[k]) :
        /\ tally[k][i] <= now
        /\ ents[k] # None => tally[k][i] <= ents[k].last

Passed(k, i) ==
    \/ tally[k][i] + LockoutFor < now
    \/ ents[k] # None /\ tally[k][i] + LockoutFor <= ents[k].until

TallyPassed ==
    \A k \in Keys : \A i \in 1..Len(tally[k]) :
        ents[k] = None \/ i + ents[k].fails <= Len(tally[k]) => Passed(k, i)

Tallied == TallyDated /\ TallyPassed

LEMMA TallyTyped ==
    ASSUME TypeOK, NEW k \in Keys
    PROVE  /\ tally[k] \in Seq(Times) /\ Len(tally[k]) \in Nat
           /\ \A i \in 1..Len(tally[k]) : tally[k][i] \in Nat
<1>1. tally[k] \in Seq(Times)
  BY DEF TypeOK
<1>2. Len(tally[k]) \in Nat /\ \A i \in 1..Len(tally[k]) : tally[k][i] \in Times
  BY <1>1
<1>3. QED
  BY <1>1, <1>2, TimesAreNat

(* A section of the lockout for one key leaves the others alone. *)
LEMMA OthersTallied ==
    ASSUME Tallied, NEW k \in Keys, now' = now,
           ents'[k] = ents[k] /\ tally'[k] = tally[k]
    PROVE  \A i \in 1..Len(tally'[k]) :
              /\ tally'[k][i] <= now' /\ (ents'[k] # None => tally'[k][i] <= ents'[k].last)
              /\ ents'[k] = None \/ i + ents'[k].fails <= Len(tally'[k]) => Passed(k, i)'
  BY DEF Tallied, TallyDated, TallyPassed, Passed

LEMMA AskKeepsTallies ==
    ASSUME TypeOK, LocksDated, Tallied, NEW l \in Keys, Ask(l), now' = now
    PROVE  Tallied'
<1>1. tally' = tally /\ \A k \in Keys : ents'[k] = ents[k] \/ (ents'[k] = None /\ Outlived(k))
  BY DEF Ask, TypeOK
<1>2. SUFFICES ASSUME NEW k \in Keys, NEW i \in 1..Len(tally[k])
               PROVE  /\ tally[k][i] <= now
                      /\ ents'[k] # None => tally[k][i] <= ents'[k].last
                      /\ ents'[k] = None \/ i + ents'[k].fails <= Len(tally[k]) => Passed(k, i)'
  BY <1>1 DEF Tallied, TallyDated, TallyPassed
<1>3. CASE ents'[k] = ents[k]
  BY <1>1, <1>3, OthersTallied
<1>4. CASE ents'[k] = None /\ Outlived(k)
  <2>1. /\ ents[k] # None /\ now > ents[k].last + LockoutFor /\ ents[k].last \in Nat
        /\ tally[k][i] <= ents[k].last /\ tally[k][i] <= now
    BY <1>4, LocksTyped DEF Outlived, Tallied, TallyDated
  <2>2. tally[k][i] \in Nat /\ now \in Nat
    BY TallyTyped, TimesAreNat DEF TypeOK
  <2>3. tally[k][i] + LockoutFor < now
    BY <2>1, <2>2, Numbers
  <2>4. QED
    BY <1>1, <1>4, <2>1, <2>3 DEF Passed
<1>5. QED
  BY <1>1, <1>3, <1>4

(* What is past stays so when the count restarts, and one failure counted is  *)
(* one failure more at the end.                                               *)
LEMMA FailKeepsTally ==
    ASSUME TypeOK, LocksDated, Tallied, NEW k \in Keys, NEW r, r = Latest(Append(tally[k], now)),
           NEW i \in 1..Len(r)
    PROVE  /\ r[i] <= now
           /\ i + Counted(k).fails <= Len(r) =>
                r[i] + LockoutFor < now \/ r[i] + LockoutFor <= Counted(k).until
<1> DEFINE s == tally[k]
           E == Entry(k)
<1>1. /\ now \in Nat /\ now \in Times /\ s \in Seq(Times) /\ Len(s) \in Nat
      /\ \A j \in 1..Len(s) : s[j] \in Nat /\ s[j] <= now
  BY TallyTyped, TimesAreNat DEF TypeOK, Tallied, TallyDated
<1>2. PICK d \in {0, 1} :
         /\ Len(r) = Len(s) + 1 - d
         /\ \A j \in 1..Len(r) :
              IF j = Len(r) THEN r[j] = now ELSE j + d \in 1..Len(s) /\ r[j] = s[j + d]
  <2>1. r = Latest(Append(s, now))
    OBVIOUS
  <2> HIDE DEF s
  <2>2. QED
    BY <1>1, <2>1, LatestShifts
<1>3. i \in Nat /\ r[i] \in Nat /\ r[i] <= now
  BY <1>1, <1>2
<1>4. CASE E.fails + 1 >= LockoutAfter
  <2>1. Counted(k).until = now + LockoutFor
    BY <1>4 DEF Counted
  <2>2. QED
    BY <1>1, <1>3, <2>1, Numbers
<1>5. CASE ~(E.fails + 1 >= LockoutAfter)
  <2>1. Counted(k).fails = E.fails + 1 /\ Counted(k).until = E.until
    BY <1>5 DEF Counted
  <2> SUFFICES ASSUME i + Counted(k).fails <= Len(r)
               PROVE  r[i] + LockoutFor < now \/ r[i] + LockoutFor <= E.until
    BY <1>3, <2>1
  <2>2. CASE ents[k] = None \/ now > ents[k].last + LockoutFor
    <3>1. E.fails = 0 /\ E.until = 0
      BY <2>2 DEF Entry
    <3>a. i # Len(r)
      BY <1>1, <1>2, <1>3, <2>1, <3>1
    <3>2. i + d \in 1..Len(s) /\ r[i] = s[i + d]
      BY <1>2, <3>a
    <3>3. s[i + d] + LockoutFor < now
      <4>1. CASE ents[k] = None
        BY <3>2, <4>1 DEF Tallied, TallyPassed, Passed
      <4>2. CASE ents[k] # None /\ now > ents[k].last + LockoutFor
        <5>1. s[i + d] <= ents[k].last /\ ents[k].last \in Nat
          BY <3>2, <4>2, LocksTyped DEF Tallied, TallyDated
        <5>2. QED
          BY <1>1, <3>2, <4>2, <5>1, Numbers
      <4>3. QED
        BY <2>2, <4>1, <4>2
    <3>4. QED
      BY <3>2, <3>3
  <2>3. CASE ents[k] # None /\ ~(now > ents[k].last + LockoutFor)
    <3>1. E = ents[k] /\ ents[k].fails \in Nat
      BY <2>3, LocksTyped DEF Entry
    <3>2. i # Len(r)
      BY <1>1, <1>2, <1>3, <2>1, <3>1
    <3>3. i + d \in 1..Len(s) /\ r[i] = s[i + d]
      BY <1>2, <3>2
    <3>4. (i + d) + ents[k].fails <= Len(s)
      BY <1>1, <1>2, <1>3, <2>1, <3>1
    <3>5. Passed(k, i + d)
      BY <3>3, <3>4 DEF Tallied, TallyPassed
    <3>6. QED
      BY <3>1, <3>3, <3>5 DEF Passed
  <2>4. QED
    BY <2>2, <2>3
<1>6. QED
  BY <1>3, <1>4, <1>5

LEMMA FailKeepsTallies ==
    ASSUME TypeOK, LocksDated, Tallied, NEW l \in Keys, Fail(l), now' = now
    PROVE  Tallied'
<1>1. /\ ents'[l] = Counted(l) /\ tally'[l] = Latest(Append(tally[l], now))
      /\ \A k \in Keys \ {l} : ents'[k] = ents[k] /\ tally'[k] = tally[k]
  BY DEF Fail, TypeOK
<1>2. SUFFICES ASSUME NEW k \in Keys, NEW i \in 1..Len(tally'[k])
               PROVE  /\ tally'[k][i] <= now /\ (ents'[k] # None => tally'[k][i] <= ents'[k].last)
                      /\ ents'[k] = None \/ i + ents'[k].fails <= Len(tally'[k]) => Passed(k, i)'
  BY DEF Tallied, TallyDated, TallyPassed
<1>3. CASE k # l
  BY <1>1, <1>3, OthersTallied
<1>4. CASE k = l
  <2>1. Counted(k) # None /\ Counted(k).last = now
    BY CountedDated
  <2>2. /\ tally'[k][i] <= now
        /\ i + Counted(k).fails <= Len(tally'[k]) =>
             tally'[k][i] + LockoutFor < now \/ tally'[k][i] + LockoutFor <= Counted(k).until
    BY <1>1, <1>4, FailKeepsTally
  <2>3. QED
    BY <1>1, <1>4, <2>1, <2>2 DEF Passed
<1>5. QED
  BY <1>3, <1>4

LEMMA ClearKeepsTallies ==
    ASSUME TypeOK, Tallied, NEW l \in Keys, Clear(l), now' = now
    PROVE  Tallied'
<1>1. /\ Len(tally'[l]) = 0
      /\ \A k \in Keys \ {l} : ents'[k] = ents[k] /\ tally'[k] = tally[k]
  BY DEF Clear, TypeOK
<1>2. SUFFICES ASSUME NEW k \in Keys, NEW i \in 1..Len(tally'[k])
               PROVE  /\ tally'[k][i] <= now /\ (ents'[k] # None => tally'[k][i] <= ents'[k].last)
                      /\ ents'[k] = None \/ i + ents'[k].fails <= Len(tally'[k]) => Passed(k, i)'
  BY DEF Tallied, TallyDated, TallyPassed
<1>3. k # l
  BY <1>1
<1>4. QED
  BY <1>1, <1>3, OthersTallied

LEMMA TickKeepsTallies ==
    ASSUME TypeOK, Tallied, Tick
    PROVE  Tallied'
<1>1. now \in Nat /\ now' = now + 1 /\ ents' = ents /\ tally' = tally
  BY TimesAreNat DEF TypeOK, Tick, lockVars
<1>2. ASSUME NEW t \in Nat
      PROVE  (t <= now => t <= now') /\ (t + LockoutFor < now => t + LockoutFor < (now'))
  BY <1>1, Numbers
<1>3. \A k \in Keys : \A i \in 1..Len(tally[k]) : tally[k][i] \in Nat
  BY TallyTyped
<1>4. TallyDated'
  BY <1>1, <1>2, <1>3 DEF Tallied, TallyDated
<1>5. \A k \in Keys : \A i \in 1..Len(tally[k]) : Passed(k, i) => Passed(k, i)'
  BY <1>1, <1>2, <1>3 DEF Passed
<1>6. TallyPassed'
  BY <1>1, <1>5 DEF Tallied, TallyPassed
<1>7. QED
  BY <1>4, <1>6 DEF Tallied

LEMMA NextTallied == IInv /\ Tallied /\ [Next]_vars => Tallied'
<1> SUFFICES ASSUME IInv, Tallied, [Next]_vars PROVE Tallied'
  OBVIOUS
<1>0. TypeOK /\ LocksDated
  BY DEF IInv
<1>1. ASSUME UNCHANGED <<now, lockVars>> PROVE Tallied'
  BY <1>1 DEF lockVars, Tallied, TallyDated, TallyPassed, Passed
<1>2. ASSUME NEW a \in Requests, Step(a) PROVE Tallied'
  <2>1. now' = now
    BY <1>2 DEF Step, Begin, AskCode, Redeem, Refuse, FailAddr, FailCode, Succeed,
                CreateDevice, StoreFails
  <2>2. QED
    BY <1>0, <1>1, <1>2, <2>1, StepSections, AskKeepsTallies, FailKeepsTallies,
       ClearKeepsTallies
<1>3. ASSUME NEW w \in Issuers, Making(w) PROVE Tallied'
  BY <1>1, <1>3 DEF Making, PairNew, Purge, Issue
<1>4. CASE Tick
  BY <1>0, <1>4, TickKeepsTallies
<1>5. CASE Restart
  <2>1. \A k \in Keys : Len(tally'[k]) = 0
    BY <1>5 DEF Restart
  <2>2. QED
    BY <2>1 DEF Tallied, TallyDated, TallyPassed
<1>6. CASE UNCHANGED vars
  BY <1>1, <1>6 DEF vars
<1>7. QED
  BY <1>2, <1>3, <1>4, <1>5, <1>6 DEF Next

(* However requests overlap, LockoutAfter failures counted on a key within   *)
(* LockoutFor leave it locked: no restart of the count and no forgetting of  *)
(* an entry loses a recent failure (lockout.fail, lockout.locked).            *)
THEOREM FailuresLock == Spec => []RecentFailuresLock
<1>1. Init => Tallied
  <2> SUFFICES ASSUME Init PROVE Tallied
    OBVIOUS
  <2>1. \A k \in Keys : Len(tally[k]) = 0
    BY DEF Init
  <2>2. QED
    BY <2>1 DEF Tallied, TallyDated, TallyPassed
<1>2. IInv /\ Tallied => RecentFailuresLock
  <2> SUFFICES ASSUME IInv, Tallied, NEW k \in Keys, Len(tally[k]) = LockoutAfter,
                      \A i \in 1..LockoutAfter : Recent(tally[k][i])
               PROVE  Locked(k)
    BY DEF RecentFailuresLock
  <2>0. TypeOK /\ 1 \in 1..LockoutAfter
    BY Numbers DEF IInv
  <2>1. tally[k][1] \in Nat /\ now \in Nat /\ tally[k][1] + LockoutFor > now
    BY <2>0, TallyTyped, TimesAreNat DEF TypeOK, Recent
  <2>2. ents[k] = None \/ 1 + ents[k].fails <= LockoutAfter
    <3>1. ents[k] # None => ents[k].fails \in 0..(LockoutAfter - 1)
      BY <2>0 DEF TypeOK
    <3>2. QED
      BY <3>1, Numbers
  <2>3. Passed(k, 1)
    BY <2>0, <2>2 DEF Tallied, TallyPassed
  <2>4. /\ ents[k] # None /\ tally[k][1] + LockoutFor <= ents[k].until
        /\ ents[k].until \in Nat
    BY <2>0, <2>1, <2>3, LocksTyped, Numbers DEF Passed
  <2>5. QED
    BY <2>1, <2>4, Numbers DEF Locked
<1>3. QED
  BY <1>1, <1>2, NextTallied, Invariant, PTL DEF Spec
===============================================================================
