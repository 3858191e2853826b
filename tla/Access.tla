-------------------------------- MODULE Access --------------------------------
(***************************************************************************)
(* Logging in, pairing a device by a one-time code, and the lockout both are  *)
(* counted by (internal/relay/api.go, auth.go, store/store.go).  Requests run  *)
(* concurrently.  Each takes the lockout's mutex anew to ask whether a key is  *)
(* locked, to record a failure and to clear the key, and the database is       *)
(* asked in between; the lockout is lost when the relay restarts, the         *)
(* database is not.  Cookies and the table of devices are left out, the        *)
(* latter being DeviceHub's.                                                  *)
(***************************************************************************)
EXTENDS Naturals, Sequences

CONSTANTS
    Requests,       \* requests that can be under way at once
    Issuers,        \* and consoles that ask for a new code
    Addrs,          \* client addresses
    Codes,          \* normalised pairing codes
    Malformed,      \* the texts among them that are not eight characters long
    LockoutAfter, LockoutFor, PairCodeTTL, PurgeAfter,
    MaxTime,        \* bound on the clock
    MaxAsks,        \* bound on the requests that get past the first check
    MaxIssues,      \* bound on the codes issued
    None

ASSUME CodesAssumption == Malformed \subseteq Codes
ASSUME TimesAssumption ==
    {LockoutAfter, LockoutFor, PairCodeTTL, PurgeAfter} \subseteq Nat \ {0}
ASSUME BoundsAssumption == {MaxTime, MaxAsks, MaxIssues} \subseteq Nat
ASSUME NoneAssumption ==
    /\ None \notin Nat \cup Codes
    /\ None \notin [fails : Nat, last : Nat, until : Nat]
    /\ None \notin [issued : Nat, expires : Nat, used : Nat \cup {None}]
    /\ None \notin [t : Nat, step : {"purge", "insert"}]
    /\ None \notin [kind : {"login", "pair"}, addr : Addrs, code : Codes \cup {None}]

VARIABLES
    now,            \* the clock
    ents,           \* lockout.ents: failures, the last one's time, lockedUntil
    codes,          \* pair_codes: its number among those issued, which no code
                    \* reads, when it expires, when it was redeemed
    issues,         \* how many were issued
    making,         \* where an issuer is, and the `now` it read
    made,           \* devices rows, by the code and issue they were paired with
    pc, req,        \* where a request is, and what it asks for
    asked,          \* how many requests there were
    at, issue,      \* the `now` it read, and the issue it redeemed
    tally           \* when the last LockoutAfter failures were counted on a key,
                    \* since it was cleared

reqVars == <<pc, req, at, issue, asked>>
lockVars == <<ents, tally>>
newVars == <<issues, making>>
vars == <<now, lockVars, codes, made, newVars, reqVars>>

Times == 0..MaxTime
Issues == 1..MaxIssues
Asks == [kind : {"login"}, addr : Addrs, code : {None}]
            \cup [kind : {"pair"}, addr : Addrs, code : Codes]
LoginKey(i) == <<"login", i>>
AddrKey(i) == <<"pair:ip", i>>
CodeKey(c) == <<"pair:code", c>>
Keys == {LoginKey(i) : i \in Addrs} \cup {AddrKey(i) : i \in Addrs}
            \cup {CodeKey(c) : c \in Codes}
KeyOf(q) == IF q.kind = "login" THEN LoginKey(q.addr) ELSE AddrKey(q.addr)
OwnKey(a) == KeyOf(req[a])
OwnCode(a) == CodeKey(req[a].code)

Init ==
    /\ now = 0
    /\ ents = [k \in Keys |-> None] /\ tally = [k \in Keys |-> <<>>]
    /\ codes = [c \in Codes |-> None] /\ issues = 0
    /\ making = [w \in Issuers |-> None]
    /\ made = [c \in Codes |-> [n \in Issues |-> 0]]
    /\ pc = [a \in Requests |-> "idle"] /\ asked = 0
    /\ req = [a \in Requests |-> None]
    /\ at = [a \in Requests |-> 0] /\ issue = [a \in Requests |-> None]

Go(a, where) == pc' = [pc EXCEPT ![a] = where]
Answer(a) ==
    /\ Go(a, "idle")
    /\ req' = [req EXCEPT ![a] = None]
    /\ at' = [at EXCEPT ![a] = 0] /\ issue' = [issue EXCEPT ![a] = None]
    /\ UNCHANGED asked

-------------------------------------------------------------------------------
(* The lockout *)

Locked(k) == ents[k] # None /\ now < ents[k].until

Outlived_Unlocked(k) == ~Locked(k)      \* mutant: every expired lock is forgotten
Outlived(k) == ents[k] # None /\ ~Locked(k) /\ now > ents[k].last + LockoutFor

(* locked: asking forgets an entry whose failures are long past. *)
Ask(k) ==
    /\ ents' = IF Outlived(k) THEN [ents EXCEPT ![k] = None] ELSE ents
    /\ UNCHANGED tally

Entry(k) ==
    IF ents[k] = None \/ now > ents[k].last + LockoutFor
    THEN [fails |-> 0, last |-> 0, until |-> 0] ELSE ents[k]

Counted_Anew(k) ==                      \* mutant: a failure writes a new entry
    LET n == Entry(k).fails + 1 IN
    IF n >= LockoutAfter THEN [fails |-> 0, last |-> now, until |-> now + LockoutFor]
    ELSE [fails |-> n, last |-> now, until |-> 0]
Counted(k) ==
    LET n == Entry(k).fails + 1 IN
    IF n >= LockoutAfter THEN [fails |-> 0, last |-> now, until |-> now + LockoutFor]
    ELSE [fails |-> n, last |-> now, until |-> Entry(k).until]

Latest(s) == IF Len(s) > LockoutAfter THEN Tail(s) ELSE s

(* fail *)
Fail(k) ==
    /\ ents' = [ents EXCEPT ![k] = Counted(k)]
    /\ tally' = [tally EXCEPT ![k] = Latest(Append(@, now))]

(* reset *)
Clear(k) ==
    /\ ents' = [ents EXCEPT ![k] = None]
    /\ tally' = [tally EXCEPT ![k] = <<>>]

-------------------------------------------------------------------------------
(* A request: handleLogin and handlePairRedeem *)

(* A request arrives and asks for its address's key; passwordOK then says     *)
(* either.                                                                    *)
Begin(a) ==
    \E q \in Asks :
        /\ pc[a] = "idle" /\ asked < MaxAsks
        /\ Ask(KeyOf(q))
        /\ IF Locked(KeyOf(q)) THEN UNCHANGED <<pc, req, asked>>
           ELSE /\ req' = [req EXCEPT ![a] = q] /\ asked' = asked + 1
                /\ \E next \in IF q.kind = "pair" THEN {"ask code"}
                               ELSE {"clear", "fail"} : Go(a, next)
        /\ UNCHANGED <<now, codes, made, newVars, at, issue>>

(* now := s.now() is read here, before the database is asked. *)
AskCode(a) ==
    /\ pc[a] = "ask code" /\ Ask(OwnCode(a))
    /\ \/ Locked(OwnCode(a)) /\ Answer(a)
       \/ /\ ~Locked(OwnCode(a))
          /\ Go(a, "redeem") /\ at' = [at EXCEPT ![a] = now]
          /\ UNCHANGED <<req, issue, asked>>
    /\ UNCHANGED <<now, codes, made, newVars>>

(* The database compares times as texts.  A fraction is written without its    *)
(* trailing zeros, so a whole second is sorted after the fractions that follow *)
(* it: here a second is two units of the clock.                                *)
Sooner(t, u) == t \div 2 < u \div 2 \/ (t \div 2 = u \div 2 /\ t % 2 > u % 2)

Redeemable_Used(c, t) ==                \* mutant: used_at is not asked for
    c \notin Malformed /\ codes[c] # None /\ Sooner(t, codes[c].expires)
Redeemable(c, t) ==
    /\ c \notin Malformed
    /\ codes[c] # None /\ codes[c].used = None /\ Sooner(t, codes[c].expires)

(* RedeemPairCode: one UPDATE marks the code or finds no such row. *)
Redeem(a) ==
    LET c == req[a].code IN
    /\ pc[a] = "redeem" /\ Redeemable(c, at[a])
    /\ codes' = [codes EXCEPT ![c].used = at[a]]
    /\ issue' = [issue EXCEPT ![a] = codes[c].issued]
    /\ Go(a, "clear")
    /\ UNCHANGED <<now, lockVars, made, newVars, req, at, asked>>

Refuse(a) ==
    /\ pc[a] = "redeem" /\ ~Redeemable(req[a].code, at[a]) /\ Go(a, "fail")
    /\ UNCHANGED <<now, lockVars, codes, made, newVars, req, at, issue, asked>>

(* A failure is counted for the address and, in a section of its own and      *)
(* whatever the first one did, for the code.                                   *)
FailAddr(a) ==
    /\ pc[a] = "fail" /\ Fail(OwnKey(a))
    /\ \/ req[a].kind = "login" /\ Answer(a)
       \/ req[a].kind = "pair" /\ Go(a, "fail code") /\ UNCHANGED <<req, at, issue, asked>>
    /\ UNCHANGED <<now, codes, made, newVars>>

FailCode(a) ==
    /\ pc[a] = "fail code" /\ Fail(OwnCode(a)) /\ Answer(a)
    /\ UNCHANGED <<now, codes, made, newVars>>

(* Success clears the address's key and leaves the code's alone. *)
Succeed(a) ==
    /\ pc[a] = "clear" /\ Clear(OwnKey(a))
    /\ \/ req[a].kind = "login" /\ Answer(a)
       \/ req[a].kind = "pair" /\ Go(a, "create") /\ UNCHANGED <<req, at, issue, asked>>
    /\ UNCHANGED <<now, codes, made, newVars>>

CreateDevice(a) ==
    /\ pc[a] = "create"
    /\ made' = [made EXCEPT ![req[a].code][issue[a]] = @ + 1]
    /\ Answer(a)
    /\ UNCHANGED <<now, lockVars, codes, newVars>>

(* The database fails: the request ends with an error and counts nowhere; a   *)
(* code already redeemed stays so.                                             *)
StoreFails(a) ==
    /\ pc[a] \in {"create"} \cup (IF req[a] # None /\ req[a].code \in Malformed
                                  THEN {} ELSE {"redeem"})
    /\ Answer(a)
    /\ UNCHANGED <<now, lockVars, codes, made, newVars>>

-------------------------------------------------------------------------------
(* handlePairNew: now := s.now() is read once for what follows.                *)
PairNew(w) ==
    /\ making[w] = None /\ issues < MaxIssues
    /\ making' = [making EXCEPT ![w] = [t |-> now, step |-> "purge"]]
    /\ UNCHANGED <<now, lockVars, codes, made, issues, reqVars>>

LongExpired(c, t) ==
    codes[c] # None /\ t >= PurgeAfter /\ Sooner(codes[c].expires, t - PurgeAfter)

(* PurgePairCodes, whose error is ignored. *)
Purge(w) ==
    /\ making[w] # None /\ making[w].step = "purge"
    /\ making' = [making EXCEPT ![w].step = "insert"]
    /\ \/ codes' = [c \in Codes |-> IF LongExpired(c, making[w].t) THEN None ELSE codes[c]]
       \/ UNCHANGED codes
    /\ UNCHANGED <<now, lockVars, made, issues, reqVars>>

(* CreatePairCode, with another code when the table has it already; the         *)
(* database or the fifth draw may fail.                                        *)
Issue(w) ==
    /\ making[w] # None /\ making[w].step = "insert"
    /\ making' = [making EXCEPT ![w] = None]
    /\ \/ /\ issues < MaxIssues /\ issues' = issues + 1
          /\ \E c \in Codes \ Malformed :
                /\ codes[c] = None
                /\ codes' = [codes EXCEPT ![c] = [issued |-> issues', used |-> None,
                                                  expires |-> making[w].t + PairCodeTTL]]
       \/ UNCHANGED <<codes, issues>>
    /\ UNCHANGED <<now, lockVars, made, reqVars>>

Tick ==
    /\ now < MaxTime /\ now' = now + 1
    /\ UNCHANGED <<lockVars, codes, made, newVars, reqVars>>

Restart ==
    /\ ents' = [k \in Keys |-> None] /\ tally' = [k \in Keys |-> <<>>]
    /\ pc' = [a \in Requests |-> "idle"] /\ req' = [a \in Requests |-> None]
    /\ at' = [a \in Requests |-> 0] /\ issue' = [a \in Requests |-> None]
    /\ making' = [w \in Issuers |-> None]
    /\ UNCHANGED <<now, codes, made, issues, asked>>

Step(a) ==
    \/ Begin(a) \/ AskCode(a) \/ Redeem(a) \/ Refuse(a)
    \/ FailAddr(a) \/ FailCode(a) \/ Succeed(a) \/ CreateDevice(a) \/ StoreFails(a)

Making(w) == PairNew(w) \/ Purge(w) \/ Issue(w)
Next ==
    \/ \E a \in Requests : Step(a)
    \/ \E w \in Issuers : Making(w)
    \/ Tick \/ Restart
Spec == Init /\ [][Next]_vars

-------------------------------------------------------------------------------
(* Properties *)

TypeOK ==
    /\ now \in Times /\ asked \in 0..MaxAsks
    /\ ents \in [Keys -> {None} \cup [fails : 0..(LockoutAfter - 1), last : Times,
                                      until : 0..(MaxTime + LockoutFor)]]
    /\ tally \in [Keys -> Seq(Times)]
    /\ codes \in [Codes -> {None} \cup [issued : Issues, expires : Nat,
                                        used : {None} \cup Times]]
    /\ made \in [Codes -> [Issues -> Nat]]
    /\ issues \in 0..MaxIssues
    /\ making \in [Issuers -> {None} \cup [t : Times, step : {"purge", "insert"}]]
    /\ pc \in [Requests -> {"idle", "ask code", "redeem", "fail",
                            "fail code", "clear", "create"}]
    /\ req \in [Requests -> {None} \cup Asks]
    /\ at \in [Requests -> Times] /\ issue \in [Requests -> {None} \cup Issues]
    /\ \A a \in Requests :
        /\ pc[a] # "idle" => req[a] # None
        /\ pc[a] \in {"ask code", "redeem", "fail code", "create"} => req[a].kind = "pair"
        /\ pc[a] \in {"clear", "create"} /\ req[a].kind = "pair" => issue[a] # None

(* A pairing code pairs at most one device however many requests offer it at  *)
(* once, also when its row is purged and the same code is issued again while a *)
(* request that redeemed the earlier issue has still to insert its device.     *)
Pairing(c, n) ==
    {a \in Requests : pc[a] \in {"clear", "create"} /\ req[a].kind = "pair"
                        /\ req[a].code = c /\ issue[a] = n}
OneDevicePerCode ==
    \A c \in Codes, n \in Issues :
        /\ made[c][n] <= 1
        /\ \A a \in Pairing(c, n) : made[c][n] = 0 /\ Pairing(c, n) = {a}

(* A key on which LockoutAfter failures were counted in the last LockoutFor,    *)
(* since it was last cleared, is locked: the counter, its restart after a lock  *)
(* and the forgetting of old entries lose no failure that is still recent.     *)
Recent(t) == t + LockoutFor > now
RecentFailuresLock ==
    \A k \in Keys :
        Len(tally[k]) = LockoutAfter /\ (\A i \in 1..LockoutAfter : Recent(tally[k][i]))
            => Locked(k)

(* A lock that has time left is not lifted or shortened by late failures,      *)
(* questions or other keys: only a success of a request that passed the        *)
(* lock's check clears it, never for a code, or the relay's restart.           *)
LockIsKept ==
    [][\A k \in Keys :
        Locked(k) =>
            \/ ents'[k] # None /\ ents'[k].until >= ents[k].until
            \/ Restart
            \/ \E a \in Requests : pc[a] = "clear" /\ k = OwnKey(a)]_vars
===============================================================================
