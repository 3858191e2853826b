# terminalX: specifications

TLA+ models of terminalX, the TLC runs that check them and the proofs TLAPS
checks. `tlc -config X.cfg M.tla` repeats a run, `tlapm M.tla` a proof module;
`PROJECT.json` lists runs, mutants, source lines, findings, hazards and theorems.

## 1. The system

terminalX lets a browser watch and drive command-line tools (Claude Code, Codex,
plain shells) on machines behind NAT. An **agent** on each machine runs the tools
in PTYs and dials a **relay**; **consoles** (browser pages) connect to the relay.

| component | state | operations | interacts by |
|---|---|---|---|
| scrollback ring (`internal/session/ring.go`) | cells, start, n, seq | Write, Tail, Delta | called by the session under its own lock |
| session output (`session.go`: emit, flush, Replay) | pending batch, pendingSeq, flush timer, flushMu | emit, flush, Replay | PTY reader, timer and attach handlers; callbacks into the agent |
| session life cycle (`session.go`, `persist.go`) | cur, PTYAlive, State, killing, closed; process generations; the tmux session | Start/Adopt, waitLoop, reattach, KillResume, Close, Suspend | goroutine per process, per signal; tmux |
| PTY heuristic (`heuristic.go`, `agent.go` runHeuristics) | candidate/suspect/unknown times, ptyKeys | Evaluate every second | raises and closes level-C approvals |
| hook server and approval store (`internal/hooks`) | items by key, status, decision channel | Add, Decide, Close, CloseSession, wait, Sweep; PermissionRequest, PostToolUse, Stop, SessionEnd handlers | concurrent HTTP handlers, some blocked up to an hour |
| agent connection (`internal/agent/conn.go`, `handle.go`) | current connection, send queue | dial, hello, read, send, reconnect | one read loop dispatching relay messages |
| relay hub (`internal/relay/hub.go`, `ws_agent.go`, `ws_client.go`) | devices and their connection, clients, sid owners, attachments, approval cache | register/unregister, route frames, attach/detach, hello, session and approval messages, decide, revoke | one goroutine per connection, one mutex, messages sent after it is released |
| relay database (`internal/relay/store`) | devices, pair codes, approvals, audit, settings | SQL statements | written after the hub's lock is released |
| accounts, pairing (`auth.go`, `pair.go`, `api.go`) | login sessions, lockout counters, codes | login, pair/new, pair/redeem, revoke | HTTP |
| console (`web/src/ws.ts`, `TerminalView.tsx`) | socket, attachments, lastSeq, device states | reconnect, attach, write frames | WebSocket |

Hard to get right: the same bytes travel as live output and inside replays,
across two connections that fail independently and are not noticed to fail at the
same time; approvals are announced, answered, timed out and closed by independent
goroutines; decisions and announcements cross on the way; nearly every handler of
the relay changes its tables in one critical section and writes the database,
sends and broadcasts after it. Section 7 lists what each component must
guarantee, and where it is checked.


## 2. The modules

| module | models | extends or uses |
|---|---|---|
| `ByteWindow` | abstract: the last bytes of a stream, by offset | |
| `Ring` | `ring.go`, cell by cell | implements `ByteWindow` |
| `OneAnswer` | abstract: the first answer to a request stands, only it is told | |
| `Approvals` | `hooks/approvals.go` and the handlers that call it | implements `OneAnswer` |
| `SessionStream` | output from the PTY to the terminals, through two lossy connections | bytes are offsets, the ring is a window as in `ByteWindow` |
| `SessionLife` | the process generations of a session, tmux, restart | |
| `ToolState` | what an agent believes of a tool: hooks, the PTY heuristic, exits | |
| `ApprovalRelay` | an approval at the agent, in the relay's cache and database, on consoles | the relay's end of what `Approvals` calls `Remote` |
| `DeviceHub` | devices, their connections, sessions, attachments, revocation | |
| `DevicePresence` | what consoles are told of devices | composes `DeviceHub` with broadcasts |
| `SessionReport` | the state of a session as agent, relay and consoles have it | what `ToolState` and `SessionLife` leave to be sent |
| `Access` | login, pairing codes, the lockout | |
| `MC...` | what the runs instantiate | the module they are named after |
| `SessionProofs` | theorems about `internal/session`: its ring and its processes | `Ring`, `SessionLife` |
| `ApprovalsProofs`, `SessionStreamProofs`, `ToolStateProofs`, `ApprovalRelayProofs`, `DeviceHubProofs`, `SessionReportProofs`, `AccessProofs` | theorems | the module they are named after |

Definitions named `X_Y` next to an `X` are mutants: `X` with one plausible bug.
`PROJECT.json` says which property each of them breaks; no run uses them.

### Ring

`buf`, `start` and `n` are the struct's fields, `seq` the stream's length, which the
session passes to `Delta`; `Write` is `WriteLarge` (the slice replaces the ring) or
`WriteSmall` (two partial copies). A byte is its stream offset, so a cell that holds the wrong
byte is told from one that holds the right one. `TailOf` and `Delta` are operators,
`TailExact` and `DeltaExact` say what they return in every reachable ring.

### Approvals

An approval is named by the hook call that registered it, as the code tells items
apart by their `*pending`. `live` is `Store.items`, `status` the item's status,
`chan` its channel of capacity one. A Store method is one step, because it holds
the store's lock throughout. What a handler does after it returns is a step of its
own: `Request` (register or join), `Announce`, `Listen` and `Wake` or `GiveUp` (the
select between channel and timer), `Retract`. The local hooks that close approvals
(`PostToolUse`, `CloseSession`) collect keys first, close them one by one
(`CloseOne`) and announce afterwards (`AnnounceClosed`). `Remote` is the relay, as
far as the agent sees it: it forwards a decision for a card a console shows, and
may do so late. `Clock` ages an item past the dedupe window, or sweeps it once it is
settled.

### SessionStream

`emit`, `flush` and `Replay` are split at their locks: `Emit` appends to the ring
and the batch under `Session.mu`; `Flush` and `Attach` start a job under `flushMu`,
`ReadRing` reads the ring in the middle of a replay, `SendFrame` sends one frame.
`link` is the agent's connection as both ends see it: `cut` is the time in which the
agent has given it up and the relay still holds it. The agent may redial then, and
`Reconnect` puts the new connection in the old one's place: `greet` and `bye` are the
handlers that have still to broadcast, `left` what a replaced connection's handler has
not read when the new one's closes it (`BroadcastOnline`, after which one frame may be
in its hands) and may route all the same (`RouteLeft`). `att` is the relay's attachment
table; `ResolveAgent` and `MarkAndForward` are the two halves of the attach handler,
which lets the hub's lock go in between. A page attaches when it opens and when a
device's broadcast state turns from offline to online (`HearsState`). `astray` is
history: consoles open when a connection was replaced of whose loss their pages had
not been told, or that got a frame of a replaced one, until they attach again.

### SessionLife

`stage[g]` is how far generation `g` of the session's process and its waitLoop are.
The critical sections of `waitLoop` are `Decide` (is the exit genuine), `AskTmux`,
then `Record` and `Notify`, or `Bury` for a superseded process, or `TakeBack` and
`Install` (reattach) or `RecordFailure`. `KillResume`, `Terminate`, `Stopped`,
`Respawn` and `Resumed` or `ResumeFailed` are `Session.KillResume`; `Leave`,
`CloseTmux`, `CloseTerminate` and `Forget` are `Close`, `Suspend` and the agent's
`closeSession`. `Restart` is a crash or an orderly end at any point, followed by the
next agent's adoption. `spawn` starts the waitLoop and its caller installs the process
afterwards, so a process may be judged first and take itself for a replaced one:
`missed` remembers those (`Overlook`, and `Started` where a session begins or is
adopted). `persist` is chosen in the initial state: with it a process
is a tmux client, and the shell is `tmux`.

### ToolState

`st`, `alive` and `left` are fields of `Session.info`; `cand`, `verdict` and
`outSince` are `heuristicState`, with its times kept as ages; `ptyKey` is the
session's entry in `Agent.ptyKeys`. Time passes in units of which the thresholds
are multiples; an age stops at the largest threshold, beyond which nothing asks.
`Evaluate` is `Session.Heuristic`, one disjunct per return, under the session's
lock. What a verdict or a hook leads to is a list of critical sections, `todo`:
`SetState`, `Store.Add`, the map, and so on, which those of other goroutines may
come between. `Bind` is `SetToolSession`, `Leave` `ToolExited`, `Settle`
`CloseSession`, `Measure` `SetMetrics`. `stray` is history: an approval was added after
the `CloseSession` that should have closed it, or left by a failed kill_resume.

### ApprovalRelay

`cache` is `Server.approvals`, `db` the approvals table, `store` the agent's own.
`up` and `down` are the messages on the agent's connection; `link` is "broken"
while only the relay still holds it. A handler is a worker's `job`: `CacheNew`,
`CacheClosed`, `Decide` and `CacheRow` are the critical sections of
`onApprovalNew`, `onApprovalClosed` and `decideApproval`; `Persist`, `Send` and
`Tell` come after the lock is released. `Join` and `List` are the two halves of a
console's arrival. `AgentRestart` empties the store, `RelayRestart` keeps the
database and loads the pending rows. `raced` and `lost` are history: keys whose
handlers overtook one another, and keys a message about which was dropped. The
properties say what holds of all others, so the code's races are named, not
hidden; with one message at a time and no loss nothing is excepted.

### DeviceHub and DevicePresence

`table`, `conn`, `sessions` and `owner` are `Server.devices` with its
`deviceState`s and `sidOwner`; `atts` and `mine` the relay's and a console's
attachment tables. A connection goes through `Dial` (its token is found), `Register`,
`Read` and one of `Hello`, `Upsert`, `Closed` for each message, and `Unregister`.
A connection that is replaced or revoked is closed after the lock is released, and is
read until then: `Register` leaves it in `old`, `RevokeTable` in `evicted`, and
`CloseOld` and `CloseEvicted` close it. `Sweep` may close any connection that is
served, since heartbeats may be late. `Read` and the handler are two steps, so a connection
may be replaced or its device revoked between them. `RevokeRow` and `RevokeTable` are the
two halves of `revokeDevice`, `AttachFind` and `AttachMark` those of `session.attach`.
Session numbers are random, so two agents may report the same. `late` names devices a
connection of which was registered after their revocation, `ghosts` sessions last heard of
after their close, by a replaced connection or with a colliding number. `DevicePresence`
adds to each step of `DeviceHub` the broadcast it leads to: `Fetch` reads the state under
the lock, `Say` sends it later, and both wait for the handler's `closeNow`. `misled` names
devices of which a state was sent that had passed.

### SessionReport

`info` is the state in `Session.info`, `seen` the relay's copy in
`deviceState.sessions`, `card` the page's in `State.sessions`. A change of the record
(`SetState`, `SetMetrics`, `Exit`, `Reattach`, `GiveUp`, `KillResume` to `Resume` or
`ResumeFails`) leaves a report with the goroutine that made it, and `Send` is a later
step, so that reports overtake one another; `Lists` and `Look` are the end of
`openSession` and the snapshot after it. Losing the tmux client (`ClientLost`) and the end
of its takeback (`Reattach`, `GiveUp`) are two steps, between which the session may exit,
be killed and resume: a takeback looks at nothing when it installs. `client` says whether
the client is lost, `passed` counts takebacks that a later process has passed, and
`overruns` the changes they made then (`Overrun`). `link` goes through `runConn`: `Dial` builds
agent.hello, `Publish` sets `Agent.conn`, `SendHello` queues it, and a report may be
dropped or sent in either gap. At the relay `Read`, one of `OnHello`,
`OnSessionUpsert` and `OnSessionState`, and `Tell` are the message taken, the critical
section and the broadcast; `ReadList` is the list that a hello leads to, read under
the lock once more. The record's version goes with every copy, as a history; `astray`
says that the relay's copy may be old, because a report was overtaken, dropped behind
the hello's back or, after a failed kill_resume or a reattachment, never made, and
`crossed` that broadcasts were. Either is over with the next report, or list.

### Access

`ents` is the lockout's map, `codes` and `made` the rows of `pair_codes` and
`devices`. A request takes the lockout's mutex anew for every question and
failure, and the database is asked in between (`Begin`, `AskCode`, `Redeem` or
`Refuse`, `FailAddr`, `FailCode`, `Succeed`, `CreateDevice`, `StoreFails`). Making a code
is three steps, the clock read once (`PairNew`), the purge, whose error is ignored
(`Purge`), and the insert (`Issue`); issues are numbered, so that a code drawn again is
told from its earlier issue.
`Sooner` is the order of the database's texts, which puts a whole second after
its fractions. `tally` is a history, the times of the last failures of a key that was
not cleared since, from which `RecentFailuresLock` says what the counters must add up
to.

## 3. The runs

| run | shows | states |
|---|---|---|
| `ring` | cells and readers exact through every write, `Ring` implements `ByteWindow` | 175 |
| `approvals` | nothing pending unattended or for ever, verdicts are decisions, first answer stands | 610 thousand |
| `stream_one` | output never skips, a terminal ends at the end of the stream, but for consoles astray | 1.1 million |
| `stream_two` | the same with two consoles, and no pending console is forgotten | 4.2 million |
| `session_life` | one shell, no terminal claimed with nobody behind it, kill_resume ends, exits are noticed | 346 thousand |
| `tool_state` | the heuristic's approval is the one of its suspicion, or stray; output withdraws it, silence is noticed | 529 thousand |
| `approval_relay` | one answer per announcement, rows match the cache, answers are recorded, consoles and relay converge | 344 thousand |
| `device_hub` | owners, lists and attachments agree, a connection that lost its place is about to be closed, a revoked device is out, sessions follow the agent | 954 thousand |
| `device_presence` | consoles end up showing online devices as online, and gone ones not | 278 thousand |
| `session_report` | an exit is not taken back but by kill_resume, a takeback it passed or an overtaken report; relay and consoles end up with the session's state | 781 thousand |
| `access` | a code pairs one device, recent failures lock, a lock is kept | 2.8 million |
| `session_closed` | violation: a session closed during kill_resume is respawned | |

**Bounds.** Ring: capacity 5, slices up to 7, 40 bytes, so every write meets every
alignment. Approvals: two calls, which can be a duplicate, a retry after the window
or two requests; one closer with both keys; two decisions in flight for a key, a
late one among them. Stream: the ring is smaller than the stream and a frame smaller
than the tail where one console runs, so deltas, expired last_seqs and snapshots of
several frames all occur; two connections of the agent, the second after the first or
in its place, and one lost page. Session: three generations are the original, one taken
back and one resumed, in either order; a second lost client reaches the limit of
fast reattachments (3 in the code, 1 here); one restart. Tool state: two hooks and
two prompts, the thresholds at their smallest values that keep the code's order,
two signals, so a verdict can be crossed by a hook, taken back and reached again.
Approval relay: two handlers at once, enough for any two critical sections to cross;
two registrations of a key; one fault of either end (with two, 1.8 million states, no
error). Session report: two goroutines, enough for a report to be overtaken; three
versions of the record, so an exit can be followed by a kill_resume or preceded by a
signal; two connections; one fault, which is a lost or full connection, a restart of
the relay or a lost tmux client. A takeback that is passed takes a fourth version:
`MCSessionReportOverrun.cfg`, with one connection, checks `ExitStands` there (2.0
million states, no error). Device hub: two
devices, one session number both may draw, two connections, a message queue of
one, so a connection can be replaced with a message unread; one revocation, which is
enough to cross a registration. Presence: one device, two connections, a queue of two.
Access: three requests, which race for one code and for one lockout entry; one issuer
and two issues, so a code can be drawn again; one address and one code beside a malformed
one; a lock after two failures, time for a lock, a purge and a reissue. The proofs of
section 5 have none of these bounds, except that the number of generations is a constant.

**Deadlock** is not checked: a stream that ended, calls that are over or a closed
session are quiescent states of the real system. In `Access` it is, but says little,
since the relay may always restart.

The type invariants of all modules are proved; only that of `SessionStream` is also
checked by a run.

### What disagrees

Places where the code does not do what a comment, test or document says. The first
is a run, with an entry in `findings`; the others are reproduced by
`tlc -config X.cfg M` with the configuration named, and are not among the runs.

1. `session_closed`: `KillResume` does not look at `closed` again before it respawns.
2. `MCStreamReplaced.cfg` (`MCStream`): attachments are set back to pending only when
   the lost connection is still the registered one. If the agent redials sooner, no
   page attaches again and live output resumes behind a gap, though conn.go:180 says
   that the reconnect makes a new snapshot. The runs have replacement; `astray` names
   the consoles it happens to.
3. `MCApprovalsPhantom.cfg` (`MCApprovals`): `permissionRequest` announces after it
   released the store; a Stop, exit or close in between is announced first, and a
   "phantom approval" (hooks/server.go:216) stays on the consoles.
4. `MCApprovalsWaiters.cfg` (`MCApprovals`): a duplicate request joins the pending item
   and blocks on the same channel of capacity one; the second handler waits for its
   timeout, though approvals.go:94 says the blocked handler is woken.
5. `MCStreamRepeat.cfg` (`MCStream`): `Replay` flushes, then reads the ring, and
   `emit` may run between the two, so bytes are shown twice (ws_agent.go:474).
6. `MCStreamShared.cfg` (`MCStream`): a snapshot frame names no console, so a delta
   computed for one `last_seq` reaches all that are pending.
7. `MCApprovalsLost.cfg` (`MCApprovalRelay`): an approval raised while the agent is
   offline is dropped by `sendMsg` and `agent.hello` names no approvals, though
   docs/02-产品设计.md:209 says that those not delivered are sent again.
8. `MCToolStateOverruled.cfg` (`MCToolState`): the heuristic, said to be for sessions
   without structured signals (docs/04-第一阶段技术架构.md:253), takes back a suspicion
   by overwriting the state a hook has just set.
9. `MCSessionReportUndone.cfg` (`MCSessionReport`): an exited session is to keep its
   state and not to be resurrected in the console (agent.go:384). The record keeps it,
   but a state set before the exit, or a snapshot taken before it, may be sent after
   it, and the session is shown alive until the agent reconnects. Nor does the check
   know "failed": after a lost tmux client was given up, or a kill_resume failed, a
   late signal takes the session back to a live state.
10. `MCToolStatePhantom.cfg` (`MCToolState`): `CloseSession` is called "when the session
   is closed or the tool exited" (approvals.go:144) to leave nothing pending, but the
   heuristic adds its approval in a step after its verdict (agent.go:502). Added behind
   the `CloseSession` of an exit or a SessionEnd it stays pending, and the heuristic,
   which no longer watches the session, never takes it back.

## 4. Assumptions and fairness

- *Approvals*: a started handler is a goroutine, so each of its steps is eventually
  taken, and a blocked one's timer fires. Hooks, consoles and time owe nothing.
- *Stream*: runnable goroutines run, the batch timer fires, a dead connection is
  noticed (45 s sweep), agent and page redial for ever. Output and losses are
  bounded, so "eventually caught up" says: once disturbances cease. The agent may
  redial before the relay has noticed the loss, or after; a replaced connection's
  handler may read what had arrived until it is closed, and one frame after that.
- *Session*: goroutines run, and a process that was signalled, or a client whose
  tmux session is gone, ends. tmux commands are taken to succeed. A process may be
  over, and judged by its waitLoop, before it is installed in `s.cur`; its end is then
  never reported and the session claims a terminal that is gone (`NothingMissed`,
  violated with `MCLifeMissed.cfg`, `MCLife`). `AliveIsBacked` and `ExitIsNoticed` except
  such a process by name, `missed`.
  `Terminate` is one step for the tmux kill and the signal, because `killing` is
  set and nothing looks between the two.
- *Tool state*: started goroutines run, the heuristic's ticker ticks and time passes.
  The ticker is faster than the unit of time, so every unit has a run of the
  heuristic. Tools, hooks, consoles and exits owe nothing.
- *Approval relay*: handlers run, messages on a standing connection arrive, a lost
  one is noticed (sweep), agent and page redial for ever. Faults are bounded, so the
  two convergence properties say: once faults cease.
- *Session report*: goroutines run, agent and page reconnect, a lost connection is
  noticed. Tools and people owe nothing, and neither a kill_resume nor a takeback need
  end. Versions and
  faults are bounded: once they cease, the copies agree.
- *Device hub and presence*: handlers run, also those that have still to close a
  connection, the sweeper finds a connection whose agent is gone, an agent notices that the
  relay closed its connection, and beats while one stands. No agent has to dial and
  no console to stay: the properties are about those that do.
- *Access* has no liveness property, and its specification no fairness.

## 5. What is proved

The theorems hold for every value of the constants under the modules' ASSUMEs, and no
theorem assumes more. What a property excepts (`astray`, `missed`, `raced`, ...) its
theorem excepts too. Every safety property the runs check is a theorem.

- **`SessionStreamProofs`**, output: `OInv` follows the stream through everything that
  is on its way. The frames in transit and those the holder of `flushMu` has still to
  send are one queue, `Pipe`. In it every output frame starts at or before the end
  of the frame, or snapshot, before it (`Linked`), and so does the next batch
  (`EndsAt`). A console that is live and not astray has in its queue, or on its terminal,
  all that comes before the first output frame of the pipe (`LiveCovered`). A replaced
  connection leaves attachments live that the new one's pipe does not continue, which is
  why consoles become astray there, and only there. `OutputContiguous` is for any number
  of consoles and connections, any ring, tail and frame size.
- **`SessionStreamProofs`**, pending consoles: `PInv` says, for each stage of a
  reconnection, what makes a waiting console ask again: it has been told that the agent
  is offline (`OfflineTold`) and will hear that it is online (`Owed`), or its attach
  went to the connection that holds (`NoneForgotten`). From it `PendingServed`.
  `TypeCorrect` needs only that an attach handler has the message it works on
  (`AskingHolds`).
- **`ApprovalsProofs`**: `IInv` adds to `TypeOK` that keys hold only registered items
  of their own (`LiveIsOwn`), a call that has not begun has none (`IdleIsUnused`),
  only level-A items are waited for (`WaitsAreHooks`), a token agrees with its item's
  status (`TokensAgree`) and is in the channel or was taken (`TokenTaken`). From it:
  `TypeCorrect`, `NeverOrphaned`, `VerdictSound`, `AloneIsWoken` and
  `StoreImplements` (the refinement to `OneAnswer`).
- **`SessionProofs`**, the ring: `RingInv` is `RingTypeOK` and `HoldsTail`; the type alone
  is not inductive, since where `WriteSmall` puts a byte is right only if `start` and `n`
  describe the old contents. `RingHoldsTail`, `DeltaReader` and `TailReader` (the
  readers return what they claim), `RingImplements` (every `Write` is an append of
  `ByteWindow`).
- **`SessionProofs`**, processes: without tmux only `kill_resume` spawns. `IInv` says that
  the running process is the current one, or the one about to be installed
  (`SoleRunner`), that an exit being recorded is the current process's and
  `kill_resume` still waits for it (`GenuineIsCurrent`), and that a current process
  whose exit is not recorded is called alive (`CurrentIsAlive`), which is what lets
  `kill_resume` skip the wait. From it: `SessionTypeOK`, `SessionOneShell`,
  `SessionRunningIsAlive`. `SessionIsBacked` (`AliveIsBacked`, with or without tmux)
  needs that what a reattachment or a kill_resume is about to install has not been
  judged by its own waitLoop, or is `missed` (`InstalledStands`).
- **`ToolStateProofs`**: `SuspicionIsHeld` speaks of the moments between two runs of
  the heuristic; to be inductive it needs to be said of every stage of what a run
  leads to (`HeurStage`), with the fact that no other goroutine adds, notes or
  withdraws (`OthersDo`) and that whoever sets the state knows to what
  (`GoalsKnown`). For the end of the tool it must be known how far each hook is in its
  plan (`OthersAt`): a suspicion pending, or about to be, where the heuristic watches no
  more, is stray or somebody has still to settle (`EndInv`). From it: `TypeCorrect`,
  `SuspicionHeld`.
- **`ApprovalRelayProofs`**: `IInv` says of a key whose handlers did not overtake one
  another that it is `Tidy` at every stage of a handler: one handler at a time is
  between its change of the cache and its last use of it, the cache holds what the
  row will, nothing was sent before, and a row is read only for want of a cached
  one. Where no message was dropped either it is `Told`: an answer on its way or
  given is the row's, and none is on its way together with a new announcement
  (`NewIsFirst`), which is what keeps a late answer from the next registration.
  From it: `TypeCorrect`, `OneAnswerGoes`, `RowsAgree`, `AnswersRecorded`. The same
  excepted keys as in the run, `raced` and `lost`, are excepted here.
- **`DeviceHubProofs`**: the four invariants of the run are nearly inductive together:
  owner and list are written in one section, and a number's attachments are
  forgotten where it is freed. What is missing is what a handler knows of a message
  it took before it got the lock (`GrabbedServe`), a console of itself between the
  halves of an attach (`LookersJoined`), and that a connection with one to close is
  still served (`ReplacersServe`). From it: `TypeCorrect`, `OwnersAgree`,
  `AttachmentsHold`, `OneIsServed`, `RevokedStaysOut`.
- **`SessionReportProofs`**: whatever a goroutine, a message, a handler, a list, the relay
  or a card has is a record the session once had (`Held`). `Ordered` says of any two
  of them that one that shows an exit and a later one that shows a live session lie
  on both sides of the end of a kill_resume, or of a takeback one had passed; it is
  inductive because copying adds nothing and because an exited session has no client
  left to lose (`DeadStays`), so that only those two give it a process. From it:
  `RecordsInOrder`, `ExitsStand`. Signals are assumed not to report an exit: hooks and
  heuristic have no way to say so.
- **`AccessProofs`**: an issue that paired or is pairing a device is marked used for as
  long as its row has it (`TakenIsUsed`), a row's issue is one that was made
  (`RowsNumbered`), so that a code drawn again is a new one, and a lock ends at most
  LockoutFor after the last failure (`LocksDated`). From it: `TypeCorrect`,
  `CodesPairOnce`, `LocksLast`.
  `FailuresLock` (`RecentFailuresLock`) needs an account of the failures an entry no longer
  counts: each is more than LockoutFor old, or the lock lasts until it will be
  (`TallyPassed`).

## 6. What is not proved, and what is not modelled

Only model-checked: every liveness property (`PendingIsSettled`, `EventuallyCaughtUp`,
`KillResumeEnds`, `ExitIsNoticed`, `ConsoleFollows`, `RelayFollows`, `SessionsFollow`,
`OnlineIsShown`, `GoneIsShown`, `SuspicionIsWithdrawn`, `SilenceIsNoticed`,
`RelayShowsState`, `CardsAgree`), since liveness under fairness is beyond the prover.

Left out of the modules above:

- *Approvals*: the request's text, the hash behind the key (only its equality is
  kept), several sessions (keys of different sessions never meet), level-C approvals.
- *Stream*: a console that leaves and enters a terminal again, EOF, acks, input and
  resize frames, the device list a page reads before the first broadcast, two
  broadcasts overtaking each other, an agent that restarts with a new stream, the
  resize nudge after an attach, what escape sequences the bytes form.
- *Session*: exit codes, the exit file, tool metadata, the
  terminal's size, failing tmux commands. A session that has-session finds and that
  ends before the client attaches is given a new shell by `new-session -A`; `Spawn`
  says so, and the adopted session counts as alive.
- *Tool state*: the message sent after a state was set, which is in `SessionReport`;
  Codex's hooks, whose Stop closes no approvals;
  approvals of hooks, which are in `Approvals`.
- *Approval relay*: several devices, the HTTP list, the limit of 200 pending rows
  loaded at start (store.go:441), audit rows, webhook calls, level-C approvals, which
  behave as level B here. An agent's reconnection after its own restart is that of
  a lost connection.
- *Device hub*: the contents of session infos, input and resize routing, error
  replies (one for a failed kill_resume among them), frames, which are in
  `SessionStream`, and the relay's restart, after which every table but the devices'
  is empty.
- *Session report*: closing, which is in `DeviceHub`; kind, source, confidence, cost and
  mode, which travel with the state; a full send queue, which is a lost connection; a
  connection replaced before the relay noticed its loss keeps its last handler, but the
  agent's next one waits for the registration; heartbeats, which carry no state.
- *Access*: cookies and login sessions, which are rows with an expiry and no
  concurrent state of their own; renaming; settings; the audit trail; the counter of
  attempts, which nothing reads.
- Not to be modelled: configuration, installation, static files, webhook,
  command-line quoting, presets and views, which are text processing or start-up
  code without concurrent state.

## 7. What each component must guarantee, and the plan

| component | guarantee | where |
|---|---|---|
| ring | the last bytes in order, readers exact | `Ring`, proved |
| approval store | no orphans, first answer stands, verdicts are decisions, all end | `Approvals`, proved but for liveness |
| session output | no byte skipped, none twice, terminals catch up | `SessionStream`; no byte skipped proved but for finding 2, none twice is finding 5 |
| session life cycle | one shell, no dead terminal claimed alive, nothing after close | `SessionLife`, proved but for liveness; nothing after close is finding 1 |
| heuristic and its approvals | an approval only while its suspicion stands, withdrawn when output resumes, none left behind, silence noticed | `ToolState`, proved but for liveness; none left behind is finding 10 |
| relay approvals | one answer per announcement, the database agrees with the cache, everyone's view converges | `ApprovalRelay`, proved but for liveness |
| relay hub | a session's owner is the device that lists it, a replaced connection is closed, a revoked device is out, the relay follows the agent | `DeviceHub`, proved but for liveness |
| device states on consoles | online devices end up shown as online, gone ones not | `DevicePresence` |
| session states on relay and consoles | exits stand, the state shown becomes the state | `SessionReport`, proved but for liveness and finding 9 |
| pairing and login | a code is redeemed once, recent failures lock, a lock lasts | `Access`, proved |

What is left, in this order:

1. `SessionStream`: terminals that are closed and mounted again, EOF, and an agent that
   restarts and adopts a session whose stream starts at another offset.
2. `SessionLife`: kill_resume while a lost client is taken back, with the tool's side
   of the terminal, since the resume line is then typed into a living tool.
3. `DevicePresence`: the safety that its liveness rests on (a console is misled only
   by a broadcast another overtook) as an invariant, to be proved beside that of
   `DeviceHub`.
