# Formal models of Mobily

Mobily mirrors one terminal session of a workstation (the *Station*, run by the `mobily`
command) on phones. This directory holds TLA+ modules translated from its source, the TLC
configurations that model-check them on small instances, and TLAPS proofs of their main
invariants for every value of their constants.

Paths below are relative to the repository. `PROJECT.json` relates every definition of a
module to the lines it models, lists the runs, the hazards of the code and the properties
aimed at them, and, for every property, one plausible bug (an operator commented "Fault")
with which TLC finds the property violated.

| Module | Models | Run by | Proved in |
|---|---|---|---|
| `StationSession` | `session.ts`, `terminalScreen.ts`, `sessionSize.ts`, `sessionScrollback.ts`, `outputHub.ts` | `session_delivery`, `session_size`, `session_liveness`, `session_history` | `StationSession_proofs` |
| `SizeArbiter` | the promise of Terminal Size Ownership; `StationSession` implements it | `session_size` | `StationSession_proofs` |
| `MouseGuard` | `mouseReportingGuard.ts` | cases that `MCStationSession` evaluates | `StationSession_proofs` |
| `TunnelOwnership` | `devtunnels.ts`, `temporaryTunnelOwnership.ts`, `cliLifecycle.ts`, the shutdown of `runStation.ts` | `tunnel_recovery`, `tunnel_interrupt` | `TunnelOwnership_proofs` |
| `BindingRepository` | `bindings.ts` | `bindings_alone`, `bindings_overlap` | `BindingRepository_proofs` |
| `Wire`, `WsClient`, `StationGate`, composed in `Connection` | one WebSocket; `wsClient.ts` and `StationConnection.tsx`; `sessionHandshake.ts`, `ws.ts`, the verification of `auth.ts`, the revocation sweep of `session.ts` | `connection` | `Connection_proofs` |
| `SavedStations`, `DeviceKey`, composed in `Pairing` | `storage.ts`; the native Device Key module; `pairing.ts`, `ScannerScreen.tsx`, `StationsScreen.tsx`, the pairing code of `auth.ts` | `pairing` | `Pairing_proofs` |
| `GitScreens`, composed with the Station in `GitDesk` | `rpcClient.ts`, `GitScreen.tsx`, `DiffScreen.tsx`; `rpcRouter.ts`, `gitService.ts`, the requests of `session.ts` | `git_rpc` | `GitDesk_proofs` |
| `TerminalDocument`, `TerminalScreen`, composed with a Session in `PhoneTerminal` | `terminalDocument.js`; `TerminalScreen.tsx`, `TerminalView.tsx`, `rendererStartup.ts`, `automaticTerminalSizeOwnership.ts`, `sessionSnapshotChannel.ts` | `terminal` | `PhoneTerminal_proofs` |
| `Protocol`, `StationFrames` | the validators of `shared/src/protocol.ts`; the frames the Station builds | boundary cases in `git_rpc` | `StationFrames_proofs` |

`MC*.tla` instantiate a module for TLC: symmetry sets, one state constraint, and the boundary
cases of `StationFrames`, of `MouseGuard` and of the writing of output (`WrittenOneByOne`).

To check: `tlc -config <run>.cfg MC<Module>.tla` and `tlapm <Module>_proofs.tla`.

## 1. Inventory of the system

### Station (cli/src)

**Session** (`session.ts`, 722 lines; `sessionSize.ts`, `sessionScrollback.ts`,
`terminalScreen.ts`, `sessionBackend/outputHub.ts`).
*State*: the sets of attached viewers and of live subscribers, the frames held back during an
attach, the size claims with their leases, the owner of the size, the current and the
Station's grid, the history frozen for each viewer, the parser queue of the canonical screen.
*Operations*: attach after authentication, one handler per inbound frame, PTY output and exit,
a resize by the local terminal, lease timers, socket close, dispose.
*Interactions*: handshake (calls attach), backend (PTY data and exit callbacks), local
workstation (shared grid and output), RPC router, phase tracker, auth (revocation sweep).
*Hard*: the parser queue is asynchronous, so everything can happen between queueing a capture
and running it; a slow socket is closed in the middle of any broadcast; the PTY may exit and
the Station may stop at any point; the backend may refuse a resize.
*Correct when* a live viewer shows what the canonical screen shows, nothing missing or twice
(but for error messages of the Session, which go to viewers only);
history comes once and after the snapshot; the newest standing claim owns the size and all
viewers know it; the Station's grid returns; every attach ends; the end closes every viewer.

**Handshake** (`sessionHandshake.ts`, `ws.ts`). *State*: per socket, waiting for hello or for
the auth-response; a timer; the number of clients. *Hard*: the timer closes the socket while an
answer is in flight; a closing socket still delivers. *Correct when* only a bound device that
signed this socket's nonce is attached, once, and a silent peer is dropped.

**Pairing and authentication** (`auth.ts`). *State*: the pairing code, its expiry, whether it
is burned; the tunnel URL. *Operations*: generate, pair, verify. *Hard*: saving the binding
and burning the code are two steps and the first may fail, after its effect too; the answer may
be lost. *Correct when* what a phone has saved is bound, and a failed save leaves the code usable.

**Device bindings** (`bindings.ts`). *State*: a JSON file shared by processes without a lock,
a map in memory and the mtime it stands for. *Operations*: load, get, list, save, revoke.
*Hard*: other processes write between any two file calls; a persist fails before or after its
rename. *Correct when* a finished pairing or revocation is seen by every later lookup.

**Temporary tunnels** (`tunnel/devtunnels.ts`, `tunnel/temporaryTunnelOwnership.ts`).
*State*: tunnels at the provider, host processes, ownership records on disk. *Operations*:
reconcile, create, add a port, host, disconnect. *Hard*: crashes between any two steps, runs
side by side, helper commands that outlive their run, commands that fail after taking effect,
process ids that are used again. *Correct when* no tunnel is orphaned without a record, and no
recovery touches the tunnel of a live run.

**CLI lifecycle** (`cliLifecycle.ts`, `runStation.ts`). *State*: running, cleaning, exited; a
ten-second deadline. *Correct when* a shutdown always ends and an orderly one cleans up after the
attempt it closes.

**RPC** (`rpcRouter.ts`, `gitService.ts`). *State*: the active requests of a socket, the tail of
the mutation chain. *Hard*: cancellation, a full table, mutations of several viewers, a status
read after a mutation. *Correct when* an answer shows its own mutation and no later one, and
every request gives its slot back.

**Mouse reporting guard** (`mouseReportingGuard.ts`). *State*: whether a
program has taken the mouse, whether reports may be waiting for it, a deferred flush with its timer, the
marks carried over to the next read. *Operations*: track a read of the output, mouse input, a
timer, dispose. *Hard*: a read ends anywhere, also in a mark that the next read shows again.
*Correct when* the shell is interrupted only for reports that may be waiting, and no later read
interrupts it for the same ones.

**Session backends and PTY** (`sessionBackend/`, `pty.ts`), **workstation presence**
(`workstation/`), **session phase and alerts** (`alerts/`),
**scrollback buffer**: process and terminal I/O around small automata with timers.

### Phone (android/src) and shared code

**WebSocket client** (`client/wsClient.ts`, driven by `client/StationConnection.tsx`).
*State*: the current socket and its generation, where the handshake is, a reconnect timer,
retries, flags for rejections. *Operations*: connect, retry, disconnect, one handler per socket
event, frame and timer, the answer of the biometric prompt. *Hard*: every callback may outlive
the socket it belongs to. *Correct when* at most one attempt is under way, a failure rests until
the user acts, an attempt ends, and only a revoked phone is told to pair again.

**Storage, pairing, Device Keys** (`auth/`, the native module `mobily-device-key`).
*State*: the list of saved Stations, the selected one, the record of an older release, the keys.
*Operations*: save, select, mark, prune, remove, migrate, pair. *Hard*: each is a chain of awaits
on the secure store, and nothing orders two of them; each call may reject; the app may be
killed. *Correct when* what is saved is bound, has its key, and stays until it is removed.

**RPC client and Git screens** (`client/rpcClient.ts`, `git/`). *State*: pending calls with their
timers, whether an operation holds the buttons, the pages of a diff. *Hard*: late answers, lost
connections, refused and undecodable answers, a refresh behind an operation. *Correct when* pages
meet and buttons come back.

**Terminal** (`terminal/`). *State*: the WebView's document with its visible terminal, the hidden
one being parsed, the queue of output and the proposer of grids; the screen with its snapshot,
the output since, and what its effects saw; the start of the renderer; the ownership of the
size. *Hard*: the renderer is ready late or again, the snapshot, the output, the history, the
ownership and the connection come in any order. *Correct when* the terminal shows what the
Session shows, says it is live only then, and grid and ownership agree at both ends.

**Wire protocol** (`shared/src/protocol.ts`): a validator for each frame. *Correct when* each end
accepts what the other sends.

**Foreground controller**, **pinned transport**, **terminal IME**, **user interface kit** and the
**website**: see "Not modelled".

## 2. StationSession

Node runs one callback to completion, so an action is a whole callback. What interleaves is
the order of the callbacks, and mostly the time between queueing a parser task and running it:
`queue` is the promise chain of `CanonicalTerminalScreen`, `parsed` what the screen has
consumed. A chunk of output is its number, a snapshot the length of `parsed` it stands for.

| Code | Model |
|---|---|
| `attachAuthenticated`, capture, `detach` | `AttachAuthenticated`, `RunCapture` (`SendSnapshot` or `RefuseCapture`), `SocketClosed`, `Detach` |
| `messageHandler`, `handleMessage` | `Receive`, `Handle...`; frames held until `attachReady`, then `Replay` |
| `hub.push`, `broadcast`, `sendRaw` | `Push`, `Broadcast`, `Reaches`/`Overrun` |
| `SessionSizeOwnership` | `HandleClaim`, `GiveUpClaim`, `LeaseExpires`, `ApplyResize`, `ReleaseSizeClaim` |
| `handleExit`, `dispose` and the server's close | `PtyExit`, `Dispose` |

Decisions a reader should know of:

- `seen` is the viewer's end of the wire and exists only to state properties; it is forgotten when
  the socket closes.
- The loop that replays held frames is split into one step per frame, with `replaying` as a
  lock: no other callback runs until it is done.
- A socket that is closing still delivers what its peer sent (as the `ws` library does), and
  may be attached: the handshake timer or the shutdown can have closed it before.
- `Dispose` is the shutdown callback of `runStation.ts:82-95`: the Session and the server's
  sockets go in the same turn.
- The first attach starts an embedded workstation, which resizes the Session at once; this is
  part of `AttachAuthenticated`.
- A resize of the backend may throw at any time, and so may a terminal reset. The Session then
  sends an `output` frame of its own, to the viewer who asked or, when the Station's grid is not
  restored, to all subscribers (`session.ts:440`, `465`, `480`, `sessionSize.ts:80`). Such a frame is
  a `Notice` in what a viewer shows; the canonical screen never parses it, so a snapshot taken later
  does not have it. Its text is abstracted.
- `Settling`: a capture or a resize at the head of the parser queue is a promise job, and Node runs
  those before the next callback; only the parsing of a write takes a callback of its own. Frames
  may still be received meanwhile, since `ws` can hand over several frames of one read. That is
  more than Node allows when the frames come in separate reads.
- `seen.history` lists every history sent to a viewer, so that a second one counts even when it is the same.
- `Clog` fills or drains the send buffer of a slow viewer.

Left out: latency tags, RPC, alert and status frames, and the revocation sweep (`Connection` has it).

`SizeArbiter` is what Terminal Size Ownership promises, without timers, sockets or queues: the claims
are a stack, its top owns the grid, and the Station owns it when the stack is empty. The
refinement (`ImplementsSizeArbiter`) takes `StackOf(sizeClaimants)` for the stack: the claimants in
the order of their claim numbers.

`MouseGuard` has each method of `MouseReportingGuard` as an operator from the guard before to
the guard after; the output is a sequence of the marks the guard looks for. `MCStationSession`
evaluates it for every read of up to three marks: a flush is sent when it is due (`FlushesAreDue`), and
one chunk is never scanned (`ReleaseHidesEnable`, section 11). A read that asks for a flush interrupts
the shell, and a second time when the shell has echoed mouse reports (`Interrupts`, `session.ts:232-247`).

### Runs

| Run | Question | Bounds |
|---|---|---|
| `session_delivery` | snapshot, live frames, history | two slow viewers, 1 chunk of the PTY, 2 frames each (acknowledgement, terminal reset), the workstation's own resize |
| `session_size` | size ownership and `SizeArbiter`, the announced grid, frames in order | two viewers, two grids, 1 chunk, 2 frames each (claim, release, resize), Station resizes while a viewer owns the size |
| `session_liveness` | attach ends, the end closes viewers, the size returns | two viewers, 1 chunk, so that two captures can wait behind a write, 1 frame each (input, malformed, resize, claim, release) |
| `session_history` | expected violation | two viewers, 2 chunks: one ahead of the capture and one behind it |

Two viewers are enough for one to attach, claim or leave while the other is live, owns the size
or waits for its capture; two grids distinguish the Station's from a viewer's. The
interesting queue is a `write`, behind it a resize and the captures of both viewers, and a resize again: 1
chunk, the workstation's own resize and those of an owner reach it. `MaxResizes` bounds only Station
resizes that reach the screen, and is 1: a Station resize that has to be remembered, because a viewer
owns the size, happens at any time; one while nobody owns it does what the workstation's own does, and
is left to the proofs. Viewers are interchangeable in the safety runs (`ViewerSymmetry`); the
liveness run uses no symmetry.

Fairness (`FairSpec`): a queued parser task runs, a replay goes on, a closing socket is
eventually closed (by its peer or by the close timeout of `ws`), a lease timer fires unless it
is renewed, and each viewer sends finitely many frames. Nothing is assumed about viewers, output
or the end of the Session.

`SizeReturnsToStation` therefore says that a claim that is not renewed ends.

`LiveScreenIsCanonical` compares what a viewer shows, its notices left out, with `parsed`.
`StationGridRestored` excepts a failed resize, after which the Session keeps its grid. Slow viewers are
in `session_delivery` only; that they know the owner is proved, not run.

### Proofs (`StationSession_proofs`)

For any number of viewers, grids, frames and bounds, every safety property of the passing runs, the
refinement of `SizeArbiter` included.

| Theorem | States | Invariant |
|---|---|---|
| `TypeCorrect`, `OwnershipCorrect` | `TypeOK`, `OwnerIsMostRecentClaimant` | `IndInv` |
| `SnapshotBeforeLive` | `LiveScreenIsCanonical` | `LiveInv` |
| `FramesInOrder` | `FramesHandledInOrder` | `FrameInv` |
| `NothingOutlivesDetach` | `DetachedLeavesNothing` | `DetachedInv` |
| `OwnerIsKnown` | `ViewersKnowTheOwner` | itself |
| `GridIsRestored` | `StationGridRestored` | itself |
| `CurrentIsQueued`, `AnnouncedIsCaptured` | `CurrentIsQueuedGrid`, `AnnouncedGridIsSnapshotGrid` | `ScreenInv` |
| `HistoryIsOnce` | `HistoryOnceAfterSnapshot` | `HistoryInv` |
| `ArbiterImplemented` | `ImplementsSizeArbiter` | `StackInv` |
| `InterruptsAreDue`, `GuardKept` | the mouse guard, any output | `GuardInv` |

`IndInv` is the type invariant in the parts that actions disturb (`WireOK`, `InboundOK`,
`AttachOK`, `SizeInv`, `QueueOK`, `LifeOK`) and three facts `TypeOK` does not give: claim
numbers are bounded by the sequence and distinct, the owner is the newest claimant, and a
replay has a frame to replay. The successor of an owner is a `CHOOSE` of a maximum; that it
exists for any set of claimants, finite or not, is `BoundedMaximum`. (Claims are
bounded by the sequence number, so no finiteness is assumed.) The other invariants stand on it.

`LiveInv`: every live viewer shows `parsed`, with notices between, and subscribers are `ready`. It is inductive because
only a screen task changes `parsed`, and it goes to every subscriber in the same step or drops the
subscriber, and only a capture adds one, with the screen of that moment.

`FrameInv`: frames are held back only until the attach is complete, but for those of the one viewer
whose frames are being replayed. That is why a frame that arrives later cannot overtake them.

`ViewersKnowTheOwner` follows from what one step does to one viewer (`Informed`): it keeps its
belief and the owner is the same, or it is told the new owner, or it is closed.

`ScreenInv` speaks of every prefix of the parser queue: the grid that `parsed` and the
tasks ahead of a capture lead to is the grid its viewer was told (`Announced`), the whole queue leads
to `current` (`QueuedGrid`), a viewer has at most one capture queued (`CapturesOf`), and sent
snapshots keep their grid (`SnapshotGrids`). `GridFrom(g, q)` is the grid after the tasks of `q`, starting
from `g`, and `GridConcat`, `GridHead`, `PrefixOfAppend` are its laws. Each action is first
shown to be one of five kinds of step (`Rests`, `Drops`, `Parses`, `Shows`, `Enters`:
`NextMirrors`), and the invariant is then preserved by each kind.

`HistoryInv`: a history is pending only for a viewer that has its snapshot and was sent no history.

`ArbiterImplemented`: `IsStack(s, c)` says that `s` lists the claimants of `c`, oldest first. There is at
most one such list (`StackUnique`), so `StackOf` is it (`StackIs`); a new claim goes on top
(`StackPushed`) and one that goes leaves the order of the others (`StackDropped`). `NextIsSizeStep`
sorts the actions into six kinds, among them that the Station's grid returns only with the last
claim, and `StackSteps` maps each kind to an action of `SizeArbiter`.

## 3. TunnelOwnership

Runs of the CLI are processes: they overlap, are interrupted and crash. A run waits for one
helper command at a time, named by `pc`; a run that has ended keeps that `pc` while its helper
lives on, and `LateReply` is the helper's late effect. An action goes from one wait to the next
and contains the record it writes. A crash inside such a step leaves what a crash before it or
after it leaves, since only its first effect is local and the rest is a helper that may never
have run.

| Code | Model |
|---|---|
| `reconcileTemporaryTunnels` | `Start`, `SkipRecord`, `RecoverRecord`, `Recovered` |
| `startHost` and its catch | `Plan`, `Created`, `PortCreated`, `HostReady`, `Undo`, `HostStopped`, `Deleted` |
| `connect`, second attempt after a login | `StartFails`, `GiveUp`, `Plan` from `"login"` |
| `disconnect` under `CliLifecycle` | `RequestShutdown`, `ServerClosed`, `HostStopped`, `Deleted`, `Deadline` |
| the store | `Save`, `Remove` |
| the provider and the process table (external) | `Delete`, `HostEnds`, `LateReply`, `Crash`, `ReusedPid` |

Failures: a `save` that throws may have replaced the file (its `chmod` comes after the rename); a
delete command that fails may have deleted; a create command that fails may have created.
Everything before the list of records, sign-in included, is `Start`. Errors while cleaning are
a second shutdown request, which exits at once. `ReusedPid` names runs whose process id an
unrelated process takes: their record counts as alive, and their tunnel is never recovered
(with PID 1 in a container that is the rule, not the exception).

`tunnel_recovery`: two runs, the process id of one of which is reused. Two runs give one run that
recovers while another lives, crashes or shuts down, and either can make two attempts, so four
tunnels. `ShutdownEnds` needs only the fairness of the ten-second timer: no helper command has a
timeout, so nothing else is assumed. `CHECK_DEADLOCK FALSE`: when both runs have ended and
nothing is in flight the system stops.

`CleanShutdownCleansUp`: an orderly shutdown leaves no host process of its run, and of all the tunnels
of the run at most one of an earlier attempt, with its record. `disconnect` knows only the tunnel it
closes: when `startHost` fails, the deletion in its catch fails too, and `connect` tries again after a
login (`devtunnels.ts:198-206`, `291-294`), the first tunnel waits for the next run.

Proved (`TunnelOwnership_proofs`), for any set of runs: `TypeCorrect`, `ConnectedSafe`,
`RecordsCoverTunnels`, `RecoveryFirst`, `ShutdownIsClean` (which is `CleanShutdownCleansUp`). The conjuncts of `IndInv` beside the
types: `Phases` (what `life`, `pc` and `attempt` allow together), `OwnersStarted` (records, hosts
and tunnels belong to runs that have started), `TargetsEnded` (what is being recovered belongs
to a run that has ended), `OwnTunnel` (what is recorded and exists at each wait of a live run),
`StaleListed` (tunnels of runs that had ended are still listed until they are recovered) and
`HostStoppedFirst`. `TargetsEnded` is why a recovery cannot hurt a live run: a run that has
ended never lives again. The only liveness property is model-checked.

What the model shows beyond the properties: an orphaned create command that finishes after the recovery
of its run leaves a tunnel with no record (the exception `late` in the properties).

## 4. BindingRepository

Inside a process an operation is synchronous; between processes it interleaves at each file
system call, which is what an action is. `version` is the mtime (two writes have different
mtimes), `loaded` is `lastLoadedMtimeMs`, `temporary` the temporary file of the process.
`Answer`, `Edit` and `List` are the code after a refresh; `RollBack` the two `catch` clauses.

`bindings_alone` checks the file when operations of different processes do not overlap
(`Alone = TRUE`): processes start, restart, crash anywhere and fail at each call of `persist`.
Then every finished pairing and revocation is seen by every later lookup, and a map that counts
as fresh is the file. Three versions of the file cover a pairing, a revocation and one more
change by either process; two bindings let one operation disturb another's binding.

`bindings_overlap` removes that restriction and finds a revocation that a Station never notices
(section 11). Lost updates are possible in the same way: two processes that both read before either
renames.

With failing reads (`"read" \in Faults`) the code keeps its last known map on purpose, and
a later save can write that map over a newer file; the passing run leaves reads reliable. A save
that fails after its rename answers 500 while the binding stays in the file.
Left out: a file edited or deleted by hand, and malformed contents other than as a failing read.

Proved (`BindingRepository_proofs`), for any sets of processes and bindings: `RevocationsAreHonored`,
`PairingsAreKept` and `FreshMapsAreTheFile`, each under `Calm`: operations do not overlap
(`Alone`) and reads do not fail. Calls that write may fail and processes may crash anywhere.
`Calm` is needed: `bindings_overlap` refutes the first property without `Alone`, and the map that the
code keeps after a failing read is not the file. The conjuncts of `IndInv` beside the types and the
three properties: `OneAtATime` (at most one process is inside an operation), `Versions` (no map
stands for a time the file has not had), `Steps` (what map, temporary file and file contain at
each step of an operation, the roll-backs included) and `Reported` (the file already contains what
an operation reports as done). `Reported` carries the properties over the last step of an
operation, and `Steps` carries `Reported` over a persist that fails after its rename.

## 5. Connection

Two automata and the wires between them. `Wire` is the state of one WebSocket: the readyState
of its two ends and the frames under way in each direction, in order; `close()` queues a close
frame behind what was sent and leaves the end receiving; a broken wire loses what is under way
and each end notices in its own time. `Socket` is a small set of wires that are used again once
both ends have shut, so a phone can dial while the Station still serves its old socket.

| Code | Model |
|---|---|
| `connect`, `retry`, `disconnect` of `StationConnection` | `Connect`, `Retry`, `Disconnect` |
| `openSocket`, `scheduleReconnect`, its timer | `OpenSocket`, `ScheduleReconnect`, `ReconnectTimerFires` |
| `onopen`, `onclose`, `handleFrame` | `OnOpen`, `OnClose`, `OnHelloAck` ... `OnAlert`, `OnStaleFrame`; `Handles` is the check of the handshake state |
| `signNonce` and its answer | `OnAuthChallenge`, later `NonceSigned` or `SigningFails` |
| the connection limit of `ws.ts` | `OnConnection` (`Welcome`, `TurnAway`) |
| `sessionHandshake.ts` | `OnHello`, `OnAuthResponse`, `OnUnheard`, `HandshakeTimeout` |
| `attachAuthenticated` as the phone sees it | `SendAttach`, `SnapshotCaptured`, `Publish` |
| `enforceBindingRevocation` | `SweepRevoked` |

Abstracted: the length of the backoff; frames are well formed (decoding is section 9), and an
insecure URL or a constructor that throws are left out; slow viewers are in `StationSession`;
"biometric" stands for a prompt that is cancelled or fails. The Station may restart with
another protocol version.

`connection`: two wires (the current socket and one that is still closing), one retry, a limit
of two clients and one socket of others, which is enough to turn the phone away.

- `NoProtocolError`: whatever order sockets are replaced, signed for and closed in, the phone
  never closes a connection with PROTOCOL_ERROR.
- `OneAttempt`: never a reconnect timer beside a current socket, or an open socket that is not
  the current one.
- `FailedRests`: a failure stays until the user acts.
- `RejectedOnlyIfRevoked`: a stale signature, a timeout, a restart or a lost connection never
  make the Station reject a device it knows.
- `AttemptEnds` and `RevokedIsDetached` need fairness: frames and close events are delivered at each
  end, connection attempts are decided, timers fire, captures run, the sweep comes round. Nothing is
  assumed of the user, of the biometric prompt (it may stay open for ever: the Station's
  handshake timer is what ends such an attempt) or of the network, which may always fail.

Proved (`Connection_proofs`), for any number of wires, retries and clients: `TypeCorrect`,
`AtMostOneAttempt` (`OneAttempt`), `FailedStaysAtRest` (`FailedRests`), `OnlyRevokedAreRejected`
(`RejectedOnlyIfRevoked`) and `NoProtocolErrors` (`NoProtocolError`). Three invariants stand on the types:

- `AttemptInv`: which states of the phone have a current socket, a reconnect timer, or a wire that the phone
  has not begun to close. Nothing the Station or the network does opens an end of the phone.
- `RejectionInv`: a rejection on its way in either direction means that the binding is gone, and each
  signature on its way is over the nonce of its own socket. It needs the phone's signing
  to be bound to the socket it was asked for.
- `OrderInv`: what the Station sends on a connection is a fixed script, with notices and live
  frames in between, and what is under way is the part of it the phone has not read (`Queued`),
  while what the phone has sent fits what the Station still expects. So the frame the phone
  reads is one that the handshake state it has reached takes.

## 6. Pairing

`SavedStations` has the functions of `storage.ts` as tasks that go from one await to the next;
`Pairing` composes them with the screens that call them, the pairing request and the Station's
code. `task[t]` is a function under way: its `kind`, the await it stands `at`, the list it has
`seen`. `trouble` records which of three windows a behaviour has gone through:

- `"race"`: a list is written that was computed from an older one. `markConnected` or a prune
  that overlaps `savePairing` can overwrite the new record or bring back a removed one whose key
  is deleted.
- `"halfSaved"`: `savePairing` has written the list and failed to write the selection; `fail()`
  then deletes the key of a record that is saved (`storage.ts:36-37`, `pairing.ts:138-148`).
- `"halfMigrated"`: the migration of an older record failed half-way and returned an empty list,
  which the next save writes.

`SavedIsBound` has no exception (the binding is not revoked in this model: `Connection` has that).
`SavedHasKey` holds but for the first two windows, `SavedIsKept` but for the first and the
third: the exceptions are what the code does, and they are stated as narrowly as they could be.

`pairing`: two functions under way at the same time, two binding ids, one failing call of the store
or of the Station's repository; starts with nothing saved, one record, or one of an older
release; the Station makes new codes while a binding id is left. A behaviour is followed up to
its first race (`FirstRace`). What awaits a function goes on before the next callback
(`Resumes`), as promises do. `CHECK_DEADLOCK FALSE`: both functions may be under way with nothing left
that a user could do. The outcomes of the native module are in `DeviceKey`: which errors mean
that the phone must pair again, and which do not.

Proved (`Pairing_proofs`), for any binding ids and any number of functions under way: `TypeCorrect`,
`SavedIsBoundAlways`, `SavedHasKeyAlways` and `SavedIsKeptAlways`, with the exceptions of the
properties and no others. The proof does not go action by action: `Shape` says what a function holds at
each await, and every step is shown to be one of a few kinds (it does nothing, begins, makes
a key, proceeds, takes or writes the list, deletes keys, ...). The invariants are proved for the
kinds:

- `BoundInv`: what is saved, and what a function is about to save, is bound.
- `HasKeyInv`: the id of a pairing that is not saved yet is known to no other function (`PrivateInv`),
  and a key is there as long as a list, saved or held, may still need it (`KeyInv`).
- `IsKeptInv`: what was saved is in the list or in the record of an older release, and that record is
  in the list before it is deleted (`KeptInv`).

The theorems speak of every behaviour, also beyond the first race.

Seen in passing: a lost answer burns the code and leaves a binding that no phone knows
(`pairing.ts:170`); a `save` that fails after its rename leaves a binding while the code stays
usable, so one single-use code can bind two keys.

## 7. GitDesk

`GitScreens` is the phone: calls with a timer each, the Git screen's `busy` and the refresh that
follows a commit or checkout, the diff screen's pages. `GitDesk` is the Station: `active` is the
table of a viewer's requests, `tail` the chain of mutations, `job` how far each request is, `repo`
how many mutations have changed the repository. A connection is a number; losing one rejects
every pending call, while the Station may still work on it.

`git_rpc`: two calls, two connections, one request at a time for a viewer, so that a second one on
the same connection is refused and one on the next connection is queued behind the first; a diff
of three lines in pages of two. Answers list 256 or 257 entries, the last the phone takes and the
first it refuses: `Decoded` is its validator, and the loss of the connection that follows a
refused frame is `Lost`, which may happen at any time.

A mutation may fail before it changes anything or, when the status or the branches behind it cannot be
read, after it has: the caller is then told of an error though the change was made.

- `AnswerIsOwnOutcome`: nobody's mutation gets between a mutation and the status it answers with.
- `PagesMeet`: the diff on screen is the diff from its first line, whatever late or repeated pages
  arrive. Exception `again`: after a reconnect, or by Retry, `DiffScreen.tsx` calls `load()` with
  pages on screen and appends the first page again.
- `EverySlotFreed`: a mutation behind one that failed, timed out or was aborted gets its turn.
- `ButtonsReleased`: the buttons come back, whatever became of the operation or of the refresh
  behind it. (`NoCallLeft` only covers the bound on calls.)

Fairness: git processes end, both sides handle events, the timer of a call fires, and what awaits
a call goes on. `CHECK_DEADLOCK FALSE`: when the calls are used up the system stops.

Proved (`GitDesk_proofs`), for any number of calls, connections and lines and any size of page:
`TypeCorrect`, `AnswersAreOwnOutcomes` and `PagesMeetAlways`.

- `MutationInv`: each queued mutation is in `tail` once, only the head of `tail` is under way, and what
  it has changed is still the last change.
- `CallInv`: ids are given out in order, nothing is known of a call that has not been made, and a
  request travels on the connection of its call.
- `LoadInv`: the load of the diff screen began where the complete pages end; its request is under
  way, or the Station streams, or the end of the stream is under way, and the lines shown, those under
  way and those to come follow one another. Frames of other calls may lie anywhere between them.

Seen in passing: an answer overtaken by that of a later operation shows an older status; a
mutation whose answer is lost has happened, and its retry fails with "nothing to commit".

## 8. PhoneTerminal

The output of the Session is numbered, and what a terminal shows is a snapshot and the outputs
written since. `TerminalDocument` is the document in the WebView: `term` the visible terminal,
`parses` the hidden ones, `outQ` the queue, `sent` and `timer` the proposer of grids.
`TerminalScreen` is the React screen: its effects run after it has rendered, comparing what they
saw last (`ran`) with what is now; `startup` is `TerminalRendererStartup`; `size` is
`AutomaticTerminalSizeOwnership`; `kept` is what `StationConnection` replays to late subscribers.
`PhoneTerminal` adds the Session as this viewer meets it.

Assumptions: frames towards the phone are handled as they are sent, in order; the effects of one
render are one step and run before the next message, frame or change of the connection; the
readable grid of the phone is constant; a connection comes back only after a render and the
messages of the document, since the backoff is a second at least; the WebView does not reload by
itself. Mouse modes, the keyboard, selection, zoom and the latency display are left out.

`terminal`: two connections, two renderers (a retry after a failed start, or the screen opened
again), two events among outputs, error messages and losses of the size, two grids (1.5 million
states). `CHECK_DEADLOCK FALSE`: the bounds run out.

The Session may refuse a resize of the owner (`HandleResize`) or fail to restore the Station's grid
(`RestoreFails`, `Lost`): the grid stays, and viewers are sent an error message as output, which is numbered
like any other. `refused` remembers that the phone's grid was refused while it owns the size.

- `ScreenIsFaithful`: the visible terminal has the connection's snapshot and the outputs after it,
  each once and in order, and all of them once nothing is on its way. Exception `missed`: a
  snapshot that is replayed after output had followed it (`TerminalScreen.tsx:172-180`, or a screen
  opened again) loses that output until the history brings it, and after a reopening it never comes.
- `OwnershipReachesView`: the document thinks it owns the size exactly when the Station says so.
- `SessionTakesThePhoneGrid`: an owner's grid reaches the Session. Two exceptions. A grid that
  the Session refused (`refused`) counts as sent (`terminalDocument.js:67-69`) and is not proposed again
  while the phone owns the size. And a snapshot at the phone's grid counts as a grid that
  was sent (`terminalDocument.js:685`), so an owner may never propose it again after the Session
  has left that grid.
- `LiveMeansPainted`: the overlay lifts only from a terminal of the current connection.
- `HistoryArrives`: with the fairness of the event loops, a connection whose renderer runs shows its
  history or ends. Exception `reopened`: a screen opened again on the same connection does not
  acknowledge its paint (`wsClient.ts:211` does so once), gets no history, and goes on
  keeping the output for it.

Seen in passing: the document resizes its terminal before the Station has accepted the grid,
and a refusal is not undone. The grid of the visible terminal itself is compared by no property.

Proved (`PhoneTerminal_proofs`), for any number of connections, renderers, outputs and changes of
the owner, assuming that `None` is no grid, no snapshot and no state of a connection:

| Theorem | Property | Invariant |
|---|---|---|
| `PartsAgree` | `TypeOK`, `LinkInv` | `IndInv`, the two together |
| `OwnershipAgrees` | `OwnershipReachesView` | `OwnInv` |
| `LivePainted` | `LiveMeansPainted` | `PaintInv` |
| `GridReachesTheSession` | `SessionTakesThePhoneGrid` | `GridInv`, on `OwnInv` and `PaintInv` |
| `ScreenFaithful` | `ScreenIsFaithful` | `RunInv`, on `AckInv` and `PipeInv` |

`LinkInv`: what is kept for late subscribers is the snapshot of this connection, the screen has the
same, and the renderer's state, the size ownership and the document agree on what is ready.

`OwnInv`: with a connection, the Station's claim, the kept `session-size-owner` and the ownership of
the screen are the same; the document has what the screen had when it was told.

`PaintInv`: every parse under way, the message that it is applied and the live overlay are of this
connection, or of the last one while there is none. A new connection comes only after the render
and the messages of the old one, which is what the assumption on the backoff is for: without it a
late `snapshot-applied` lifts the overlay.

`GridInv`: an owner whose grid counts as sent either has it in the Session or has a resize on its way
(`OnItsWay`), and one whose grid is not sent has the timer set. It speaks only of snapshots at
another grid and of proposals that were not refused, which are the exceptions of the property.

`AckInv` and `PipeInv`: a connection acknowledges its first paint at most once, and keeps the output
for the history until that has come; the document parses one terminal at a time.
`RunInv` says that three sequences are runs of consecutive numbers: the queue continues the visible
terminal, or the one being parsed, up to the last output, and what is kept for the history
continues the snapshot. The history can therefore replace the terminal at any moment.
The laws of runs are `RunEmpty`, `RunAppend` and their neighbours. `Written` gives the screen after a queue
in closed form, so that no recursion is needed; TLC compares it with writing one by one.

## 9. Protocol and StationFrames

`Protocol` has the validators of `shared/src/protocol.ts`, a text being its length and a snapshot
its cells; alphabets of identifiers, keys and ISO times are left out. `StationFrames` has what the
Station builds: the snapshot of the canonical screen, the history in chunks, notices of size
ownership, tagged output, statuses and alerts of a line of output, answers, errors and diff
chunks. There is no state: the question is whether a phone decodes whatever the Station sends.
`MCGitDesk` evaluates the boundary cases (`SnapshotsDecode`, `HistoriesTransfer`, `AnswersDecode`: the last case
accepted and the first refused), and `StationFrames_proofs` proves for all values:

- `SnapshotDecoded`: the snapshot a viewer is sent is decoded, whatever attributes and colours a program
  uses, if no side is over 1000 and the text of each cell is plain (`PlainText`: at most 64 characters, none
  in a cell of width 0). The code copies text and width from xterm without a check of its own, so
  `PlainText` is a hypothesis about xterm. The limits on cells and on the text of a frame are not hypotheses:
  a cell takes at least 22 characters (`MinEncoded`), and `sendRaw` sends no frame over 1 MiB (`Sends`).
- `LargeScreenIsNotSent`: so a screen of more than 45 590 cells is never sent at all.
- `HistoryTransferred`: each chunk is decoded and taken in its turn, only the last one ends the
  transfer, and what has arrived then is the history.
- `SizeOwnerDecoded`, `TaggedOutputDecoded`, `ActivityDecoded`, `ErrorDecoded`: decoded always.
- `DiffChunked`: cutting a diff into frames ends, loses nothing, and every frame is decoded.
- `ListsDecoded`: a status or a list of branches is decoded exactly when it has at most 256
  entries; a log always has at most 100.

The proofs are case analyses on the shape of each frame; `Sliced` and `LastChunk` carry the
arithmetic of the chunks, `AttributesFit` and `ColorDecoded` that of the cells. Those about other frames than
snapshots, whose texts are bounded, assume that the encoded frame has at most 2 Mi characters (`Encoded`).

## 10. Only model-checked

- Liveness under fairness, of every module: beyond the proof system.
- `BindingRepository` with failing reads or overlapping operations: there the properties do not hold.
- That writing a queue of outputs (`Written`) is writing them one by one: an induction over the queue.

## 11. Where code and documents disagree

- **History overlaps the live output** (`session_history`). ADR 0004 freezes the history "at
  the snapshot boundary"; `session.ts:407` freezes the backend's scrollback, which is ahead of
  the parser. A chunk queued behind the capture is sent live and again as history.
- **An early signal does not clean up** (`tunnel_interrupt`). ADR 0003 gives handled signals and
  startup failures after creation the cleanup coordinator; `runStation.ts:79-80` registers the
  cleanup after `connect` has resolved, so a signal before that exits and leaves the tunnel
  to the recovery of the next run.
- **A revocation can stay unseen** (`bindings_overlap`). `load` reads the contents and then, in
  another call, the mtime (`bindings.ts:124` and `135`); a file renamed into place in between is
  taken for known, though "a running Station must honor `--revoke-binding` without a restart".

Read in the code, stated by an exception or a theorem above, or not checked:

- ADR 0011 gives the Session the phone's grid "while Android's Terminal screen is active"; the lease of a claim
  (`sessionSize.ts:56`) is renewed only by a resize, and the phone claims once per connection, so the claim of
  a quiet screen runs out and the Station's grid returns.
- ADR 0004 delays local output until the canonical parser has consumed it, while `session.ts` hands
  it to the local terminal before; it delivers output after the capture once, while a replayed
  snapshot can lose it (section 8).
- A repository with more than 256 changed files or branches can never be shown: the phone refuses the
  answer, closes, reconnects and asks again (`protocol.ts:799`, `gitService.ts:206`).
- A snapshot whose text exceeds the 1 MiB of `MAX_BUFFERED_OUTPUT_BYTES` (`session.ts:54`), about
  10 800 cells in true colour, is never sent: the viewer is closed at every attach. For more than
  45 590 cells, which `resize` accepts, that is so whatever they show (`LargeScreenIsNotSent`).
- A pasted text of 32 768 characters is cut to the limit before the markers of bracketed paste are
  added, and is then over the limit of an input frame.
- CONTEXT.md calls the pairing code single-use; it can bind two keys when a save fails late
  (section 6).
- `pruneStalePairings` says it removes Stations that "have not been opened"; it goes by the last
  time the Station let the phone in.
- `MouseReportingGuard.trackOutput` does not scan the chunk that releases a deferred flush
  (`mouseReportingGuard.ts:121-123`): a program that enables mouse reports in it goes untracked.
- The pinned transport has no `onClosing`: a close the Station starts reaches JavaScript as 1006,
  and a rejected phone retries where `wsClient.ts` would tell it to pair again.

## 12. Not modelled

- **Session backends, PTY, tmux, workstation presence**: process and terminal I/O. `StationSession`
  has what they do to a Session: output, exit, resizes, a refusal to resize.
- **Scrollback buffer, the idle timer and patterns of the phase tracker**: they change the text that
  flows, not its order; the frames they lead to are in `StationFrames`.
- **Git commands and the parsing of their output**: external.
- **Foreground controller**: it queues calls to an Android service and ignores their failures;
  what matters is the platform's behaviour.
- **Pinned transport, terminal IME**: bridges. `Wire` models the transport as `wsClient.ts` uses it.
- **Cryptography, QR codes, reachability probes, layout of the screens, website.**

## 13. Plan

Modelled in this order: `StationSession` with `SizeArbiter`, `TunnelOwnership`, `BindingRepository`,
`Connection`, `Pairing`, `GitDesk`, `PhoneTerminal`, `Protocol` with `StationFrames`, `MouseGuard`. The
safety properties of all of them are proved, except where section 10 says otherwise. What is left:

1. An abstract specification of what a phone shows (a prefix of the Session's output, replaced at
   snapshots), with `PhoneTerminal` implementing it step by step as `StationSession` does `SizeArbiter`.
2. Step refinements of other promises worth stating apart from the code, such as what pairing
   promises about a Station and its key, from the invariants already proved.
3. The alerts of the Session phase tracker, which need the text of the output abstracted.
