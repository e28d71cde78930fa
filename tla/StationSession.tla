--------------------------- MODULE StationSession ---------------------------
(***************************************************************************)
(* The live terminal session of the Station: one PTY, the canonical        *)
(* terminal screen that parses its output, and the WebSocket viewers that  *)
(* mirror it (cli/src/session.ts, terminalScreen.ts, sessionSize.ts,       *)
(* sessionScrollback.ts).                                                  *)
(*                                                                         *)
(* Node runs one callback to completion at a time, so an action is a whole *)
(* callback: a PTY read, one task of the parser queue, an inbound frame, a *)
(* lease timer, a socket event.  What interleaves is the order of the      *)
(* callbacks, and above all the gap between the moment a task enters the   *)
(* parser queue and the moment it runs.                                    *)
(*                                                                         *)
(* A viewer is one WebSocket connection; a phone that reconnects is        *)
(* another viewer.  It enters when its handshake succeeds                  *)
(* (attachAuthenticated).                                                  *)
(***************************************************************************)
EXTENDS Naturals, Sequences, FiniteSets

CONSTANTS
  Viewer,       \* WebSocket connections
  NoViewer,     \* "undefined" where a WebSocket is expected
  Dims,         \* terminal dimensions (columns x rows)
  InitialDims,  \* the dimensions the Session is created with
  NoDims,       \* no dimensions received yet
  Unset,        \* no value yet, where a number is expected
  FrameTypes,   \* inbound frame types that viewers send in this instance
  SlowViewer,   \* viewers whose socket buffer may fill up
  MaxOutput,    \* bound: chunks the PTY itself emits
  MaxFrames,    \* bound: frames received from one viewer
  MaxResizes    \* bound: resizes of the screen, past and queued, before a Station resize of it

AllFrameTypes ==
  {"input", "terminal-reset", "resize", "session-snapshot-applied",
   "terminal-size-claim", "terminal-size-release", "malformed"}

ASSUME ViewerAssumption == NoViewer \notin Viewer
ASSUME DimsAssumption == InitialDims \in Dims /\ NoDims \notin Dims
ASSUME UnsetAssumption == Unset \notin Nat
ASSUME FrameAssumption == FrameTypes \subseteq AllFrameTypes
ASSUME SlowAssumption == SlowViewer \subseteq Viewer
ASSUME BoundAssumption == MaxOutput \in Nat /\ MaxFrames \in Nat /\ MaxResizes \in Nat

VARIABLES
  ws,                \* readyState of each socket
  clogged,           \* sockets whose bufferedAmount is at the limit
  seen,              \* what each viewer has received on the wire, until it is closed
  stage,             \* progress of attachAuthenticated for each viewer
  inbound,           \* inboundQueue: frames held back until attachReady
  replaying,         \* the viewer whose inboundQueue is being replayed
  received,          \* frames received from each viewer
  handled,           \* number of the last frame handled for each viewer
  viewers,           \* keys of pendingLatencyTags
  subscribers,       \* viewers that receive live frames
  pendingScrollback, \* history frozen for a viewer, until acknowledged
  sizeClaimants,     \* claim sequence of each viewer, 0 when it has no claim
  sizeClaimSequence,
  sizeOwner,
  current,           \* currentCols x currentRows
  station,           \* stationCols x stationRows
  resizeFailed,      \* history: some backend.resize has thrown
  local,             \* the local workstation terminal
  queue,             \* CanonicalTerminalScreen.queue: tasks not yet run
  parsed,            \* what the canonical screen has consumed, in order
  pushed,            \* PtyOutputHub: chunks appended to the scrollback
  exited, disposed

wireVars    == <<ws, clogged, seen>>
inboundVars == <<inbound, replaying, received, handled>>
attachVars  == <<stage, viewers, subscribers, pendingScrollback>>
sizeVars    == <<sizeClaimants, sizeClaimSequence, sizeOwner, current, station,
                 resizeFailed>>
screenVars  == <<queue, parsed, pushed>>
lifeVars    == <<local, exited, disposed>>
vars == <<wireVars, inboundVars, attachVars, sizeVars, screenVars, lifeVars>>

-----------------------------------------------------------------------------
(* Data *)

\* One unit of work of the parser queue.  The chunk of a "write" is its number.
Write(n)   == [op |-> "write", chunk |-> n]
Resize(d)  == [op |-> "resize", dims |-> d]
Capture(v) == [op |-> "capture", viewer |-> v]

ScreenOp == [op : {"write"}, chunk : Nat] \cup [op : {"resize"}, dims : Dims]
Task == ScreenOp \cup [op : {"capture"}, viewer : Viewer]

\* An output frame of the Session's own, an error message that goes to the socket
\* behind the canonical screen's back: the screen never parses it.
Notice == [op |-> "notice"]
ScreenFrame == ScreenOp \cup {Notice}

Frame == {f \in [id : 1..MaxFrames, type : FrameTypes, dims : Dims] :
            f.type # "resize" => f.dims = InitialDims}

\* A viewer's side of the wire: the last terminal-size-owner frame, the last
\* grid announced before the snapshot, the parser position the snapshot stands
\* for, the screen it shows (snapshot, then live frames), and the histories it was
\* sent, each by the number of chunks it holds.
Seen == [owner : {"none", "station", "other", "self"}, grid : Dims \cup {NoDims},
         snapshot : Nat \cup {Unset}, screen : Seq(ScreenFrame), history : Seq(Nat)]

\* What a viewer knows before its attach, and nobody asks after its socket is closed.
Unseen == [owner |-> "none", grid |-> NoDims, snapshot |-> Unset, screen |-> <<>>,
           history |-> <<>>]

\* The grid a screen has after a run of screen operations.
GridOf(log) ==
  LET resizes == {i \in DOMAIN log : log[i].op = "resize"}
  IN  IF resizes = {} THEN InitialDims
      ELSE log[CHOOSE i \in resizes : \A j \in resizes : j <= i].dims

Count(log, op) == Cardinality({i \in DOMAIN log : log[i].op = op})
Chunks(log) == Count(log, "write")

-----------------------------------------------------------------------------
(* Sending: sendRaw drops a frame for a socket that is not open, and closes  *)
(* one whose buffered output would pass MAX_BUFFERED_OUTPUT_BYTES.           *)

Reaches(v) == ws[v] = "open" /\ v \notin clogged
Overrun(S) == {v \in S : ws[v] = "open" /\ v \in clogged}

\* ws.close on the sockets of S: only an open socket changes state.
Closing(S) == [v \in Viewer |-> IF v \in S /\ ws[v] = "open" THEN "closing" ELSE ws[v]]

OwnerState(v, owner) == CASE owner = NoViewer -> "station"
                          [] owner = v        -> "self"
                          [] OTHER            -> "other"

\* broadcastSizeOwnershipState: every viewer that can be reached is told.
OwnerTold(owner) ==
  [v \in Viewer |-> IF v \in viewers /\ Reaches(v)
                    THEN [seen[v] EXCEPT !.owner = OwnerState(v, owner)] ELSE seen[v]]

\* An error message to the viewers of S, on top of what they know already.
Noticed(known, S) ==
  [v \in Viewer |-> IF v \in S /\ Reaches(v)
                    THEN [known[v] EXCEPT !.screen = Append(@, Notice)] ELSE known[v]]

-----------------------------------------------------------------------------
(* Terminal Size Ownership                                                   *)

Claimants == {v \in Viewer : sizeClaimants[v] # 0}

\* mostRecentSizeClaimant, over the claimants S.
MostRecent(S) == IF S = {} THEN NoViewer
                 ELSE CHOOSE v \in S : \A w \in S : sizeClaimants[w] <= sizeClaimants[v]

\* Fault: the new size is remembered though the backend refused it.
ApplyResizeUnchecked(d, ok, q) ==
  /\ resizeFailed' = (resizeFailed \/ ~ok)
  /\ current' = d
  /\ queue' = IF ok THEN Append(q, Resize(d)) ELSE q

\* applyResize: the backend resizes (or throws: ok is FALSE and nothing else
\* happens), the screen's resize is queued, and the new size is current at once.
ApplyResize(d, ok, q) ==
  /\ resizeFailed' = (resizeFailed \/ ~ok)
  /\ current' = IF ok THEN d ELSE current
  /\ queue' = IF ok THEN Append(q, Resize(d)) ELSE q

\* Who follows v as owner.
\* Fault: the successor is chosen before the claim is deleted.
SuccessorBeforeDelete(v) == MostRecent(Claimants)
Successor(v) == MostRecent(Claimants \ {v})

\* Whether the Station's dimensions come back when v gives up its claim.
\* Fault: not while another viewer is attached.
RestoresForLastViewer(v) ==
  sizeOwner = v /\ Successor(v) = NoViewer /\ viewers \subseteq {v} /\ current # station
Restores(v) == sizeOwner = v /\ Successor(v) = NoViewer /\ current # station

\* releaseSizeClaim: the claim goes; an owner is followed by the most recent
\* other claimant, and by the Station, with its own size, when there is none.
\* q is the parser queue the release finds.
ReleaseSizeClaim(v, ok, q) ==
  /\ sizeClaimants' = [sizeClaimants EXCEPT ![v] = 0]
  /\ sizeOwner' = IF sizeOwner = v THEN Successor(v) ELSE sizeOwner
  /\ IF Restores(v) THEN ApplyResize(station, ok, q)
     ELSE queue' = q /\ UNCHANGED <<current, resizeFailed>>
  /\ UNCHANGED <<sizeClaimSequence, station>>

\* The viewers that the release broadcasts to, and what they then know: who owns
\* the size now, after a notice to the subscribers when the Station's dimensions
\* could not be restored.
\* Fault: only the return to the Station is announced.
ToldOnRelease(v) == IF sizeOwner = v THEN viewers ELSE {}
SeenOnReleaseToStation(v, ok) ==
  IF sizeOwner = v /\ Successor(v) = NoViewer THEN OwnerTold(NoViewer) ELSE seen
SeenOnRelease(v, ok) ==
  IF sizeOwner # v THEN seen
  ELSE IF Restores(v) /\ ~ok THEN Noticed(OwnerTold(NoViewer), subscribers)
  ELSE OwnerTold(Successor(v))

-----------------------------------------------------------------------------
Init ==
  /\ ws = [v \in Viewer |-> "absent"]
  /\ clogged = {}
  /\ seen = [v \in Viewer |-> Unseen]
  /\ stage = [v \in Viewer |-> "none"]
  /\ inbound = [v \in Viewer |-> <<>>]
  /\ replaying = NoViewer
  /\ received = [v \in Viewer |-> 0]
  /\ handled = [v \in Viewer |-> 0]
  /\ viewers = {}
  /\ subscribers = {}
  /\ pendingScrollback = [v \in Viewer |-> Unset]
  /\ sizeClaimants = [v \in Viewer |-> 0]
  /\ sizeClaimSequence = 0
  /\ sizeOwner = NoViewer
  /\ current = InitialDims
  /\ station = InitialDims
  /\ resizeFailed = FALSE
  /\ local \in {"waiting", "gone"}   \* an embedded workstation, or none
  /\ queue = <<>>
  /\ parsed = <<>>
  /\ pushed = 0
  /\ exited = FALSE
  /\ disposed = FALSE

\* A capture or a resize at the head of the parser queue is a promise job, and
\* Node runs those before it takes the next callback; the parsing of a write is a
\* callback of its own (xterm's timer).
Settling == queue # <<>> /\ Head(queue).op # "write"

\* No other callback runs while an inbound queue is being replayed, or while the
\* parser queue has promise jobs to run.
Idle == replaying = NoViewer /\ ~Settling

-----------------------------------------------------------------------------
(* The PTY and the workstation                                               *)

\* hub.push and the Session's data listener: into the scrollback at once, onto
\* the screen when the parser queue gets there.  dispose removes the listener.
Push ==
  /\ pushed' = pushed + 1
  /\ queue' = IF disposed THEN queue ELSE Append(queue, Write(pushed + 1))
  /\ UNCHANGED parsed

PtyOutput ==
  /\ Idle /\ ~exited /\ pushed < MaxOutput
  /\ Push
  /\ UNCHANGED <<wireVars, inboundVars, attachVars, sizeVars, lifeVars>>

\* applyStationResize: remembered always, applied unless a viewer owns the size.
ApplyStationResize(d, ok) ==
  /\ station' = d
  /\ IF sizeOwner = NoViewer THEN ApplyResize(d, ok, queue)
     ELSE UNCHANGED <<current, queue, resizeFailed>>

StationResize(d, ok) ==
  /\ Idle /\ local = "attached"
  /\ sizeOwner = NoViewer => Count(parsed, "resize") + Count(queue, "resize") < MaxResizes
  /\ ApplyStationResize(d, ok)
  /\ UNCHANGED <<sizeClaimants, sizeClaimSequence, sizeOwner, parsed, pushed>>
  /\ UNCHANGED <<wireVars, inboundVars, attachVars, lifeVars>>

\* The local sink fails or is disposed: its input and resizes are ignored.
LocalGone ==
  /\ Idle /\ local = "attached"
  /\ local' = "gone"
  /\ UNCHANGED <<exited, disposed, wireVars, inboundVars, attachVars, sizeVars, screenVars>>

-----------------------------------------------------------------------------
(* Attaching a viewer                                                        *)

\* The capture joins the end of the parser queue.
\* Fault: it overtakes what is queued.
CaptureFirst(q, v) == <<Capture(v)>> \o q
CaptureLast(q, v) == Append(q, Capture(v))

\* attachAuthenticated.  The socket may already be closing: the handshake timer
\* or the shutdown of the server closed it after the auth-response was sent.
\* notifyAuthenticatedClient runs first: the first viewer starts the embedded
\* workstation, which resizes the Session to its own terminal (d) and gives up
\* if that throws; an ended Session has dropped that listener.  Then the owner
\* and the grid are sent, and the capture joins the parser queue.
AttachAuthenticated(v, d, ok) ==
  LET starts  == local = "waiting" /\ ~exited
      applies == starts /\ sizeOwner = NoViewer
      grid    == IF applies /\ ok THEN d ELSE current
      q       == IF applies /\ ok THEN Append(queue, Resize(d)) ELSE queue
  IN  /\ Idle /\ stage[v] = "none"
      /\ stage' = [stage EXCEPT ![v] = "attaching"]
      /\ viewers' = viewers \cup {v}
      /\ local' = IF ~starts THEN local ELSE IF applies /\ ~ok THEN "gone" ELSE "attached"
      /\ station' = IF starts THEN d ELSE station
      /\ current' = grid
      /\ resizeFailed' = (resizeFailed \/ (applies /\ ~ok))
      /\ queue' = CaptureLast(q, v)
      /\ \/ /\ ~disposed
            /\ ws' = [ws EXCEPT ![v] = "open"]
            /\ seen' = [seen EXCEPT ![v].owner = OwnerState(v, sizeOwner), ![v].grid = grid]
         \/ /\ ws' = [ws EXCEPT ![v] = "closing"]
            /\ UNCHANGED seen
      /\ UNCHANGED <<clogged, inboundVars, subscribers, pendingScrollback, sizeClaimants,
                     sizeClaimSequence, sizeOwner, parsed, pushed, exited, disposed>>

\* Fault: the size claim outlives the socket.
DetachKeepsClaim(v, ok, q, told) ==
  /\ stage' = [stage EXCEPT ![v] = "detached"]
  /\ inbound' = [inbound EXCEPT ![v] = <<>>]
  /\ viewers' = viewers \ {v}
  /\ subscribers' = subscribers \ {v}
  /\ pendingScrollback' = [pendingScrollback EXCEPT ![v] = Unset]
  /\ queue' = q
  /\ UNCHANGED <<received, handled, sizeVars>>

\* detach, without its socket bookkeeping; told are the viewers that the release
\* of v's size claim broadcasts to.
Detach(v, ok, q, told) ==
  /\ stage' = [stage EXCEPT ![v] = "detached"]
  /\ inbound' = [inbound EXCEPT ![v] = <<>>]
  /\ viewers' = viewers \ {v}
  /\ subscribers' = subscribers \ ({v} \cup Overrun(told))
  /\ pendingScrollback' = [pendingScrollback EXCEPT ![v] = Unset]
  /\ ReleaseSizeClaim(v, ok, q)
  /\ UNCHANGED <<received, handled>>

\* The socket closes (peer, network or the end of our own close): detach runs.
SocketClosed(v, ok) ==
  LET told == ToldOnRelease(v) \ {v}
  IN  /\ Idle /\ ws[v] \in {"open", "closing"} /\ stage[v] # "none"
      /\ ws' = [Closing(told \cap clogged) EXCEPT ![v] = "closed"]
      /\ clogged' = clogged \ {v}
      /\ IF stage[v] = "detached"
         THEN /\ seen' = [seen EXCEPT ![v] = Unseen]
              /\ UNCHANGED <<inboundVars, attachVars, sizeVars, queue>>
         ELSE /\ Detach(v, ok, queue, told)
              /\ seen' = [SeenOnRelease(v, ok) EXCEPT ![v] = Unseen]
              /\ UNCHANGED replaying
      /\ UNCHANGED <<parsed, pushed, lifeVars>>

\* The socket's send buffer reaches its limit, or drains.
Clog(v) ==
  /\ replaying = NoViewer /\ v \in SlowViewer /\ ws[v] = "open"
  /\ clogged' = IF v \in clogged THEN clogged \ {v} ELSE clogged \cup {v}
  /\ UNCHANGED <<ws, seen, inboundVars, attachVars, sizeVars, screenVars, lifeVars>>

-----------------------------------------------------------------------------
(* The parser queue                                                          *)

\* What the screen of the headless terminal holds when a capture runs.
\* Fault: the backend's own screen, which is ahead of the parser.
BackendScreen == parsed \o SelectSeq(queue, LAMBDA task : task.op # "capture")
CapturedScreen == parsed

\* The queue after a capture that was refused: enqueue swallows a failed task.
\* Fault: the failed task breaks the chain, and what is queued never runs.
BrokenChain == <<>>
AfterRefusal == Tail(queue)

\* The sockets closed when the capture of v is refused.
\* Fault: none.
LeftOpen(v) == {}
RefusedSockets(v) == {v}

\* Whose inboundQueue is replayed once v is ready.
\* Fault: nobody's; later frames overtake the ones held back.
ReplayNothing(v) == NoViewer
ReplayOf(v) == IF inbound[v] = <<>> THEN NoViewer ELSE v

\* Fault: a queued capture is run as if it were screen output.
RunAnyOp ==
  /\ replaying = NoViewer /\ queue # <<>>
  /\ queue' = Tail(queue)
  /\ parsed' = Append(parsed, Head(queue))
  /\ UNCHANGED <<wireVars, inboundVars, attachVars, sizeVars, pushed, lifeVars>>

\* broadcast: one live frame to every subscriber.
Broadcast(op) ==
  /\ seen' = [v \in Viewer |-> IF v \in subscribers /\ Reaches(v)
                              THEN [seen[v] EXCEPT !.screen = Append(@, op)] ELSE seen[v]]
  /\ ws' = Closing(Overrun(subscribers))
  /\ subscribers' = subscribers \ Overrun(subscribers)

\* A write or a resize is parsed, then sent to the subscribers.  The disposed
\* screen parses nothing (and there are no subscribers left).
RunScreenOp ==
  /\ replaying = NoViewer /\ queue # <<>> /\ Head(queue).op # "capture"
  /\ queue' = Tail(queue)
  /\ IF disposed THEN UNCHANGED <<parsed, seen, ws, subscribers>>
     ELSE parsed' = Append(parsed, Head(queue)) /\ Broadcast(Head(queue))
  /\ UNCHANGED <<clogged, inboundVars, stage, viewers, pendingScrollback, sizeVars, pushed,
                 lifeVars>>

\* A capture whose viewer is gone, or whose Session has ended, detaches.
RefuseCapture(v, ok) ==
  LET told == ToldOnRelease(v)
  IN  /\ stage[v] = "detached" \/ exited \/ ws[v] # "open"
      /\ IF stage[v] = "detached"
         THEN ws' = Closing(RefusedSockets(v)) /\ queue' = AfterRefusal
              /\ UNCHANGED <<seen, inboundVars, attachVars, sizeVars>>
         ELSE /\ ws' = Closing(RefusedSockets(v) \cup (told \cap clogged))
              /\ Detach(v, ok, AfterRefusal, told)
              /\ seen' = SeenOnRelease(v, ok)
              /\ UNCHANGED replaying
      /\ UNCHANGED <<clogged, parsed>>

\* The snapshot goes out, the viewer subscribes, and its held frames follow.
\* The history frozen here is whatever the backend's scrollback holds by now.
SendSnapshot(v) ==
  /\ stage[v] # "detached" /\ ~exited /\ ws[v] = "open"
  /\ pendingScrollback' = [pendingScrollback EXCEPT ![v] = pushed]
  /\ seen' = IF Reaches(v)
             THEN [seen EXCEPT ![v].snapshot = Len(parsed), ![v].screen = CapturedScreen] ELSE seen
  /\ ws' = Closing(Overrun({v}))
  /\ subscribers' = subscribers \cup {v}
  /\ stage' = [stage EXCEPT ![v] = "ready"]
  /\ replaying' = ReplayOf(v)
  /\ queue' = Tail(queue)
  /\ UNCHANGED <<clogged, inbound, received, handled, viewers, sizeVars, parsed>>

RunCapture(ok) ==
  /\ replaying = NoViewer /\ queue # <<>> /\ Head(queue).op = "capture"
  /\ LET v == Head(queue).viewer
     IN  \/ /\ disposed
            /\ queue' = Tail(queue)
            /\ UNCHANGED <<wireVars, inboundVars, attachVars, sizeVars, parsed>>
         \/ ~disposed /\ RefuseCapture(v, ok)
         \/ ~disposed /\ SendSnapshot(v)
  /\ UNCHANGED <<pushed, lifeVars>>
-----------------------------------------------------------------------------
(* Inbound frames: handleMessage, for a viewer whose attach is complete      *)

\* sendTo: a frame to v alone can find v's buffer full.
SendTo(v) ==
  /\ ws' = Closing(Overrun({v}))
  /\ subscribers' = subscribers \ Overrun({v})

SendNotice(v) ==
  /\ seen' = Noticed(seen, {v})
  /\ SendTo(v)

HandleInput(v, f) ==
  /\ f.type = "input"
  /\ UNCHANGED <<wireVars, attachVars, sizeVars, screenVars>>

\* The reset sequence is output of the terminal, not input of the process; the
\* backend may fail to give it out, and v is told.
HandleTerminalReset(v, f, ok) ==
  /\ f.type = "terminal-reset"
  /\ IF ok THEN Push /\ UNCHANGED <<ws, subscribers, seen>>
     ELSE SendNotice(v) /\ UNCHANGED screenVars
  /\ UNCHANGED <<clogged, stage, viewers, pendingScrollback, sizeVars>>

\* Whose resize frames are applied.
\* Fault: also those of any viewer while the Station owns the size.
MayResizeUnlessOwned(v) == sizeOwner \in {v, NoViewer}
MayResize(v) == sizeOwner = v

HandleResize(v, f, ok) ==
  /\ f.type = "resize"
  /\ \/ /\ ~MayResize(v)
        /\ seen' = IF Reaches(v) THEN [seen EXCEPT ![v].owner = OwnerState(v, sizeOwner)]
                   ELSE seen
        /\ SendTo(v)
        /\ UNCHANGED <<queue, sizeVars>>
     \/ /\ MayResize(v)
        /\ ApplyResize(f.dims, ok, queue)
        /\ IF ok THEN UNCHANGED <<ws, subscribers, seen>> ELSE SendNotice(v)
        /\ UNCHANGED <<sizeClaimants, sizeClaimSequence, sizeOwner, station>>
  /\ UNCHANGED <<clogged, stage, viewers, pendingScrollback, parsed, pushed>>

SendHistory(v) ==
  seen' = IF Reaches(v) THEN [seen EXCEPT ![v].history = Append(@, pendingScrollback[v])]
          ELSE seen

\* Fault: the history is not forgotten, a second acknowledgement sends it again.
HandleSnapshotAppliedAgain(v, f) ==
  /\ f.type = "session-snapshot-applied"
  /\ IF pendingScrollback[v] = Unset
     THEN ws' = Closing({v}) /\ UNCHANGED <<seen, subscribers>>
     ELSE SendHistory(v) /\ SendTo(v)
  /\ UNCHANGED <<clogged, stage, viewers, pendingScrollback, sizeVars, screenVars>>

\* sendPendingScrollback: the history goes out once, after the first paint.
HandleSnapshotApplied(v, f) ==
  /\ f.type = "session-snapshot-applied"
  /\ IF pendingScrollback[v] = Unset
     THEN ws' = Closing({v}) /\ UNCHANGED <<seen, subscribers>>
     ELSE SendHistory(v) /\ SendTo(v)
  /\ pendingScrollback' = [pendingScrollback EXCEPT ![v] = Unset]
  /\ UNCHANGED <<clogged, stage, viewers, sizeVars, screenVars>>

\* claimSizeOwnership: a first claim takes the size over, a repeated one only
\* renews its lease.
HandleClaim(v, f) ==
  /\ f.type = "terminal-size-claim"
  /\ IF sizeClaimants[v] # 0
     THEN UNCHANGED <<wireVars, subscribers, sizeVars>>
     ELSE /\ sizeClaimSequence' = sizeClaimSequence + 1
          /\ sizeClaimants' = [sizeClaimants EXCEPT ![v] = sizeClaimSequence + 1]
          /\ sizeOwner' = v
          /\ seen' = OwnerTold(v)
          /\ ws' = Closing(Overrun(viewers))
          /\ subscribers' = subscribers \ Overrun(viewers)
          /\ UNCHANGED <<clogged, current, station, resizeFailed>>
  /\ UNCHANGED <<stage, viewers, pendingScrollback, screenVars>>

GiveUpClaim(v, ok) ==
  LET told == ToldOnRelease(v)
  IN  /\ ReleaseSizeClaim(v, ok, queue)
      /\ seen' = SeenOnRelease(v, ok)
      /\ ws' = Closing(Overrun(told))
      /\ subscribers' = subscribers \ Overrun(told)
      /\ UNCHANGED <<clogged, stage, viewers, pendingScrollback, parsed, pushed>>

HandleRelease(v, f, ok) ==
  /\ f.type = "terminal-size-release"
  /\ GiveUpClaim(v, ok)

\* A frame that does not decode: v is told, then its socket is closed; a frame that
\* only the Station may send closes it without a word.
HandleMalformed(v, f) ==
  /\ f.type = "malformed"
  /\ ws' = Closing({v})
  /\ \/ seen' = Noticed(seen, {v}) /\ subscribers' = subscribers \ Overrun({v})
     \/ UNCHANGED <<seen, subscribers>>
  /\ UNCHANGED <<clogged, stage, viewers, pendingScrollback, sizeVars, screenVars>>

HandleMessage(v, f, ok) ==
  /\ \/ HandleInput(v, f)
     \/ HandleTerminalReset(v, f, ok)
     \/ HandleResize(v, f, ok)
     \/ HandleSnapshotApplied(v, f)
     \/ HandleClaim(v, f)
     \/ HandleRelease(v, f, ok)
     \/ HandleMalformed(v, f)
  /\ handled' = [handled EXCEPT ![v] = f.id]
  /\ UNCHANGED lifeVars

\* messageHandler.  A closing socket still delivers what the peer has sent.  The
\* ws library may hand over several frames in one callback, so a frame does not
\* wait for the parser queue to settle.
Receive(v, f, ok) ==
  /\ replaying = NoViewer /\ ws[v] \in {"open", "closing"}
  /\ f.id = received[v] + 1
  /\ received' = [received EXCEPT ![v] = f.id]
  /\ \/ /\ stage[v] = "attaching"
        /\ inbound' = [inbound EXCEPT ![v] = Append(@, f)]
        /\ UNCHANGED <<handled, wireVars, attachVars, sizeVars, screenVars, lifeVars>>
     \/ /\ stage[v] = "ready"
        /\ HandleMessage(v, f, ok)
        /\ UNCHANGED inbound
  /\ UNCHANGED replaying

\* The loop over inboundQueue, one frame at a time; nothing runs in between.
Replay(v, ok) ==
  /\ replaying = v
  /\ HandleMessage(v, Head(inbound[v]), ok)
  /\ inbound' = [inbound EXCEPT ![v] = Tail(@)]
  /\ replaying' = IF Len(inbound[v]) = 1 THEN NoViewer ELSE v
  /\ UNCHANGED received

\* The lease timer of a claim fires.
LeaseExpires(v, ok) ==
  /\ Idle /\ sizeClaimants[v] # 0
  /\ GiveUpClaim(v, ok)
  /\ UNCHANGED <<inboundVars, lifeVars>>

-----------------------------------------------------------------------------
(* The end of the Session                                                    *)

\* What handleExit and dispose share: no claims, no owner, no viewers.
EndSession ==
  /\ exited' = TRUE
  /\ local' = "gone"
  /\ sizeClaimants' = [v \in Viewer |-> 0]
  /\ sizeOwner' = NoViewer
  /\ viewers' = {}
  /\ subscribers' = {}
  /\ pendingScrollback' = [v \in Viewer |-> Unset]
  /\ UNCHANGED <<clogged, seen, inboundVars, stage, sizeClaimSequence, current, station,
                 resizeFailed, screenVars>>

\* handleExit closes the viewers it knows of; tasks already queued stay queued.
PtyExit ==
  /\ Idle /\ ~exited
  /\ EndSession
  /\ ws' = Closing(viewers \cup subscribers)
  /\ UNCHANGED disposed

\* The shutdown callback: session.dispose, then server.close, which closes
\* every socket of the server.
Dispose ==
  /\ Idle
  /\ EndSession
  /\ ws' = Closing(Viewer)
  /\ disposed' = TRUE

-----------------------------------------------------------------------------
Next ==
  \/ PtyOutput
  \/ LocalGone
  \/ RunScreenOp
  \/ PtyExit
  \/ Dispose
  \/ \E ok \in BOOLEAN :
       \/ RunCapture(ok)
       \/ \E d \in Dims : StationResize(d, ok)
       \/ \E v \in Viewer :
            \/ SocketClosed(v, ok)
            \/ LeaseExpires(v, ok)
            \/ Replay(v, ok)
            \/ \E d \in Dims : AttachAuthenticated(v, d, ok)
            \/ \E f \in Frame : Receive(v, f, ok)
  \/ \E v \in Viewer : Clog(v)

Spec == Init /\ [][Next]_vars
-----------------------------------------------------------------------------
(* Properties                                                                *)

TypeOK ==
  /\ ws \in [Viewer -> {"absent", "open", "closing", "closed"}]
  /\ clogged \subseteq Viewer
  /\ seen \in [Viewer -> Seen]
  /\ stage \in [Viewer -> {"none", "attaching", "ready", "detached"}]
  /\ inbound \in [Viewer -> Seq(Frame)]
  /\ replaying \in Viewer \cup {NoViewer}
  /\ received \in [Viewer -> Nat]
  /\ handled \in [Viewer -> Nat]
  /\ viewers \subseteq Viewer
  /\ subscribers \subseteq Viewer
  /\ pendingScrollback \in [Viewer -> Nat \cup {Unset}]
  /\ sizeClaimants \in [Viewer -> Nat]
  /\ sizeClaimSequence \in Nat
  /\ sizeOwner \in Viewer \cup {NoViewer}
  /\ current \in Dims
  /\ station \in Dims
  /\ resizeFailed \in BOOLEAN
  /\ local \in {"waiting", "attached", "gone"}
  /\ queue \in Seq(Task)
  /\ parsed \in Seq(ScreenOp)
  /\ pushed \in Nat
  /\ exited \in BOOLEAN
  /\ disposed \in BOOLEAN

\* The place of the i-th frame of a viewer among those the canonical screen parsed.
Place(frames, i) == Cardinality({j \in 1..i : frames[j] # Notice})

\* The frames of a viewer, its notices left out, are the log, in order.
Mirrors(frames, log) ==
  /\ Place(frames, Len(frames)) = Len(log)
  /\ \A i \in DOMAIN frames : frames[i] # Notice => frames[i] = log[Place(frames, i)]

\* Snapshot before live (ADR 0004): what a live viewer shows, the snapshot and
\* then every frame sent to it, is what the canonical screen has parsed; no chunk
\* or resize is missing, repeated or out of order, whatever was queued when the
\* viewer attached.  The exception are the Session's own error messages (a failed
\* resize, restore or terminal reset, a malformed frame), which the viewer shows
\* and the canonical screen never parses.
LiveScreenIsCanonical ==
  \A v \in subscribers : ws[v] = "open" => Mirrors(seen[v].screen, parsed)

\* The grid announced when a viewer attaches is the grid of the snapshot it gets
\* later, though resizes before and after it were still queued.
AnnouncedGridIsSnapshotGrid ==
  \A v \in Viewer : seen[v].snapshot # Unset =>
    GridOf(SubSeq(parsed, 1, seen[v].snapshot)) = seen[v].grid

\* The size is owned by the newest claim still standing, however claims, leases,
\* releases, disconnects and the end of the Session interleave.
OwnerIsMostRecentClaimant ==
  /\ sizeOwner = NoViewer <=> Claimants = {}
  /\ sizeOwner # NoViewer =>
       /\ sizeOwner \in Claimants
       /\ \A v \in Claimants \ {sizeOwner} : sizeClaimants[v] < sizeClaimants[sizeOwner]

\* Every viewer still connected believes what is true about the owner.
ViewersKnowTheOwner ==
  \A v \in viewers : ws[v] = "open" => seen[v].owner = OwnerState(v, sizeOwner)

\* When no viewer owns the size the Session has the Station's dimensions, unless
\* a resize of the backend has failed (ADR 0011).
StationGridRestored ==
  ~exited /\ ~resizeFailed /\ sizeOwner = NoViewer => current = station

\* The size that is current is the one the screen will have once it has parsed
\* what is queued.
CurrentIsQueuedGrid == ~disposed => GridOf(parsed \o queue) = current

\* A detached viewer leaves nothing behind: no claim, no subscription, no
\* history, no entry among the viewers.
DetachedLeavesNothing ==
  \A v \in Viewer : stage[v] = "detached" =>
    /\ v \notin viewers \cup subscribers
    /\ sizeClaimants[v] = 0 /\ sizeOwner # v
    /\ pendingScrollback[v] = Unset

\* Frames are handled once each in the order they arrived, those held back while
\* the snapshot was pending included.
FramesHandledInOrder ==
  \A v \in Viewer : stage[v] \in {"attaching", "ready"} =>
    /\ received[v] = handled[v] + Len(inbound[v])
    /\ \A i \in DOMAIN inbound[v] : inbound[v][i].id = handled[v] + i

\* History is sent to a viewer at most once, however often it acknowledges its
\* snapshot, and never before that snapshot.
HistoryOnceAfterSnapshot ==
  [][\A v \in Viewer : Len(seen'[v].history) > Len(seen[v].history) =>
       seen[v].history = <<>> /\ seen[v].snapshot # Unset]_vars

\* ADR 0004: "The CLI freezes the backend-neutral history at the snapshot
\* boundary", so that live output does not repeat it.
HistoryStopsAtSnapshot ==
  \A v \in Viewer : \A i \in DOMAIN seen[v].history :
    seen[v].history[i] <= Chunks(SubSeq(parsed, 1, seen[v].snapshot))

-----------------------------------------------------------------------------
(* Terminal Size Ownership                                                   *)

\* The viewers that the claims c name, in the order of their claim sequences.
StackOf(c) ==
  LET S == {v \in Viewer : c[v] # 0}
  IN  CHOOSE s \in [1..Cardinality(S) -> S] :
        /\ \A v \in S : \E i \in DOMAIN s : s[i] = v
        /\ \A i, j \in DOMAIN s : i < j => c[s[i]] < c[s[j]]

Arbiter == INSTANCE SizeArbiter WITH claims <- StackOf(sizeClaimants), grid <- current,
                                     stationGrid <- station

\* Claims, leases, releases, disconnects and the end of the Session change the
\* owner and the grid only in the ways Terminal Size Ownership promises.
ImplementsSizeArbiter == Arbiter!Spec

-----------------------------------------------------------------------------
(* Fairness: the event loop runs queued tasks, a replay finishes, a lease      *)
(* timer that is not renewed fires (each viewer sends finitely many frames),   *)
(* and a closing socket is closed, by its peer or by the close timeout of ws.  *)

FairSpec ==
  /\ Spec
  /\ WF_vars(RunScreenOp \/ \E ok \in BOOLEAN : RunCapture(ok))
  /\ \A v \in Viewer :
       /\ WF_vars(\E ok \in BOOLEAN : Replay(v, ok))
       /\ WF_vars(\E ok \in BOOLEAN : LeaseExpires(v, ok))
       /\ WF_vars(ws[v] = "closing" /\ \E ok \in BOOLEAN : SocketClosed(v, ok))

\* Every attach ends: in a snapshot or in a detach.
EveryAttachEnds == \A v \in Viewer : stage[v] = "attaching" ~> stage[v] # "attaching"

\* Once the Session has ended no viewer stays connected, not even one whose
\* handshake finishes later.
EndClosesEveryViewer ==
  \A v \in Viewer : exited /\ stage[v] # "none" ~> ws[v] = "closed"

\* A viewer that stops renewing loses the size.
SizeReturnsToStation == <>[](sizeOwner = NoViewer)
=============================================================================
