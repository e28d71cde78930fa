---------------------------- MODULE PhoneTerminal ----------------------------
(***************************************************************************)
(* The phone's terminal together with the Station it shows: the document      *)
(* (TerminalDocument), the screen (TerminalScreen), and the Session as this    *)
(* viewer meets it (StationSession has it in full): numbered output, one       *)
(* snapshot per connection, the history once the first paint is acknowledged,  *)
(* and the ownership of the grid, which another viewer may take and whose      *)
(* lease may run out.                                                         *)
(*                                                                         *)
(* Frames towards the phone are handled as they are sent: they keep their      *)
(* order, so a delay of theirs is a delay of the Station.  Frames of the phone *)
(* and messages of the document take their time.                              *)
(***************************************************************************)
EXTENDS TerminalScreen

CONSTANTS MaxConns,   \* bound: connections, one after the other
          MaxEvents   \* bound: output frames of the Session, its error messages
                      \* included, and times the phone loses the ownership, together

VARIABLES
  conn,   \* the connection, 0 when there is none
  opened, \* connections so far
  made,   \* output frames so far
  grid,   \* of the Session
  claim,  \* the phone's claim: none, stands, or owns the size
  turns,  \* times the phone lost the ownership
  refused \* history: the Session has refused a grid of the phone that owns the size

stationVars == <<conn, opened, made, grid, claim, turns, refused>>
vars == <<screenVars, stationVars>>

Init ==
  /\ ScreenInit
  /\ conn = 0 /\ opened = 0 /\ made = 0
  /\ grid = StationGrid /\ claim = "none" /\ turns = 0 /\ refused = FALSE

\* The backoff, a second at least, outlasts a render and the bridge.
Connected ==
  /\ conn = 0 /\ opened < MaxConns /\ Rendered /\ toApp = <<>>
  /\ opened' = opened + 1 /\ conn' = opened + 1
  /\ state' = "connected"
  /\ OnSnapshot([conn |-> opened + 1, upTo |-> made, grid |-> grid])
  /\ UNCHANGED <<toApp, startup, reopened, up, made, grid, claim, turns, refused>>

\* The connection is lost; the Station releases the claim of the viewer, and keeps
\* the grid if its own is refused.
Lost ==
  /\ conn # 0 /\ Rendered
  /\ conn' = 0 /\ state' = "reconnecting" /\ up' = <<>>
  /\ claim' = "none" /\ refused' = FALSE
  /\ grid' \in IF claim = "owns" THEN {StationGrid, grid} ELSE {grid}
  /\ UNCHANGED <<view, toApp, kept, app, size, startup, reopened, missed, opened, made, turns>>

Output ==
  /\ made + turns < MaxEvents
  /\ made' = made + 1
  /\ IF conn = 0 THEN UNCHANGED <<view, app, kept>> ELSE OnOutput(made + 1)
  /\ UNCHANGED <<toApp, state, size, startup, reopened, missed, up, conn, opened, grid, claim, turns, refused>>

\* The owner changes, with the grid it has then.
Announce(owned, newGrid) ==
  /\ grid' = newGrid /\ refused' = FALSE
  /\ LET v == IF newGrid # grid THEN OnResize(view, newGrid) ELSE view
     IN OnTerminalSizeOwner(v, kept, owned)

\* The Station has its size back but not its grid, which applyResize refused: an
\* error message in an output frame, then the owner.
RestoreFails ==
  /\ grid # StationGrid /\ made + turns < MaxEvents
  /\ made' = made + 1 /\ app' = WithOutput(app, made + 1)
  /\ grid' = grid /\ refused' = FALSE
  /\ OnTerminalSizeOwner(Told(view, Enqueue(view, made + 1)), [kept EXCEPT !.last = made + 1], FALSE)

HandleApplied == OnScrollback /\ UNCHANGED <<kept, size, grid, claim, made, refused>>
HandleClaim ==
  /\ IF claim # "none" THEN UNCHANGED <<view, kept, size, grid, claim, refused>>
     ELSE claim' = "owns" /\ Announce(TRUE, grid)
  /\ UNCHANGED <<app, made>>
HandleRelease ==
  /\ claim' = "none"
  /\ \/ claim = "owns" /\ Announce(FALSE, StationGrid) /\ UNCHANGED <<app, made>>
     \/ claim = "owns" /\ RestoreFails
     \/ claim # "owns" /\ UNCHANGED <<view, kept, app, size, grid, made, refused>>

\* A grid of the owner is taken, or refused with an error message in an output
\* frame; a grid of anybody else is answered with the owner.
HandleResize ==
  /\ \/ claim # "owns" /\ Announce(FALSE, grid) /\ UNCHANGED <<app, made>>
     \/ /\ claim = "owns"
        /\ grid' = PhoneGrid /\ view' = OnResize(view, PhoneGrid) /\ refused' = FALSE
        /\ UNCHANGED <<kept, app, size, made>>
     \/ /\ claim = "owns" /\ made + turns < MaxEvents
        /\ made' = made + 1 /\ OnOutput(made + 1) /\ refused' = TRUE
        /\ UNCHANGED <<size, grid>>
  /\ UNCHANGED claim
StationHandles ==
  /\ up # <<>> /\ Rendered
  /\ up' = Tail(up)
  /\ LET type == Head(up).type
     IN \/ type = "session-snapshot-applied" /\ HandleApplied
        \/ type = "terminal-size-claim" /\ HandleClaim
        \/ type = "terminal-size-release" /\ HandleRelease
        \/ type = "resize" /\ HandleResize
  /\ UNCHANGED <<toApp, state, startup, reopened, missed, conn, opened, turns>>

\* The phone renews its lease only by a resize: it runs out.
LeaseExpires ==
  /\ claim # "none" /\ made + turns < MaxEvents /\ conn # 0
  /\ claim' = "none"
  /\ \/ claim = "owns" /\ Announce(FALSE, StationGrid) /\ turns' = turns + 1 /\ UNCHANGED <<app, made>>
     \/ claim = "owns" /\ RestoreFails /\ UNCHANGED turns
     \/ claim # "owns" /\ turns' = turns + 1 /\ UNCHANGED <<view, kept, app, size, grid, made, refused>>
  /\ UNCHANGED <<toApp, state, startup, reopened, missed, up, conn, opened>>

\* Another viewer claims the size, and may resize; when it goes, the phone's
\* claim is the newest again.
OtherClaims ==
  /\ claim = "owns" /\ made + turns < MaxEvents
  /\ turns' = turns + 1 /\ claim' = "stands"
  /\ \E newGrid \in {grid, StationGrid} : Announce(FALSE, newGrid)
  /\ UNCHANGED <<toApp, state, app, startup, reopened, missed, up, conn, opened, made>>
OtherLeaves ==
  /\ claim = "stands"
  /\ claim' = "owns" /\ Announce(TRUE, grid)
  /\ UNCHANGED <<toApp, state, app, startup, reopened, missed, up, conn, opened, made, turns>>

Next ==
  \/ (Document \/ Relayout) /\ UNCHANGED <<state, kept, app, size, startup, reopened, missed, up, stationVars>>
  \/ (RunEffects \/ PageLoaded \/ Probe \/ StartupTimeout \/ RetryRenderer \/ HandleMessage \/ Remount)
     /\ UNCHANGED stationVars
  \/ Connected \/ Lost \/ Output \/ StationHandles \/ LeaseExpires \/ OtherClaims \/ OtherLeaves

Fairness == WF_vars(
  \/ Document /\ UNCHANGED <<state, kept, app, size, startup, reopened, missed, up, stationVars>>
  \/ (RunEffects \/ HandleMessage) /\ UNCHANGED stationVars
  \/ StationHandles)
Spec == Init /\ [][Next]_vars /\ Fairness

TypeOK ==
  /\ view \in View /\ toApp \in Seq(Posted)
  /\ state \in ConnectionState /\ kept \in Kept /\ app \in App /\ size \in Size /\ startup \in Startup
  /\ reopened \in BOOLEAN /\ missed \in BOOLEAN /\ up \in Seq(Sent)
  /\ conn \in Nat /\ opened \in Nat /\ made \in Nat /\ turns \in Nat
  /\ grid \in Grid /\ claim \in {"none", "stands", "owns"} /\ refused \in BOOLEAN

\* Effects run and posted messages arrive; the Station answers.
Settled ==
  /\ startup.at = "ready" /\ Rendered
  /\ toApp = <<>> /\ up = <<>>
  /\ view.outQ = <<>> /\ view.parses = <<>>

\* The terminal shows the output of the connection's snapshot and all that
\* followed, each once and in order, however the snapshot, the output, the
\* history and the reconnects interleave (terminalDocument.js, the two parses and
\* the output queue; TerminalScreen.tsx:158-192).  Excepted: a snapshot replayed
\* after output had followed it.
ScreenIsFaithful ==
  conn # 0 /\ ~missed =>
    /\ view.term.conn = conn => view.term.ok
    /\ Settled => view.term.conn = conn /\ view.term.upTo = made

\* The document believes it owns the size exactly when the Station says so,
\* whichever of the renderer, the connection and the claim comes last
\* (automaticTerminalSizeOwnership.ts).
OwnershipReachesView == Settled => (view.owns <=> conn # 0 /\ claim = "owns")

\* Once nothing is on its way, a phone that owns the size has given the Session
\* its grid: no proposal is suppressed as already sent (createDebouncedGridProposer).
\* Excepted: a grid the Session has refused, which the phone does not propose again
\* while it owns the size, for it counts as sent; and a connection whose snapshot
\* has the phone's grid, for parsing it counts as sending it, even when the Session
\* has left that grid since.
SessionTakesThePhoneGrid ==
  Settled /\ ~view.timer /\ view.owns /\ ~refused /\ kept.snapshot.grid = StationGrid => grid = PhoneGrid

\* The overlay lifts only from a terminal built from this connection's snapshot
\* (TerminalScreen.tsx:194-203, snapshotToken in terminalDocument.js).
LiveMeansPainted == view.overlay = "live" /\ Rendered /\ conn # 0 => view.term.conn = conn

HistoryShown == view.overlay = "live" /\ ~app.awaiting /\ view.parses = <<>>

\* Every connection of a screen whose renderer runs comes to be live and to show
\* its history, or ends: the paint is acknowledged once per connection, and the
\* Station answers (wsClient.ts:211-215).  Excepted: a screen opened again, whose
\* paint is not acknowledged a second time.
HistoryArrives ==
  conn # 0 /\ startup.at = "ready" /\ ~reopened ~> HistoryShown \/ conn = 0 \/ reopened
=============================================================================
