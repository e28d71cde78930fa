---------------------------- MODULE TerminalScreen ----------------------------
(***************************************************************************)
(* The phone's Terminal screen (android/src/terminal/TerminalScreen.tsx) with *)
(* the start of its renderer (rendererStartup.ts, TerminalView.tsx), the      *)
(* automatic ownership of the terminal size                                   *)
(* (automaticTerminalSizeOwnership.ts) and what StationConnection keeps for    *)
(* late subscribers (client/StationConnection.tsx, sessionSnapshotChannel.ts). *)
(*                                                                         *)
(* The screen's effects run after it has rendered: "ran" is what they saw      *)
(* last.  A message to the document is handled as it is posted.                *)
(***************************************************************************)
EXTENDS TerminalDocument

CONSTANT MaxStarts  \* bound: renderers started, the screen opened again or not

\* A connection given up, or failed for good, is not modelled.
ConnectionState == {"connecting", "connected", "reconnecting"}

\* An effect that has not run yet has seen no state.
ASSUME StateAssumption == None \notin ConnectionState

VARIABLES
  state,   \* of the connection, as the screen sees it
  kept,    \* what StationConnection keeps: snapshot, owner, acknowledged paint
  app,     \* the refs and the state of the screen
  size,    \* AutomaticTerminalSizeOwnership
  startup, \* TerminalRendererStartup
  reopened, \* history: the screen was left and opened again
  missed,  \* history: a snapshot was replayed that output had followed
  up       \* frames on their way to the Station

screenVars == <<view, toApp, state, kept, app, size, startup, reopened, missed, up>>

NotSeen == [state |-> None, painted |-> FALSE, ready |-> FALSE]
NewScreen(snapshot) ==
  [pending |-> snapshot, live |-> <<>>, awaiting |-> snapshot # None, painted |-> FALSE, ready |-> FALSE,
   ran |-> NotSeen]
NewSize == [connected |-> FALSE, owned |-> FALSE, viewReady |-> FALSE]
Loading(starts) == [at |-> "loading", loaded |-> FALSE, starts |-> starts]

ScreenInit ==
  /\ view = Unloaded /\ toApp = <<>>
  /\ state = "connecting"
  /\ kept = [snapshot |-> None, owner |-> FALSE, grid |-> StationGrid, acked |-> FALSE, last |-> 0]
  /\ app = NewScreen(None) /\ size = NewSize /\ startup = Loading(1)
  /\ reopened = FALSE /\ missed = FALSE /\ up = <<>>

Now == [state |-> state, painted |-> app.painted, ready |-> app.ready]
Rendered == app.ran = Now

\* ------------------------------------------------- frames of the connection
\* onOutput: written at once, and kept until the history has come.
WithOutput(a, output) == IF a.awaiting THEN [a EXCEPT !.live = Append(@, output)] ELSE a
OnOutput(output) ==
  /\ app' = WithOutput(app, output)
  /\ view' = Told(view, Enqueue(view, output))
  /\ kept' = [kept EXCEPT !.last = output]

\* setOwnedByRequester, and the document if it is ready.
Owns(owned) == size.connected /\ owned
ToView(v, owned) == IF size.viewReady THEN Told(v, SetSizeOwnership(v, owned)) ELSE v
OnTerminalSizeOwner(v, k, owned) ==
  /\ kept' = [k EXCEPT !.owner = owned]
  /\ size' = [size EXCEPT !.owned = Owns(owned)]
  /\ view' = ToView(v, Owns(owned))
OnResize(v, grid) == Told(v, Resize(v, grid))

Published(snapshot) ==
  [kept EXCEPT !.snapshot = snapshot, !.owner = FALSE, !.grid = snapshot.grid, !.acked = FALSE,
               !.last = snapshot.upTo]

\* The snapshot of a new connection; it was preceded by the grid and the owner.
OnSnapshot(snapshot) ==
  /\ kept' = Published(snapshot)
  /\ size' = [size EXCEPT !.owned = FALSE]
  /\ app' = [app EXCEPT !.pending = snapshot, !.live = <<>>, !.awaiting = TRUE, !.painted = FALSE]
  /\ missed' = FALSE
  /\ LET v == ToView(OnResize(view, snapshot.grid), FALSE)
     IN view' = IF app.ran.ready THEN Told(v, ApplySnapshot(v, snapshot)) ELSE v

\* Fault: the output since the snapshot is forgotten.
OnScrollbackAlone ==
  /\ app' = [app EXCEPT !.live = <<>>, !.awaiting = FALSE]
  /\ view' = Told(view, ApplyScrollback(view, app.pending, <<>>))

\* Fault: the history is not noticed as having come.
OnScrollbackAwaited ==
  /\ app' = [app EXCEPT !.live = <<>>]
  /\ view' = Told(view, ApplyScrollback(view, app.pending, app.live))

\* onScrollback: the history, with the output since the snapshot.
OnScrollback ==
  /\ app' = [app EXCEPT !.live = <<>>, !.awaiting = FALSE]
  /\ view' = Told(view, ApplyScrollback(view, app.pending, app.live))

\* A snapshot is written to the document after output that followed it.
Stale(snapshot) == snapshot # None /\ kept.last > snapshot.upTo

\* ----------------------------------------------------- the screen's effects
\* setConnected: claims once per connection, forgets the ownership when it ends.
SetConnected(connected) ==
  /\ size' = [size EXCEPT !.connected = connected, !.owned = @ /\ connected]
  /\ up' = IF connected /\ ~size.connected THEN Append(up, [type |-> "terminal-size-claim"]) ELSE up
UnownedView(v) == IF state # "connected" /\ size.connected THEN ToView(v, FALSE) ELSE v

\* The subscription to the snapshots is renewed once the terminal is ready, and
\* the channel replays the latest one.
Renewed == app.ready /\ ~app.ran.ready /\ kept.snapshot # None
Replayed(v) == IF Renewed THEN Told(v, ApplySnapshot(v, kept.snapshot)) ELSE v
Overlay(v) ==
  LET changed == app.ran.state # state \/ app.ran.painted # app.painted
  IN IF ~changed THEN v
     ELSE IF state = "connected" THEN IF app.painted THEN Told(v, SetConnectionState(v, "live")) ELSE v
     ELSE Told(v, SetConnectionState(v, IF state = "reconnecting" THEN state ELSE "loading"))
RunEffects ==
  /\ ~Rendered
  /\ SetConnected(state = "connected")
  /\ view' = Overlay(Replayed(UnownedView(view)))
  /\ app' = IF Renewed
            THEN [app EXCEPT !.pending = kept.snapshot, !.live = <<>>, !.awaiting = TRUE, !.painted = FALSE,
                             !.ran = Now]
            ELSE [app EXCEPT !.ran = Now]
  /\ missed' = (missed \/ (Renewed /\ Stale(kept.snapshot)))
  /\ UNCHANGED <<toApp, state, kept, startup, reopened>>

\* ------------------------------------------------------ the renderer's start
\* onLoadEnd, after the document's script: ready is accepted from now on.
PageLoaded ==
  /\ view.up /\ startup.at = "loading" /\ ~startup.loaded
  /\ startup' = [startup EXCEPT !.loaded = TRUE]
  /\ UNCHANGED <<view, toApp, state, kept, app, size, reopened, missed, up>>

\* probe: the document answers again.
Probe ==
  /\ startup.at = "loading" /\ startup.loaded /\ toApp = <<>>
  /\ Post([type |-> "ready"])
  /\ UNCHANGED <<view, state, kept, app, size, startup, reopened, missed, up>>

StartupTimeout ==
  /\ startup.at = "loading"
  /\ startup' = [startup EXCEPT !.at = "failed"]
  /\ UNCHANGED <<view, toApp, state, kept, app, size, reopened, missed, up>>

\* Retry: a new WebView; the messages of the old one may still come.
RetryRenderer ==
  /\ startup.at = "failed" /\ startup.starts < MaxStarts
  /\ startup' = Loading(startup.starts + 1) /\ view' = Unloaded
  /\ UNCHANGED <<toApp, state, kept, app, size, reopened, missed, up>>

\* --------------------------------------------------- messages of the document
\* Fault: an owner announced before is not passed on.
OverlayOfReady(v) ==
  Told(v, SetConnectionState(v, IF state = "reconnecting" THEN state ELSE "loading"))

\* handleTerminalReady: the owner, the overlay and the snapshot, if there is one.
StatesOfReady(v) ==
  LET owned == Told(v, SetSizeOwnership(v, Owns(size.owned)))
  IN Told(owned, SetConnectionState(owned, IF state = "reconnecting" THEN state ELSE "loading"))
RendererReady ==
  IF startup.at # "loading" \/ ~startup.loaded THEN UNCHANGED <<view, app, size, startup, missed>>
  ELSE /\ startup' = [startup EXCEPT !.at = "ready"]
       /\ app' = [app EXCEPT !.ready = TRUE]
       /\ size' = [size EXCEPT !.viewReady = TRUE]
       /\ missed' = (missed \/ Stale(app.pending))
       /\ LET v == StatesOfReady(view)
          IN view' = IF app.pending # None THEN Told(v, ApplySnapshot(v, app.pending))
                     ELSE OnResize(v, kept.grid)

\* handleSnapshotApplied: acknowledged once per connection.
SnapshotApplied ==
  /\ app' = [app EXCEPT !.painted = TRUE]
  /\ IF state = "connected" /\ ~kept.acked
     THEN kept' = [kept EXCEPT !.acked = TRUE] /\ up' = Append(up, [type |-> "session-snapshot-applied"])
     ELSE UNCHANGED <<kept, up>>

\* proposeGrid: only the owner's proposals are sent.
ProposeGrid ==
  up' = IF size.connected /\ size.owned THEN Append(up, [type |-> "resize"]) ELSE up

HandleMessage ==
  /\ toApp # <<>> /\ Rendered
  /\ toApp' = Tail(toApp)
  /\ LET type == Head(toApp).type
     IN \/ type = "ready" /\ RendererReady /\ UNCHANGED <<kept, up>>
        \/ type = "snapshot-applied" /\ SnapshotApplied /\ UNCHANGED <<view, size, startup, missed>>
        \/ type = "resize" /\ ProposeGrid /\ UNCHANGED <<view, kept, app, size, startup, missed>>
  /\ UNCHANGED <<state, reopened>>

\* The screen is left, and opened again on the same connection: the claim is
\* released and made anew, and what StationConnection keeps is replayed.
Remount ==
  /\ startup.starts < MaxStarts /\ Rendered
  /\ reopened' = TRUE
  /\ LET released == IF size.connected THEN Append(up, [type |-> "terminal-size-release"]) ELSE up
     IN up' = IF state = "connected" THEN Append(released, [type |-> "terminal-size-claim"]) ELSE released
  /\ size' = [NewSize EXCEPT !.connected = state = "connected", !.owned = state = "connected" /\ kept.owner]
  /\ app' = [NewScreen(kept.snapshot) EXCEPT !.ran = [NotSeen EXCEPT !.state = state]]
  /\ missed' = (missed \/ Stale(kept.snapshot))
  /\ view' = Unloaded /\ startup' = Loading(startup.starts + 1) /\ toApp' = <<>>
  /\ UNCHANGED <<state, kept>>

\* The types of the screen and of what it sends.
Kept ==
  [snapshot : Snapshot \cup {None}, owner : BOOLEAN, grid : Grid, acked : BOOLEAN, last : Nat]
App ==
  [pending : Snapshot \cup {None}, live : Seq(Nat), awaiting : BOOLEAN, painted : BOOLEAN, ready : BOOLEAN,
   ran : [state : ConnectionState \cup {None}, painted : BOOLEAN, ready : BOOLEAN]]
Size == [connected : BOOLEAN, owned : BOOLEAN, viewReady : BOOLEAN]
Startup == [at : {"loading", "failed", "ready"}, loaded : BOOLEAN, starts : Nat]
Sent == [type : {"session-snapshot-applied", "terminal-size-claim", "terminal-size-release", "resize"}]
=============================================================================
