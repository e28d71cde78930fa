--------------------------- MODULE TerminalDocument ---------------------------
(***************************************************************************)
(* The terminal document inside the phone's WebView                          *)
(* (android/src/terminal/terminalDocument.js): xterm.js, the output queue in  *)
(* front of it, the hidden terminal in which a snapshot or the history is     *)
(* parsed before it replaces the visible one, and the proposer of grids.      *)
(*                                                                         *)
(* The output of the Session is numbered.  What a terminal shows is the       *)
(* snapshot it was built from and the outputs written since: up to which one, *)
(* and whether each of them followed the one before.                          *)
(***************************************************************************)
EXTENDS Naturals, Sequences

CONSTANTS None,
          StationGrid, PhoneGrid  \* the grids of the Station and of the phone

Grid == {StationGrid, PhoneGrid}

Snapshot == [conn : Nat, upTo : Nat, grid : Grid]

\* None stands for what is not there.
ASSUME NoneAssumption == None \notin Grid \cup Snapshot

VARIABLES
  view,  \* the document
  toApp  \* what it has posted to the app

\* A terminal no snapshot was written to has connection 0.
ScreenOf(snapshot) == [conn |-> snapshot.conn, upTo |-> snapshot.upTo, ok |-> TRUE, grid |-> snapshot.grid]
Blank == [conn |-> 0, upTo |-> 0, ok |-> TRUE, grid |-> PhoneGrid]
Written(screen, outputs) ==
  IF screen.conn = 0 \/ outputs = <<>> THEN screen
  ELSE [screen EXCEPT !.upTo = outputs[Len(outputs)],
                      !.ok = @ /\ \A i \in DOMAIN outputs : outputs[i] = screen.upTo + i]

\* parses: the hidden terminals whose callback will replace the visible one;
\* sent, timer: the last grid proposed or announced, and a proposal on its way.
Unloaded == [up |-> FALSE, term |-> Blank, outQ |-> <<>>, inFlight |-> FALSE, parses |-> <<>>,
             overlay |-> "loading", owns |-> FALSE, sent |-> None, timer |-> FALSE]

\* Fault: no token, an old parse still finishes.
StillCurrent(parses) == parses

\* snapshotToken: a newer parse, or a reconnect, takes the place of the others.
Superseded(parses) == <<>>

Parsing(v, kind, screen) ==
  [v EXCEPT !.outQ = <<>>, !.inFlight = TRUE,
            !.parses = Append(Superseded(@), [kind |-> kind, screen |-> screen])]
ApplySnapshot(v, snapshot) == Parsing(v, "snapshot", ScreenOf(snapshot))
ApplyScrollback(v, snapshot, live) == Parsing(v, "history", Written(ScreenOf(snapshot), live))
Enqueue(v, output) == [v EXCEPT !.outQ = Append(@, output)]
SetConnectionState(v, state) ==
  IF state # "reconnecting" THEN [v EXCEPT !.overlay = state]
  ELSE [v EXCEPT !.overlay = state, !.parses = Superseded(@), !.inFlight = FALSE, !.outQ = <<>>]
Resize(v, grid) == [v EXCEPT !.term.grid = grid, !.sent = grid]

\* propose: nothing when the grid is the one last sent; the timer is debounced.
Propose(v) == IF v.sent = PhoneGrid /\ ~v.timer THEN v ELSE [v EXCEPT !.timer = TRUE]
\* Fault: the proposer is not reset.
OnlyDisown(v) == [v EXCEPT !.owns = FALSE, !.timer = FALSE]

\* reset.
ForgetSent(v) == [v EXCEPT !.owns = FALSE, !.timer = FALSE, !.sent = None]
SetSizeOwnership(v, owned) == IF owned THEN Propose([v EXCEPT !.owns = TRUE]) ELSE ForgetSent(v)

\* A message to a document whose script has not run is lost.
Told(v, after) == IF v.up THEN after ELSE v

Post(message) == toApp' = Append(toApp, message)

\* init.
DocumentInit ==
  /\ ~view.up
  /\ view' = [view EXCEPT !.up = TRUE]
  /\ Post([type |-> "ready"])

\* The next animation frame writes all the queued output.
FlushOutput ==
  /\ view.outQ # <<>> /\ ~view.inFlight
  /\ view' = [view EXCEPT !.outQ = <<>>, !.term = Written(@, view.outQ)]
  /\ UNCHANGED toApp

\* xterm has parsed: the hidden terminal becomes the visible one, at the grid
\* of its snapshot.  Only a first paint is reported.
Parsed ==
  /\ view.parses # <<>>
  /\ LET parse == Head(view.parses)
     IN /\ view' = [view EXCEPT !.parses = Tail(@), !.term = parse.screen, !.inFlight = FALSE,
                                !.sent = parse.screen.grid]
        /\ IF parse.kind = "snapshot" THEN Post([type |-> "snapshot-applied"]) ELSE UNCHANGED toApp

\* The proposer's timer: the terminal takes the grid before the Session does.
GridTimer ==
  /\ view.timer
  /\ view' = [view EXCEPT !.timer = FALSE, !.sent = PhoneGrid,
                          !.term.grid = IF view.sent = PhoneGrid THEN @ ELSE PhoneGrid]
  /\ IF view.sent = PhoneGrid THEN UNCHANGED toApp ELSE Post([type |-> "resize"])

\* The viewport, the keyboard or the font size changes: the layout is redone.
Relayout ==
  /\ view.up /\ view.owns
  /\ view' = Propose(view)
  /\ UNCHANGED toApp

Document == DocumentInit \/ FlushOutput \/ Parsed \/ GridTimer

\* The types of the document and of what it posts.
Screen == [conn : Nat, upTo : Nat, ok : BOOLEAN, grid : Grid]
Parse == [kind : {"snapshot", "history"}, screen : Screen]
View ==
  [up : BOOLEAN, term : Screen, outQ : Seq(Nat), inFlight : BOOLEAN, parses : Seq(Parse),
   overlay : {"loading", "reconnecting", "live"}, owns : BOOLEAN, sent : Grid \cup {None}, timer : BOOLEAN]
Posted == [type : {"ready", "snapshot-applied", "resize"}]
=============================================================================
