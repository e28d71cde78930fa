------------------------ MODULE PhoneTerminal_proofs -------------------------
(***************************************************************************)
(* Theorems about PhoneTerminal, for any number of connections, of renderers  *)
(* started, of outputs and of changes of the owner.                           *)
(***************************************************************************)
EXTENDS PhoneTerminal, SequenceTheorems, TLAPS

USE NoneAssumption, StateAssumption

-----------------------------------------------------------------------------
(* The document                                                              *)

\* Two states of the document with the same terminal, or the same terminal and
\* what is to be shown in it, or the same proposer of grids.
SameTerm(w, v) ==
  w.up = v.up /\ w.term.conn = v.term.conn /\ w.term.upTo = v.term.upTo /\ w.term.ok = v.term.ok
SamePicture(w, v) ==
  SameTerm(w, v) /\ w.outQ = v.outQ /\ w.inFlight = v.inFlight /\ w.parses = v.parses
SameProposer(w, v) == w.owns = v.owns /\ w.sent = v.sent /\ w.timer = v.timer

\* The document parses a hidden terminal that becomes scr.
Parses(w, kind, scr) ==
  w.parses = <<[kind |-> kind, screen |-> scr]>> /\ w.outQ = <<>> /\ w.inFlight

LEMMA ResizeIs ==
  ASSUME NEW v \in View, NEW g \in Grid
  PROVE  /\ OnResize(v, g) \in View
         /\ SamePicture(OnResize(v, g), v) /\ OnResize(v, g).overlay = v.overlay
         /\ OnResize(v, g).owns = v.owns /\ OnResize(v, g).timer = v.timer
         /\ OnResize(v, g).sent = IF v.up THEN g ELSE v.sent
         /\ ~v.up => OnResize(v, g) = v
BY DEF OnResize, Told, Resize, View, Screen, SamePicture, SameTerm

LEMMA OwnershipIs ==
  ASSUME NEW v \in View, NEW owned \in BOOLEAN, NEW w, w = Told(v, SetSizeOwnership(v, owned))
  PROVE  /\ w \in View /\ SamePicture(w, v) /\ w.overlay = v.overlay
         /\ ~v.up => w = v
         /\ v.up => /\ w.owns = owned
                    /\ owned => w.sent = v.sent /\ (w.timer <=> v.timer \/ v.sent # PhoneGrid)
                    /\ ~owned => w.sent = None /\ ~w.timer
<1>1. CASE ~v.up
  BY <1>1 DEF Told, SamePicture, SameTerm
<1>2. CASE v.up /\ owned
  BY <1>2 DEF Told, SetSizeOwnership, Propose, View, SamePicture, SameTerm
<1>3. CASE v.up /\ ~owned
  BY <1>3 DEF Told, SetSizeOwnership, ForgetSent, View, SamePicture, SameTerm
<1> QED
  BY <1>1, <1>2, <1>3

LEMMA ToViewIs ==
  ASSUME NEW v \in View, NEW owned \in BOOLEAN, NEW w, w = ToView(v, owned)
  PROVE  /\ w \in View /\ SamePicture(w, v) /\ w.overlay = v.overlay
         /\ ~v.up \/ ~size.viewReady => w = v
         /\ v.up /\ size.viewReady =>
              /\ w.owns = owned
              /\ owned => w.sent = v.sent /\ (w.timer <=> v.timer \/ v.sent # PhoneGrid)
              /\ ~owned => w.sent = None /\ ~w.timer
<1>1. CASE size.viewReady
  BY <1>1, OwnershipIs DEF ToView
<1>2. CASE ~size.viewReady
  BY <1>2 DEF ToView, SamePicture, SameTerm
<1> QED
  BY <1>1, <1>2

LEMMA ConnectionStateIs ==
  ASSUME NEW v \in View, NEW s \in {"loading", "reconnecting", "live"},
         NEW w, w = Told(v, SetConnectionState(v, s))
  PROVE  /\ w \in View /\ SameTerm(w, v) /\ SameProposer(w, v)
         /\ ~v.up => w = v
         /\ v.up => /\ w.overlay = s
                    /\ s # "reconnecting" => SamePicture(w, v)
                    /\ s = "reconnecting" => w.parses = <<>> /\ w.outQ = <<>> /\ ~w.inFlight
<1>1. CASE ~v.up
  BY <1>1 DEF Told, SameProposer, SameTerm
<1>2. CASE v.up /\ s # "reconnecting"
  BY <1>2 DEF Told, SetConnectionState, View, SameProposer, SamePicture, SameTerm
<1>3. CASE v.up /\ s = "reconnecting"
  <2>1. w = [v EXCEPT !.overlay = s, !.parses = <<>>, !.inFlight = FALSE, !.outQ = <<>>]
    BY <1>3 DEF Told, SetConnectionState, Superseded
  <2>2. <<>> \in Seq(Nat) /\ <<>> \in Seq(Parse)
    OBVIOUS
  <2> QED
    BY <1>3, <2>1, <2>2 DEF View, SameProposer, SameTerm
<1> QED
  BY <1>1, <1>2, <1>3

LEMMA ParsingIs ==
  ASSUME NEW v \in View, NEW kind \in {"snapshot", "history"}, NEW scr \in Screen,
         NEW w, w = Told(v, Parsing(v, kind, scr))
  PROVE  /\ w \in View /\ SameTerm(w, v) /\ SameProposer(w, v) /\ w.overlay = v.overlay
         /\ ~v.up => w = v
         /\ v.up => Parses(w, kind, scr)
<1>1. CASE ~v.up
  BY <1>1 DEF Told, SameProposer, SameTerm
<1>2. CASE v.up
  <2> DEFINE p == [kind |-> kind, screen |-> scr]
  <2>1. w = [v EXCEPT !.outQ = <<>>, !.inFlight = TRUE, !.parses = <<p>>]
    BY <1>2 DEF Told, Parsing, Superseded
  <2>2. <<>> \in Seq(Nat) /\ <<p>> \in Seq(Parse)
    BY DEF Parse
  <2> HIDE DEF p
  <2>3. /\ w \in View /\ SameTerm(w, v) /\ SameProposer(w, v) /\ w.overlay = v.overlay
        /\ w.parses = <<p>> /\ w.outQ = <<>> /\ w.inFlight
    BY <2>1, <2>2 DEF View, SameProposer, SameTerm
  <2> QED
    BY <1>2, <2>3 DEF Parses, p
<1> QED
  BY <1>1, <1>2

LEMMA EnqueueIs ==
  ASSUME NEW v \in View, NEW output \in Nat, NEW w, w = Told(v, Enqueue(v, output))
  PROVE  /\ w \in View /\ SameTerm(w, v) /\ SameProposer(w, v) /\ w.overlay = v.overlay
         /\ w.inFlight = v.inFlight /\ w.parses = v.parses
         /\ ~v.up => w = v
         /\ v.up => w.outQ = Append(v.outQ, output)
<1>1. CASE ~v.up
  BY <1>1 DEF Told, SameProposer, SameTerm
<1>2. CASE v.up
  <2> DEFINE q == Append(v.outQ, output)
  <2>1. w = [v EXCEPT !.outQ = q]
    BY <1>2 DEF Told, Enqueue
  <2>2. q \in Seq(Nat)
    BY DEF View
  <2> HIDE DEF q
  <2>3. w \in View /\ SameTerm(w, v) /\ SameProposer(w, v) /\ w.overlay = v.overlay
        /\ w.inFlight = v.inFlight /\ w.parses = v.parses /\ w.outQ = q
    BY <2>1, <2>2 DEF View, SameProposer, SameTerm
  <2> QED
    BY <1>2, <2>3 DEF q
<1> QED
  BY <1>1, <1>2

LEMMA ScreenOfType ==
  ASSUME NEW s \in Snapshot
  PROVE  /\ ScreenOf(s) \in Screen /\ ScreenOf(s).conn = s.conn /\ ScreenOf(s).upTo = s.upTo
         /\ ScreenOf(s).grid = s.grid /\ ScreenOf(s).ok
BY DEF ScreenOf, Screen, Snapshot

LEMMA WrittenType ==
  ASSUME NEW scr \in Screen, NEW q \in Seq(Nat)
  PROVE  /\ Written(scr, q) \in Screen /\ Written(scr, q).conn = scr.conn
         /\ Written(scr, q).grid = scr.grid
<1>1. CASE scr.conn = 0 \/ q = <<>>
  BY <1>1 DEF Written
<1>2. CASE ~(scr.conn = 0 \/ q = <<>>)
  <2> DEFINE n == q[Len(q)]
             b == \A i \in DOMAIN q : q[i] = scr.upTo + i
  <2>1. n \in Nat
    BY <1>2
  <2>2. Written(scr, q) = [scr EXCEPT !.upTo = n, !.ok = @ /\ b]
    BY <1>2 DEF Written
  <2> HIDE DEF n, b
  <2> QED
    BY <2>1, <2>2 DEF Screen
<1> QED
  BY <1>1, <1>2

-----------------------------------------------------------------------------
(* What the parts have to do with each other                                 *)

\* The screen, what is kept for it, the renderer and the connection agree.
LinkInv ==
  /\ app.pending = kept.snapshot
  /\ state = "connected" <=> conn # 0
  /\ conn # 0 => kept.snapshot # None /\ kept.snapshot.conn = conn
  /\ kept.snapshot # None => kept.snapshot.conn <= opened /\ kept.snapshot.upTo <= made
  /\ conn = 0 => up = <<>>
  /\ conn <= opened
  /\ app.ready <=> startup.at = "ready"
  /\ size.viewReady <=> app.ready
  /\ app.ran.ready => app.ready
  /\ startup.loaded => view.up
  /\ startup.at = "ready" => startup.loaded
  /\ app.ran.state = "connected" <=> size.connected
  /\ ~view.up => view = Unloaded
IndInv == TypeOK /\ LinkInv

\* Fields of the records.
LEMMA AppIs ==
  ASSUME TypeOK
  PROVE  /\ app.pending \in Snapshot \cup {None} /\ app.live \in Seq(Nat)
         /\ app.awaiting \in BOOLEAN /\ app.painted \in BOOLEAN /\ app.ready \in BOOLEAN
         /\ app.ran.state \in ConnectionState \cup {None}
         /\ kept.snapshot \in Snapshot \cup {None} /\ kept.owner \in BOOLEAN /\ kept.grid \in Grid
         /\ kept.acked \in BOOLEAN /\ kept.last \in Nat
         /\ size.connected \in BOOLEAN /\ size.owned \in BOOLEAN /\ size.viewReady \in BOOLEAN
BY DEF TypeOK, App, Kept, Size

LEMMA RenderedIs ==
  ASSUME Rendered
  PROVE  app.ran.state = state /\ app.ran.painted = app.painted /\ app.ran.ready = app.ready
BY DEF Rendered, Now

\* One more posted message or frame, or one less.
LEMMA AppendType ==
  ASSUME NEW S, NEW q \in Seq(S), NEW x \in S
  PROVE  Append(q, x) \in Seq(S)
OBVIOUS

LEMMA TailType ==
  ASSUME NEW S, NEW q \in Seq(S), q # <<>>
  PROVE  Tail(q) \in Seq(S) /\ Head(q) \in S
OBVIOUS

-----------------------------------------------------------------------------
(* The document's actions                                                    *)

LEMMA FlushIs ==
  ASSUME TypeOK, FlushOutput
  PROVE  /\ view' \in View /\ view'.up = view.up /\ view'.overlay = view.overlay
         /\ SameProposer(view', view) /\ toApp' = toApp
         /\ view'.inFlight = view.inFlight /\ view'.parses = view.parses /\ view'.outQ = <<>>
         /\ view'.term = Written(view.term, view.outQ)
<1> DEFINE t == Written(view.term, view.outQ)
<1>1. view \in View /\ view.term \in Screen /\ view.outQ \in Seq(Nat)
  BY DEF TypeOK, View
<1>2. t \in Screen
  BY <1>1, WrittenType
<1>3. view' = [view EXCEPT !.outQ = <<>>, !.term = t] /\ toApp' = toApp
  BY DEF FlushOutput
<1> HIDE DEF t
<1>4. <<>> \in Seq(Nat)
  OBVIOUS
<1>5. /\ view' \in View /\ view'.up = view.up /\ view'.overlay = view.overlay
      /\ SameProposer(view', view) /\ toApp' = toApp
      /\ view'.inFlight = view.inFlight /\ view'.parses = view.parses /\ view'.outQ = <<>>
      /\ view'.term = t
  BY <1>1, <1>2, <1>3, <1>4 DEF View, SameProposer
<1> QED
  BY <1>5 DEF t

LEMMA ParsedIs ==
  ASSUME TypeOK, Parsed
  PROVE  LET parse == view.parses[1]
         IN  /\ 1 \in DOMAIN view.parses /\ parse \in Parse
             /\ view' \in View /\ view'.up = view.up /\ view'.overlay = view.overlay
             /\ view'.owns = view.owns /\ view'.timer = view.timer /\ view'.sent = parse.screen.grid
             /\ ~view'.inFlight /\ view'.parses = Tail(view.parses) /\ view'.outQ = view.outQ
             /\ view'.term = parse.screen
             /\ IF parse.kind = "snapshot" THEN Post([type |-> "snapshot-applied"]) ELSE toApp' = toApp
<1> DEFINE parse == view.parses[1]
           ps == Tail(view.parses)
<1>1. view \in View /\ view.parses \in Seq(Parse) /\ view.parses # <<>>
  BY DEF TypeOK, View, Parsed
<1>2. parse = Head(view.parses) /\ 1 \in DOMAIN view.parses /\ parse \in Parse /\ ps \in Seq(Parse)
  BY <1>1
<1>3. /\ view' = [view EXCEPT !.parses = ps, !.term = parse.screen, !.inFlight = FALSE,
                              !.sent = parse.screen.grid]
      /\ IF parse.kind = "snapshot" THEN Post([type |-> "snapshot-applied"]) ELSE toApp' = toApp
  BY <1>2 DEF Parsed
<1>4. parse.screen \in Screen /\ parse.screen.grid \in Grid
  BY <1>2 DEF Parse, Screen
<1> HIDE DEF parse, ps
<1>5. /\ view' \in View /\ view'.up = view.up /\ view'.overlay = view.overlay
      /\ view'.owns = view.owns /\ view'.timer = view.timer /\ view'.sent = parse.screen.grid
      /\ ~view'.inFlight /\ view'.parses = ps /\ view'.outQ = view.outQ
      /\ view'.term = parse.screen
  BY <1>1, <1>2, <1>3, <1>4 DEF View
<1> QED
  BY <1>2, <1>3, <1>5 DEF parse, ps

LEMMA GridTimerIs ==
  ASSUME TypeOK, GridTimer
  PROVE  /\ view' \in View /\ SamePicture(view', view) /\ view'.overlay = view.overlay
         /\ view.timer /\ ~view'.timer /\ view'.owns = view.owns /\ view'.sent = PhoneGrid
         /\ IF view.sent = PhoneGrid THEN toApp' = toApp ELSE Post([type |-> "resize"])
<1> DEFINE g == IF view.sent = PhoneGrid THEN view.term.grid ELSE PhoneGrid
<1>1. view \in View
  BY DEF TypeOK
<1>2. g \in Grid
  BY <1>1 DEF View, Screen, Grid
<1>3. view' = [view EXCEPT !.timer = FALSE, !.sent = PhoneGrid, !.term.grid = g]
  BY DEF GridTimer
<1> HIDE DEF g
<1>4. /\ view' \in View /\ SamePicture(view', view) /\ view'.overlay = view.overlay
      /\ ~view'.timer /\ view'.owns = view.owns /\ view'.sent = PhoneGrid
  BY <1>1, <1>2, <1>3 DEF View, Screen, SamePicture, SameTerm, Grid
<1> QED
  BY <1>4 DEF GridTimer

LEMMA RelayoutIs ==
  ASSUME TypeOK, Relayout
  PROVE  /\ view' \in View /\ SamePicture(view', view) /\ view'.overlay = view.overlay
         /\ view.owns /\ view'.owns = view.owns /\ view'.sent = view.sent /\ toApp' = toApp
         /\ view'.timer <=> view.timer \/ view.sent # PhoneGrid
BY DEF TypeOK, View, Relayout, Propose, SamePicture, SameTerm

LEMMA UnloadedType == Unloaded \in View
<1>1. <<>> \in Seq(Nat) /\ <<>> \in Seq(Parse)
  OBVIOUS
<1> QED
  BY <1>1 DEF Unloaded, View, Blank, Screen, Grid

LEMMA DocumentInitIs ==
  ASSUME IndInv, DocumentInit
  PROVE  /\ view' \in View /\ SamePicture([view' EXCEPT !.up = FALSE], view) /\ view = Unloaded
         /\ view'.up /\ view'.overlay = view.overlay
         /\ SameProposer(view', view) /\ Post([type |-> "ready"])
<1>1. view \in View /\ view = Unloaded /\ view' = [view EXCEPT !.up = TRUE]
  BY DEF DocumentInit, IndInv, TypeOK, LinkInv
<1> QED
  BY <1>1 DEF DocumentInit, View, SamePicture, SameTerm, SameProposer, Unloaded

-----------------------------------------------------------------------------
(* What the screen and the connection do to the document                     *)

\* What a proposer is after its document is told who owns the size, when v was
\* its state before.
Proposer(w, owned, v) ==
  /\ w.owns = owned
  /\ owned => w.sent = v.sent /\ (w.timer <=> v.timer \/ v.sent # PhoneGrid)
  /\ ~owned => w.sent = None /\ ~w.timer

NewSnapshot == [conn |-> opened + 1, upTo |-> made, grid |-> grid]

LEMMA ConnectedIs ==
  ASSUME IndInv, Connected
  PROVE  /\ NewSnapshot \in Snapshot /\ kept' = Published(NewSnapshot)
         /\ view' \in View /\ SameTerm(view', view) /\ view'.overlay = view.overlay
         /\ ~view.up => view' = view
         /\ app.ready => /\ Parses(view', "snapshot", ScreenOf(NewSnapshot))
                         /\ ~view'.owns /\ ~view'.timer /\ view'.sent = None
         /\ ~app.ready => /\ SamePicture(view', view)
                          /\ view'.owns = view.owns /\ view'.timer = view.timer
                          /\ view'.sent = IF view.up THEN grid ELSE view.sent
<1> DEFINE s == NewSnapshot
           v1 == OnResize(view, grid)
           v2 == ToView(v1, FALSE)
<1>1. view \in View /\ grid \in Grid /\ s \in Snapshot
  BY DEF IndInv, TypeOK, Snapshot, NewSnapshot
<1>2. /\ v1 \in View /\ SamePicture(v1, view) /\ v1.overlay = view.overlay
      /\ v1.owns = view.owns /\ v1.timer = view.timer
      /\ v1.sent = IF view.up THEN grid ELSE view.sent
      /\ ~view.up => v1 = view
  BY <1>1, ResizeIs
<1>3. s.grid = grid
  BY DEF NewSnapshot
<1>4. /\ kept' = Published(s)
      /\ view' = IF app.ran.ready THEN Told(v2, ApplySnapshot(v2, s)) ELSE v2
      /\ app.ran.ready = app.ready
  BY <1>3, RenderedIs DEF Connected, OnSnapshot, NewSnapshot
<1> HIDE DEF v1, s
<1>5. /\ v2 \in View /\ SamePicture(v2, v1) /\ v2.overlay = v1.overlay
      /\ ~v1.up \/ ~size.viewReady => v2 = v1
      /\ v1.up /\ size.viewReady => ~v2.owns /\ v2.sent = None /\ ~v2.timer
  BY <1>2, ToViewIs
<1> HIDE DEF v2
<1>6. CASE app.ready
  <2>1. view.up /\ size.viewReady
    BY <1>6 DEF IndInv, LinkInv
  <2>2. view' = Told(v2, Parsing(v2, "snapshot", ScreenOf(s))) /\ ScreenOf(s) \in Screen /\ v2.up
    BY <1>1, <1>2, <1>4, <1>5, <1>6, <2>1, ScreenOfType DEF ApplySnapshot, SamePicture, SameTerm
  <2>3. /\ view' \in View /\ SameTerm(view', v2) /\ SameProposer(view', v2) /\ view'.overlay = v2.overlay
        /\ Parses(view', "snapshot", ScreenOf(s))
    BY <1>5, <2>2, ParsingIs
  <2> QED
    BY <1>1, <1>2, <1>4, <1>5, <1>6, <2>1, <2>3 DEF SamePicture, SameTerm, SameProposer, s
<1>7. CASE ~app.ready
  <2>1. view' = v1 /\ ~size.viewReady
    BY <1>4, <1>5, <1>7 DEF IndInv, LinkInv
  <2> QED
    BY <1>1, <1>2, <1>4, <1>7, <2>1 DEF SamePicture, s
<1> QED
  BY <1>6, <1>7 DEF IndInv, TypeOK, App

LEMMA AnnounceIs ==
  ASSUME IndInv, NEW owned \in BOOLEAN, NEW newGrid \in Grid, Announce(owned, newGrid)
  PROVE  /\ view' \in View /\ SamePicture(view', view) /\ view'.overlay = view.overlay
         /\ ~view.up => view' = view
         /\ kept' = [kept EXCEPT !.owner = owned] /\ size' = [size EXCEPT !.owned = Owns(owned)]
         /\ grid' = newGrid /\ refused' = FALSE
         /\ Owns(owned) \in BOOLEAN
         /\ LET sent == IF view.up /\ newGrid # grid THEN newGrid ELSE view.sent
            IN  /\ ~app.ready => view'.owns = view.owns /\ view'.timer = view.timer /\ view'.sent = sent
                /\ app.ready =>
                     /\ view'.owns = Owns(owned)
                     /\ Owns(owned) => view'.sent = sent /\ (view'.timer <=> view.timer \/ sent # PhoneGrid)
                     /\ ~Owns(owned) => view'.sent = None /\ ~view'.timer
<1> DEFINE v1 == IF newGrid # grid THEN OnResize(view, newGrid) ELSE view
           o == Owns(owned)
           sent == IF view.up /\ newGrid # grid THEN newGrid ELSE view.sent
<1>1. view \in View /\ o \in BOOLEAN
  BY DEF IndInv, TypeOK, Size, Owns
<1>2. /\ v1 \in View /\ SamePicture(v1, view) /\ v1.overlay = view.overlay
      /\ v1.owns = view.owns /\ v1.timer = view.timer
      /\ v1.sent = sent
      /\ ~view.up => v1 = view
  BY <1>1, ResizeIs DEF SamePicture, SameTerm
<1>3. /\ kept' = [kept EXCEPT !.owner = owned] /\ size' = [size EXCEPT !.owned = Owns(owned)]
      /\ grid' = newGrid /\ refused' = FALSE /\ view' = ToView(v1, o)
  BY DEF Announce, OnTerminalSizeOwner
<1> HIDE DEF v1, o, sent
<1>4. /\ view' \in View /\ SamePicture(view', v1) /\ view'.overlay = v1.overlay
      /\ ~v1.up \/ ~size.viewReady => view' = v1
      /\ v1.up /\ size.viewReady => Proposer(view', o, v1)
  BY <1>1, <1>2, <1>3, ToViewIs DEF Proposer
<1>5. app.ready <=> v1.up /\ size.viewReady
  BY <1>2 DEF IndInv, LinkInv, SamePicture, SameTerm
<1>6. /\ view' \in View /\ SamePicture(view', view) /\ view'.overlay = view.overlay
      /\ ~view.up => view' = view
  BY <1>2, <1>4 DEF SamePicture, SameTerm
<1>7. ~app.ready => view'.owns = view.owns /\ view'.timer = view.timer /\ view'.sent = sent
  BY <1>2, <1>4, <1>5
<1>8. app.ready => /\ view'.owns = o
                   /\ o => view'.sent = sent /\ (view'.timer <=> view.timer \/ sent # PhoneGrid)
                   /\ ~o => view'.sent = None /\ ~view'.timer
  BY <1>2, <1>4, <1>5 DEF Proposer
<1> QED
  BY <1>1, <1>3, <1>6, <1>7, <1>8 DEF o, sent

\* One more output frame, whatever else its message changes.
OutputShown ==
  /\ view' \in View /\ SameTerm(view', view) /\ view'.overlay = view.overlay
  /\ view'.inFlight = view.inFlight /\ view'.parses = view.parses
  /\ ~view.up => view' = view
  /\ view.up => view'.outQ = Append(view.outQ, made + 1)
  /\ app' \in App /\ app'.pending = app.pending /\ app'.ready = app.ready /\ app'.ran = app.ran
  /\ app'.awaiting = app.awaiting /\ app'.painted = app.painted
  /\ app.awaiting => app'.live = Append(app.live, made + 1)

LEMMA WithOutputIs ==
  ASSUME IndInv, NEW a, a = WithOutput(app, made + 1)
  PROVE  /\ a \in App /\ a.pending = app.pending /\ a.ready = app.ready /\ a.ran = app.ran
         /\ a.awaiting = app.awaiting /\ a.painted = app.painted
         /\ app.awaiting => a.live = Append(app.live, made + 1)
<1> DEFINE q == Append(app.live, made + 1)
<1>1. a = IF app.awaiting THEN [app EXCEPT !.live = q] ELSE app
  BY DEF WithOutput
<1>2. q \in Seq(Nat)
  BY AppIs DEF IndInv, TypeOK
<1> HIDE DEF q
<1>3. /\ a \in App /\ a.pending = app.pending /\ a.ready = app.ready /\ a.ran = app.ran
      /\ a.awaiting = app.awaiting /\ a.painted = app.painted
      /\ app.awaiting => a.live = q
  BY <1>1, <1>2 DEF IndInv, TypeOK, App
<1> QED
  BY <1>3 DEF q

LEMMA OnOutputIs ==
  ASSUME IndInv, OnOutput(made + 1)
  PROVE  OutputShown /\ SameProposer(view', view) /\ kept' = [kept EXCEPT !.last = made + 1]
<1>1. view \in View /\ made + 1 \in Nat
  BY DEF IndInv, TypeOK
<1>2. /\ app' = WithOutput(app, made + 1) /\ view' = Told(view, Enqueue(view, made + 1))
      /\ kept' = [kept EXCEPT !.last = made + 1]
  BY DEF OnOutput
<1>3. /\ view' \in View /\ SameTerm(view', view) /\ SameProposer(view', view) /\ view'.overlay = view.overlay
      /\ view'.inFlight = view.inFlight /\ view'.parses = view.parses
      /\ ~view.up => view' = view
      /\ view.up => view'.outQ = Append(view.outQ, made + 1)
  BY <1>1, <1>2, EnqueueIs
<1>4. /\ app' \in App /\ app'.pending = app.pending /\ app'.ready = app.ready /\ app'.ran = app.ran
      /\ app'.awaiting = app.awaiting /\ app'.painted = app.painted
      /\ app.awaiting => app'.live = Append(app.live, made + 1)
  BY <1>2, WithOutputIs
<1> QED
  BY <1>2, <1>3, <1>4 DEF OutputShown

LEMMA RestoreFailsIs ==
  ASSUME IndInv, RestoreFails
  PROVE  /\ OutputShown
         /\ made' = made + 1 /\ grid' = grid /\ refused' = FALSE
         /\ kept' = [kept EXCEPT !.last = made + 1, !.owner = FALSE]
         /\ size' = [size EXCEPT !.owned = FALSE]
         /\ IF app.ready THEN ~view'.owns /\ ~view'.timer /\ view'.sent = None
            ELSE SameProposer(view', view)
<1> DEFINE v1 == Told(view, Enqueue(view, made + 1))
<1>1. view \in View /\ made + 1 \in Nat
  BY DEF IndInv, TypeOK
<1>2. /\ v1 \in View /\ SameTerm(v1, view) /\ SameProposer(v1, view) /\ v1.overlay = view.overlay
      /\ v1.inFlight = view.inFlight /\ v1.parses = view.parses
      /\ ~view.up => v1 = view
      /\ view.up => v1.outQ = Append(view.outQ, made + 1)
  BY <1>1, EnqueueIs
<1>3. /\ made' = made + 1 /\ app' = WithOutput(app, made + 1) /\ grid' = grid /\ refused' = FALSE
      /\ kept' = [[kept EXCEPT !.last = made + 1] EXCEPT !.owner = FALSE]
      /\ size' = [size EXCEPT !.owned = FALSE] /\ view' = ToView(v1, FALSE)
  BY DEF RestoreFails, OnTerminalSizeOwner, Owns
<1> HIDE DEF v1
<1>4. /\ view' \in View /\ SamePicture(view', v1) /\ view'.overlay = v1.overlay
      /\ ~v1.up \/ ~size.viewReady => view' = v1
      /\ v1.up /\ size.viewReady => ~view'.owns /\ view'.sent = None /\ ~view'.timer
  BY <1>2, <1>3, ToViewIs
<1>5. app.ready <=> v1.up /\ size.viewReady
  BY <1>2 DEF IndInv, LinkInv, SameTerm
<1>6. /\ view' \in View /\ SameTerm(view', view) /\ view'.overlay = view.overlay
      /\ view'.inFlight = view.inFlight /\ view'.parses = view.parses
      /\ ~view.up => view' = view
      /\ view.up => view'.outQ = Append(view.outQ, made + 1)
  BY <1>2, <1>4 DEF SamePicture, SameTerm
<1>7. OutputShown
  <2>1. /\ app' \in App /\ app'.pending = app.pending /\ app'.ready = app.ready /\ app'.ran = app.ran
        /\ app'.awaiting = app.awaiting /\ app'.painted = app.painted
        /\ app.awaiting => app'.live = Append(app.live, made + 1)
    BY <1>3, WithOutputIs
  <2> QED
    BY <1>6, <2>1 DEF OutputShown
<1>8. IF app.ready THEN ~view'.owns /\ ~view'.timer /\ view'.sent = None ELSE SameProposer(view', view)
  BY <1>2, <1>4, <1>5
<1>9. kept' = [kept EXCEPT !.last = made + 1, !.owner = FALSE]
  BY <1>3
<1> QED
  BY <1>3, <1>7, <1>8, <1>9

\* The effects that change the overlay run when what they saw has changed.
Changed == app.ran.state # state \/ app.ran.painted # app.painted

LEMMA OverlayIs ==
  ASSUME NEW v \in View, TypeOK
  PROVE  /\ Overlay(v) \in View /\ SameTerm(Overlay(v), v) /\ SameProposer(Overlay(v), v)
         /\ ~v.up => Overlay(v) = v
         /\ v.up /\ Changed /\ state = "reconnecting" =>
              Overlay(v).parses = <<>> /\ Overlay(v).outQ = <<>> /\ ~Overlay(v).inFlight
         /\ ~(v.up /\ Changed /\ state = "reconnecting") => SamePicture(Overlay(v), v)
         /\ Overlay(v).overlay = "live" => \/ v.overlay = "live" /\ (v.up /\ Changed => state = "connected")
                                           \/ state = "connected" /\ app.painted
<1>1. CASE ~Changed
  <2>1. Overlay(v) = v
    BY <1>1 DEF Overlay, Changed
  <2> QED
    BY <1>1, <2>1 DEF SameTerm, SamePicture, SameProposer
<1>2. CASE Changed /\ state = "connected" /\ ~app.painted
  <2>1. Overlay(v) = v
    BY <1>2 DEF Overlay, Changed
  <2> QED
    BY <1>2, <2>1 DEF SameTerm, SamePicture, SameProposer
<1>3. CASE Changed /\ state = "connected" /\ app.painted
  <2>1. Overlay(v) = Told(v, SetConnectionState(v, "live"))
    BY <1>3 DEF Overlay, Changed
  <2> QED
    BY <1>3, <2>1, ConnectionStateIs DEF SamePicture, SameTerm
<1>4. CASE Changed /\ state # "connected"
  <2> DEFINE s == IF state = "reconnecting" THEN state ELSE "loading"
  <2>1. Overlay(v) = Told(v, SetConnectionState(v, s)) /\ s \in {"loading", "reconnecting"}
        /\ (s = "reconnecting" <=> state = "reconnecting")
    BY <1>4 DEF Overlay, Changed
  <2> HIDE DEF s
  <2>2. /\ Overlay(v) \in View /\ SameTerm(Overlay(v), v) /\ SameProposer(Overlay(v), v)
        /\ ~v.up => Overlay(v) = v
        /\ v.up => /\ Overlay(v).overlay = s
                   /\ s # "reconnecting" => SamePicture(Overlay(v), v)
                   /\ s = "reconnecting" => Overlay(v).parses = <<>> /\ Overlay(v).outQ = <<>> /\ ~Overlay(v).inFlight
    BY <2>1, ConnectionStateIs
  <2> QED
    BY <1>4, <2>1, <2>2 DEF SamePicture, SameTerm
<1> QED
  BY <1>1, <1>2, <1>3, <1>4

LEMMA RunEffectsIs ==
  ASSUME IndInv, RunEffects
  PROVE  /\ view' \in View /\ SameTerm(view', view)
         /\ ~view.up => view' = view
         /\ IF state # "connected" /\ size.connected /\ app.ready
            THEN ~view'.owns /\ ~view'.timer /\ view'.sent = None
            ELSE SameProposer(view', view)
         /\ IF view.up /\ Changed /\ state = "reconnecting"
            THEN view'.parses = <<>> /\ view'.outQ = <<>> /\ ~view'.inFlight
            ELSE IF Renewed THEN Parses(view', "snapshot", ScreenOf(kept.snapshot))
            ELSE SamePicture(view', view)
         /\ view'.overlay = "live" => \/ view.overlay = "live" /\ (view.up /\ Changed => state = "connected")
                                      \/ state = "connected" /\ app.painted
<1> DEFINE v1 == UnownedView(view)
           v2 == Replayed(v1)
<1>1. view \in View /\ (Renewed => kept.snapshot \in Snapshot /\ app.ready)
  BY AppIs DEF IndInv, TypeOK, Renewed
<1>2. app.ready => view.up /\ size.viewReady
  BY DEF IndInv, LinkInv
<1>3. ~app.ready => ~size.viewReady
  BY DEF IndInv, LinkInv
<1>4. /\ v1 \in View /\ SamePicture(v1, view) /\ v1.overlay = view.overlay
      /\ ~view.up => v1 = view
      /\ IF state # "connected" /\ size.connected /\ app.ready
         THEN ~v1.owns /\ ~v1.timer /\ v1.sent = None
         ELSE SameProposer(v1, view)
  <2>1. CASE state # "connected" /\ size.connected
    <3>1. v1 = ToView(view, FALSE)
      BY <2>1 DEF UnownedView
    <3> HIDE DEF v1
    <3>2. /\ v1 \in View /\ SamePicture(v1, view) /\ v1.overlay = view.overlay
          /\ ~view.up \/ ~size.viewReady => v1 = view
          /\ view.up /\ size.viewReady => ~v1.owns /\ v1.sent = None /\ ~v1.timer
      BY <1>1, <3>1, ToViewIs
    <3> QED
      BY <1>2, <1>3, <2>1, <3>2 DEF SameProposer
  <2>2. CASE ~(state # "connected" /\ size.connected)
    BY <1>1, <2>2 DEF UnownedView, SamePicture, SameTerm, SameProposer
  <2> QED
    BY <2>1, <2>2
<1> HIDE DEF v1
<1>5. /\ v2 \in View /\ SameTerm(v2, v1) /\ v2.overlay = v1.overlay /\ SameProposer(v2, v1)
      /\ ~view.up => v2 = view
      /\ IF Renewed THEN Parses(v2, "snapshot", ScreenOf(kept.snapshot)) ELSE SamePicture(v2, v1)
  <2>1. CASE Renewed
    <3>1. v2 = Told(v1, Parsing(v1, "snapshot", ScreenOf(kept.snapshot)))
          /\ ScreenOf(kept.snapshot) \in Screen /\ v1.up
      BY <1>1, <1>2, <1>4, <2>1, ScreenOfType DEF Replayed, ApplySnapshot, SamePicture, SameTerm
    <3> HIDE DEF v2
    <3> QED
      BY <1>1, <1>2, <1>4, <2>1, <3>1, ParsingIs
  <2>2. CASE ~Renewed
    BY <1>4, <2>2 DEF Replayed, SamePicture, SameTerm, SameProposer
  <2> QED
    BY <2>1, <2>2
<1>6. view' = Overlay(v2)
  BY DEF RunEffects, v1
<1> HIDE DEF v2
<1>7. /\ view' \in View /\ SameTerm(view', v2) /\ SameProposer(view', v2)
      /\ v2.up /\ Changed /\ state = "reconnecting" => view'.parses = <<>> /\ view'.outQ = <<>> /\ ~view'.inFlight
      /\ ~(v2.up /\ Changed /\ state = "reconnecting") => SamePicture(view', v2)
      /\ view'.overlay = "live" => \/ v2.overlay = "live" /\ (v2.up /\ Changed => state = "connected")
                                   \/ state = "connected" /\ app.painted
  BY <1>5, <1>6, OverlayIs DEF IndInv
<1>71. ~view.up => view' = view
  BY <1>5, <1>6, OverlayIs DEF IndInv
<1>8. v2.up = view.up
  BY <1>4, <1>5 DEF SamePicture, SameTerm
<1>9. SameTerm(view', view)
  BY <1>4, <1>5, <1>7 DEF SamePicture, SameTerm
<1>10. IF state # "connected" /\ size.connected /\ app.ready
       THEN ~view'.owns /\ ~view'.timer /\ view'.sent = None
       ELSE SameProposer(view', view)
  BY <1>4, <1>5, <1>7 DEF SameProposer
<1>11. IF view.up /\ Changed /\ state = "reconnecting"
       THEN view'.parses = <<>> /\ view'.outQ = <<>> /\ ~view'.inFlight
       ELSE IF Renewed THEN Parses(view', "snapshot", ScreenOf(kept.snapshot))
       ELSE SamePicture(view', view)
  BY <1>4, <1>5, <1>7, <1>8 DEF SamePicture, SameTerm, Parses
<1>12. view'.overlay = "live" => \/ view.overlay = "live" /\ (view.up /\ Changed => state = "connected")
                                 \/ state = "connected" /\ app.painted
  BY <1>4, <1>5, <1>7, <1>8
<1> QED
  BY <1>7, <1>71, <1>9, <1>10, <1>11, <1>12

\* The renderer is ready, and was being waited for.
Starts == startup.at = "loading" /\ startup.loaded

LEMMA RendererReadyIs ==
  ASSUME IndInv, RendererReady, Starts
  PROVE  /\ view.up /\ view' \in View /\ SameTerm(view', view) /\ view'.overlay # "live"
         /\ Owns(size.owned) \in BOOLEAN
         /\ IF app.pending # None
            THEN /\ Parses(view', "snapshot", ScreenOf(app.pending))
                 /\ Proposer(view', Owns(size.owned), view)
            ELSE /\ SamePicture(view', view) \/ (view'.parses = <<>> /\ view'.outQ = <<>> /\ ~view'.inFlight)
                 /\ view'.owns = Owns(size.owned) /\ (~Owns(size.owned) => ~view'.timer)
<1> DEFINE o == Owns(size.owned)
           s == IF state = "reconnecting" THEN state ELSE "loading"
           v1 == Told(view, SetSizeOwnership(view, o))
           v2 == Told(v1, SetConnectionState(v1, s))
<1>1. view \in View /\ view.up /\ o \in BOOLEAN /\ s \in {"loading", "reconnecting"}
  BY DEF IndInv, TypeOK, LinkInv, Starts, Owns, Size
<1>2. view' = IF app.pending # None THEN Told(v2, ApplySnapshot(v2, app.pending)) ELSE OnResize(v2, kept.grid)
  BY DEF RendererReady, Starts, StatesOfReady
<1> HIDE DEF o, s
<1>v1. v1 = Told(view, SetSizeOwnership(view, o))
  OBVIOUS
<1>v2. v2 = Told(v1, SetConnectionState(v1, s))
  OBVIOUS
<1> HIDE DEF v1, v2
<1>3. v1 \in View /\ SamePicture(v1, view) /\ v1.overlay = view.overlay /\ v1.up /\ Proposer(v1, o, view)
  <2>1. /\ v1 \in View /\ SamePicture(v1, view) /\ v1.overlay = view.overlay
        /\ ~view.up => v1 = view
        /\ view.up => /\ v1.owns = o
                      /\ o => v1.sent = view.sent /\ (v1.timer <=> view.timer \/ view.sent # PhoneGrid)
                      /\ ~o => v1.sent = None /\ ~v1.timer
    BY <1>v1, <1>1, OwnershipIs
  <2> QED
    BY <1>1, <2>1 DEF Proposer, SamePicture, SameTerm
<1>4. /\ v2 \in View /\ SameTerm(v2, v1) /\ SameProposer(v2, v1) /\ v2.overlay # "live" /\ v2.up
      /\ SamePicture(v2, v1) \/ (v2.parses = <<>> /\ v2.outQ = <<>> /\ ~v2.inFlight)
  <2>1. /\ v2 \in View /\ SameTerm(v2, v1) /\ SameProposer(v2, v1)
        /\ ~v1.up => v2 = v1
        /\ v1.up => /\ v2.overlay = s
                    /\ s # "reconnecting" => SamePicture(v2, v1)
                    /\ s = "reconnecting" => v2.parses = <<>> /\ v2.outQ = <<>> /\ ~v2.inFlight
    BY <1>v2, <1>1, <1>3, ConnectionStateIs
  <2> QED
    BY <1>1, <1>3, <2>1 DEF SameTerm
<1>5. CASE app.pending # None
  <2>1. view' = Told(v2, Parsing(v2, "snapshot", ScreenOf(app.pending))) /\ ScreenOf(app.pending) \in Screen
    BY <1>2, <1>5, AppIs, ScreenOfType DEF ApplySnapshot, IndInv
  <2>2. /\ view' \in View /\ SameTerm(view', v2) /\ SameProposer(view', v2) /\ view'.overlay = v2.overlay
        /\ Parses(view', "snapshot", ScreenOf(app.pending))
    BY <1>4, <2>1, ParsingIs
  <2>3. SameTerm(view', view)
    BY <1>3, <1>4, <2>2 DEF SameTerm, SamePicture
  <2>4. Proposer(view', o, view)
    BY <1>3, <1>4, <2>2 DEF SameProposer, Proposer
  <2> QED
    BY <1>1, <1>4, <1>5, <2>2, <2>3, <2>4 DEF o
<1>6. CASE app.pending = None
  <2>1. /\ view' \in View /\ SamePicture(view', v2) /\ view'.overlay = v2.overlay
        /\ view'.owns = v2.owns /\ view'.timer = v2.timer
    BY <1>2, <1>4, <1>6, AppIs, ResizeIs DEF IndInv
  <2>2. SameTerm(view', view)
    BY <1>3, <1>4, <2>1 DEF SameTerm, SamePicture
  <2>3. SamePicture(view', view) \/ (view'.parses = <<>> /\ view'.outQ = <<>> /\ ~view'.inFlight)
    BY <1>3, <1>4, <2>1 DEF SameTerm, SamePicture
  <2>4. view'.owns = o /\ (~o => ~view'.timer)
    BY <1>1, <1>3, <1>4, <2>1 DEF SameProposer, Proposer
  <2> QED
    BY <1>1, <1>4, <1>6, <2>1, <2>2, <2>3, <2>4 DEF o
<1> QED
  BY <1>5, <1>6

-----------------------------------------------------------------------------
(* IndInv is an invariant                                                    *)

LEMMA PostType ==
  ASSUME TypeOK, NEW m \in {"ready", "snapshot-applied", "resize"}, Post([type |-> m])
  PROVE  toApp' \in Seq(Posted)
BY DEF TypeOK, Post, Posted

LEMMA UpType ==
  ASSUME TypeOK,
         NEW m \in {"session-snapshot-applied", "terminal-size-claim", "terminal-size-release", "resize"}
  PROVE  Append(up, [type |-> m]) \in Seq(Sent)
BY DEF TypeOK, Sent

LEMMA NewAppType ==
  ASSUME TypeOK, NEW s \in Snapshot \cup {None}
  PROVE  /\ [app EXCEPT !.pending = s, !.live = <<>>, !.awaiting = TRUE, !.painted = FALSE] \in App
         /\ [app EXCEPT !.pending = s, !.live = <<>>, !.awaiting = TRUE, !.painted = FALSE, !.ran = Now] \in App
         /\ [app EXCEPT !.live = <<>>, !.awaiting = FALSE] \in App
         /\ [NewScreen(s) EXCEPT !.ran = [NotSeen EXCEPT !.state = state]] \in App
         /\ [app EXCEPT !.ran = Now] \in App
<1>1. <<>> \in Seq(Nat) /\ app \in App /\ state \in ConnectionState
  BY DEF TypeOK
<1>2. Now \in [state : ConnectionState \cup {None}, painted : BOOLEAN, ready : BOOLEAN]
  BY <1>1 DEF Now, App
<1> QED
  BY <1>1, <1>2 DEF App, NewScreen, NotSeen

LEMMA DocumentKeepsInd ==
  ASSUME IndInv, DocumentInit \/ FlushOutput \/ Parsed \/ GridTimer \/ Relayout,
         UNCHANGED <<state, kept, app, size, startup, reopened, missed, up, stationVars>>
  PROVE  IndInv'
<1>1. view' \in View /\ view'.up
  <2>1. ~view.up => view.outQ = <<>> /\ view.parses = <<>> /\ ~view.timer
    BY DEF IndInv, LinkInv, Unloaded
  <2>2. view.up \in BOOLEAN
    BY DEF IndInv, TypeOK, View
  <2>3. CASE DocumentInit
    BY <2>3, DocumentInitIs
  <2>4. CASE FlushOutput
    BY <2>1, <2>2, <2>4, FlushIs DEF IndInv, FlushOutput
  <2>5. CASE Parsed
    BY <2>1, <2>2, <2>5, ParsedIs DEF IndInv, Parsed
  <2>6. CASE GridTimer
    BY <2>1, <2>2, <2>6, GridTimerIs DEF IndInv, GridTimer, SamePicture, SameTerm
  <2>7. CASE Relayout
    BY <2>2, <2>7, RelayoutIs DEF IndInv, Relayout, SamePicture, SameTerm
  <2> QED
    BY <2>3, <2>4, <2>5, <2>6, <2>7
<1>2. toApp' \in Seq(Posted)
  <2>1. toApp' = toApp \/ \E m \in {"ready", "snapshot-applied", "resize"} : Post([type |-> m])
    BY DEF DocumentInit, FlushOutput, Parsed, GridTimer, Relayout
  <2> QED
    BY <2>1, PostType DEF IndInv, TypeOK
<1> QED
  BY <1>1, <1>2 DEF IndInv, TypeOK, LinkInv, stationVars

LEMMA RunEffectsKeepsInd ==
  ASSUME IndInv, RunEffects, UNCHANGED stationVars
  PROVE  IndInv'
<1>1. view' \in View /\ (~view.up => view' = view) /\ view'.up = view.up
  BY RunEffectsIs DEF SameTerm
<1>2. /\ app' \in App /\ app'.pending = kept.snapshot /\ app'.ready = app.ready
      /\ app'.ran.state = state /\ app'.ran.ready = app.ready
  <2>1. CASE Renewed
    <3>1. app' = [app EXCEPT !.pending = kept.snapshot, !.live = <<>>, !.awaiting = TRUE, !.painted = FALSE,
                             !.ran = Now]
      BY <2>1 DEF RunEffects
    <3>2. app' \in App
      BY <3>1, AppIs, NewAppType DEF IndInv
    <3> QED
      BY <3>1, <3>2 DEF App, Now, IndInv, TypeOK
  <2>2. CASE ~Renewed
    <3>1. app' = [app EXCEPT !.ran = Now]
      BY <2>2 DEF RunEffects
    <3>2. app' \in App
      BY <3>1, NewAppType DEF IndInv
    <3> QED
      BY <3>1, <3>2 DEF App, Now, IndInv, TypeOK, LinkInv
  <2> QED
    BY <2>1, <2>2
<1>3. /\ size' \in Size /\ size'.viewReady = size.viewReady
      /\ size'.connected <=> state = "connected"
  <2>1. size' = [size EXCEPT !.connected = state = "connected", !.owned = @ /\ state = "connected"]
    BY DEF RunEffects, SetConnected
  <2> QED
    BY <2>1 DEF IndInv, TypeOK, Size
<1>4. up' \in Seq(Sent) /\ (conn = 0 => up' = <<>>)
  <2>1. \/ up' = up
        \/ state = "connected" /\ up' = Append(up, [type |-> "terminal-size-claim"])
    BY DEF RunEffects, SetConnected
  <2> QED
    BY <2>1, UpType DEF IndInv, TypeOK, LinkInv
<1>5. missed' \in BOOLEAN
  BY DEF RunEffects
<1>6. UNCHANGED <<toApp, state, kept, startup, reopened, stationVars>>
  BY DEF RunEffects
<1>7. TypeOK'
  BY <1>1, <1>2, <1>3, <1>4, <1>5, <1>6 DEF IndInv, TypeOK, stationVars
<1>8. LinkInv'
  BY <1>1, <1>2, <1>3, <1>4, <1>6 DEF IndInv, LinkInv, stationVars
<1> QED
  BY <1>7, <1>8 DEF IndInv

LEMMA StartupKeepsInd ==
  ASSUME IndInv, PageLoaded \/ Probe \/ StartupTimeout \/ RetryRenderer, UNCHANGED stationVars
  PROVE  IndInv'
<1>1. CASE PageLoaded
  <2>1. startup' = [startup EXCEPT !.loaded = TRUE] /\ view.up /\ startup.at = "loading"
        /\ UNCHANGED <<view, toApp, state, kept, app, size, reopened, missed, up>>
    BY <1>1 DEF PageLoaded
  <2> QED
    BY <2>1 DEF IndInv, TypeOK, LinkInv, stationVars, Startup
<1>2. CASE Probe
  <2>1. Post([type |-> "ready"]) /\ UNCHANGED <<view, state, kept, app, size, startup, reopened, missed, up>>
    BY <1>2 DEF Probe
  <2>2. toApp' \in Seq(Posted)
    BY <2>1, PostType DEF IndInv
  <2> QED
    BY <2>1, <2>2 DEF IndInv, TypeOK, LinkInv, stationVars
<1>3. CASE StartupTimeout
  <2>1. startup' = [startup EXCEPT !.at = "failed"] /\ startup.at = "loading"
        /\ UNCHANGED <<view, toApp, state, kept, app, size, reopened, missed, up>>
    BY <1>3 DEF StartupTimeout
  <2> QED
    BY <2>1 DEF IndInv, TypeOK, LinkInv, stationVars, Startup
<1>4. CASE RetryRenderer
  <2>1. startup' = [at |-> "loading", loaded |-> FALSE, starts |-> startup.starts + 1] /\ view' = Unloaded
        /\ startup.at = "failed"
        /\ UNCHANGED <<toApp, state, kept, app, size, reopened, missed, up>>
    BY <1>4 DEF RetryRenderer, Loading
  <2> QED
    BY <2>1, UnloadedType DEF IndInv, TypeOK, LinkInv, stationVars, Startup
<1> QED
  BY <1>1, <1>2, <1>3, <1>4

LEMMA MessageKeepsInd ==
  ASSUME IndInv, HandleMessage, UNCHANGED stationVars
  PROVE  IndInv'
<1>1. toApp' \in Seq(Posted) /\ UNCHANGED <<state, reopened>>
  BY TailType DEF IndInv, TypeOK, HandleMessage
<1>2. CASE RendererReady /\ Starts /\ UNCHANGED <<kept, up>>
  <2>1. view' \in View /\ view'.up
    BY <1>2, RendererReadyIs DEF SameTerm
  <2>2. /\ startup' = [startup EXCEPT !.at = "ready"] /\ app' = [app EXCEPT !.ready = TRUE]
        /\ size' = [size EXCEPT !.viewReady = TRUE] /\ missed' \in BOOLEAN
    BY <1>2 DEF RendererReady, Starts
  <2>3. startup' \in Startup /\ startup'.at = "ready" /\ startup'.loaded
    BY <1>2, <2>2 DEF IndInv, TypeOK, Startup, Starts
  <2>4. /\ app' \in App /\ app'.ready /\ app'.pending = app.pending /\ app'.ran = app.ran
    BY <2>2 DEF IndInv, TypeOK, App
  <2>5. /\ size' \in Size /\ size'.viewReady /\ size'.connected = size.connected
    BY <2>2 DEF IndInv, TypeOK, Size
  <2>6. TypeOK'
    BY <1>1, <1>2, <2>1, <2>2, <2>3, <2>4, <2>5 DEF IndInv, TypeOK, stationVars
  <2>7. LinkInv'
    BY <1>1, <1>2, <2>1, <2>3, <2>4, <2>5 DEF IndInv, LinkInv, stationVars
  <2> QED
    BY <2>6, <2>7 DEF IndInv
<1>3. CASE RendererReady /\ ~Starts /\ UNCHANGED <<kept, up>>
  <2>1. UNCHANGED <<view, app, size, startup, missed>>
    BY <1>3 DEF RendererReady, Starts
  <2> QED
    BY <1>1, <1>3, <2>1 DEF IndInv, TypeOK, LinkInv, stationVars
<1>4. CASE SnapshotApplied /\ UNCHANGED <<view, size, startup, missed>>
  <2>1. app' = [app EXCEPT !.painted = TRUE]
    BY <1>4 DEF SnapshotApplied
  <2>2. /\ app' \in App /\ app'.ready = app.ready /\ app'.pending = app.pending /\ app'.ran = app.ran
    BY <2>1 DEF IndInv, TypeOK, App
  <2>3. \/ kept' = kept /\ up' = up
        \/ /\ kept' = [kept EXCEPT !.acked = TRUE] /\ state = "connected"
           /\ up' = Append(up, [type |-> "session-snapshot-applied"])
    BY <1>4 DEF SnapshotApplied
  <2>4. kept' \in Kept /\ kept'.snapshot = kept.snapshot
    BY <2>3 DEF IndInv, TypeOK, Kept
  <2>5. up' \in Seq(Sent) /\ (conn = 0 => up' = <<>>)
    BY <2>3, UpType DEF IndInv, TypeOK, LinkInv
  <2>6. TypeOK'
    BY <1>1, <1>4, <2>2, <2>4, <2>5 DEF IndInv, TypeOK, stationVars
  <2>7. LinkInv'
    BY <1>1, <1>4, <2>2, <2>4, <2>5 DEF IndInv, LinkInv, stationVars
  <2> QED
    BY <2>6, <2>7 DEF IndInv
<1>5. CASE ProposeGrid /\ UNCHANGED <<view, kept, app, size, startup, missed>>
  <2>1. app.ran.state = state
    BY RenderedIs DEF HandleMessage
  <2>2. up' = up \/ (size.connected /\ up' = Append(up, [type |-> "resize"]))
    BY <1>5 DEF ProposeGrid
  <2>3. up' \in Seq(Sent) /\ (conn = 0 => up' = <<>>)
    BY <2>1, <2>2, UpType DEF IndInv, TypeOK, LinkInv
  <2> QED
    BY <1>1, <1>5, <2>3 DEF IndInv, TypeOK, LinkInv, stationVars
<1> QED
  BY <1>2, <1>3, <1>4, <1>5 DEF HandleMessage

LEMMA RemountKeepsInd ==
  ASSUME IndInv, Remount, UNCHANGED stationVars
  PROVE  IndInv'
<1>1. /\ view' = Unloaded /\ startup' = [at |-> "loading", loaded |-> FALSE, starts |-> startup.starts + 1]
      /\ toApp' = <<>> /\ reopened' = TRUE /\ missed' \in BOOLEAN /\ UNCHANGED <<state, kept>>
  BY DEF Remount, Loading
<1>2. /\ size' \in Size /\ ~size'.viewReady /\ (size'.connected <=> state = "connected")
  BY AppIs DEF Remount, NewSize, Size, IndInv
<1>3. /\ app' \in App /\ app'.pending = kept.snapshot /\ ~app'.ready /\ app'.ran.state = state
      /\ ~app'.ran.ready
  <2>1. app' = [NewScreen(kept.snapshot) EXCEPT !.ran = [NotSeen EXCEPT !.state = state]]
    BY DEF Remount
  <2>2. app' \in App
    BY <2>1, AppIs, NewAppType DEF IndInv
  <2> QED
    BY <2>1, <2>2 DEF NewScreen, NotSeen
<1>4. up' \in Seq(Sent) /\ (conn = 0 => up' = <<>>)
  <2> DEFINE released == IF size.connected THEN Append(up, [type |-> "terminal-size-release"]) ELSE up
  <2>1. app.ran.state = state
    BY RenderedIs DEF Remount
  <2>2. released \in Seq(Sent) /\ (conn = 0 => released = <<>>)
    BY <2>1, UpType DEF IndInv, TypeOK, LinkInv
  <2>3. up' = IF state = "connected" THEN Append(released, [type |-> "terminal-size-claim"]) ELSE released
    BY DEF Remount
  <2> HIDE DEF released
  <2>4. [type |-> "terminal-size-claim"] \in Sent
    BY DEF Sent
  <2> QED
    BY <2>2, <2>3, <2>4, AppendType DEF IndInv, LinkInv
<1>5. startup' \in Startup
  BY <1>1 DEF IndInv, TypeOK, Startup
<1>6. toApp' \in Seq(Posted)
  BY <1>1
<1>7. TypeOK'
  BY <1>1, <1>2, <1>3, <1>4, <1>5, <1>6, UnloadedType DEF IndInv, TypeOK, stationVars
<1>8. LinkInv'
  BY <1>1, <1>2, <1>3, <1>4 DEF IndInv, LinkInv, stationVars
<1> QED
  BY <1>7, <1>8 DEF IndInv

LEMMA ConnectedKeepsInd ==
  ASSUME IndInv, Connected
  PROVE  IndInv'
<1> DEFINE s == NewSnapshot
<1>1. /\ s \in Snapshot /\ s.conn = opened + 1 /\ s.upTo = made
  BY ConnectedIs DEF NewSnapshot
<1>2. /\ view' \in View /\ view'.up = view.up /\ (~view.up => view' = view)
  BY ConnectedIs DEF SameTerm
<1>3. /\ opened' = opened + 1 /\ conn' = opened + 1 /\ state' = "connected" /\ missed' = FALSE
      /\ kept' = Published(s) /\ size' = [size EXCEPT !.owned = FALSE]
      /\ app' = [app EXCEPT !.pending = s, !.live = <<>>, !.awaiting = TRUE, !.painted = FALSE]
      /\ UNCHANGED <<toApp, startup, reopened, up, made, grid, claim, turns, refused>>
  BY DEF Connected, OnSnapshot, NewSnapshot
<1> HIDE DEF s
<1>4. kept' \in Kept /\ kept'.snapshot = s
  BY <1>1, <1>3 DEF IndInv, TypeOK, Kept, Published, Snapshot
<1>5. size' \in Size /\ size'.viewReady = size.viewReady /\ size'.connected = size.connected
  BY <1>3 DEF IndInv, TypeOK, Size
<1>6. app' \in App /\ app'.pending = s /\ app'.ready = app.ready /\ app'.ran = app.ran
  <2>1. app' \in App
    BY <1>1, <1>3, NewAppType DEF IndInv
  <2> QED
    BY <1>3, <2>1 DEF IndInv, TypeOK, App
<1>7. TypeOK'
  <2>1. opened' \in Nat /\ conn' \in Nat /\ state' \in ConnectionState /\ missed' \in BOOLEAN
    <3>1. opened \in Nat
      BY DEF IndInv, TypeOK
    <3>2. opened' \in Nat /\ conn' \in Nat
      BY <1>3, <3>1
    <3>3. state' \in ConnectionState
      BY <1>3 DEF ConnectionState
    <3>4. missed' \in BOOLEAN
      BY <1>3
    <3> QED
      BY <3>2, <3>3, <3>4
  <2> QED
    BY <1>2, <1>3, <1>4, <1>5, <1>6, <2>1 DEF IndInv, TypeOK
<1>8. LinkInv'
  <2>1. opened \in Nat /\ made \in Nat /\ s # None
    BY <1>1 DEF IndInv, TypeOK
  <2> QED
    BY <1>1, <1>2, <1>3, <1>4, <1>5, <1>6, <2>1 DEF IndInv, LinkInv
<1> QED
  BY <1>7, <1>8 DEF IndInv

LEMMA LostKeepsInd ==
  ASSUME IndInv, Lost
  PROVE  IndInv'
<1>1. /\ conn' = 0 /\ state' = "reconnecting" /\ up' = <<>> /\ claim' = "none"
      /\ grid' \in Grid /\ refused' = FALSE
      /\ UNCHANGED <<view, toApp, kept, app, size, startup, reopened, missed, opened, made, turns>>
  BY DEF Lost, IndInv, TypeOK, Grid
<1>2. up' \in Seq(Sent)
  BY <1>1
<1>3. refused' \in BOOLEAN
  BY <1>1
<1> QED
  BY <1>1, <1>2, <1>3 DEF IndInv, TypeOK, LinkInv, ConnectionState

LEMMA OutputKeepsInd ==
  ASSUME IndInv, Output
  PROVE  IndInv'
<1>1. /\ made' = made + 1 /\ made \in Nat
      /\ UNCHANGED <<toApp, state, size, startup, reopened, missed, up, conn, opened, grid, claim, turns, refused>>
  BY DEF Output, IndInv, TypeOK
<1>2. /\ view' \in View /\ view'.up = view.up /\ (~view.up => view' = view)
      /\ app' \in App /\ app'.pending = app.pending /\ app'.ready = app.ready /\ app'.ran = app.ran
      /\ kept' \in Kept /\ kept'.snapshot = kept.snapshot
  <2>1. CASE UNCHANGED <<view, app, kept>>
    BY <2>1 DEF IndInv, TypeOK
  <2>2. CASE OnOutput(made + 1)
    BY <1>1, <2>2, OnOutputIs DEF OutputShown, SameTerm, IndInv, TypeOK, Kept
  <2> QED
    BY <2>1, <2>2 DEF Output
<1>3. TypeOK'
  BY <1>1, <1>2 DEF IndInv, TypeOK
<1>4. LinkInv'
  <2>1. kept.snapshot # None => kept.snapshot.upTo \in Nat
    BY AppIs DEF IndInv, Snapshot
  <2> QED
    BY <1>1, <1>2, <2>1 DEF IndInv, LinkInv
<1> QED
  BY <1>3, <1>4 DEF IndInv

\* What the Station does about the size: the owner is announced, a grid is taken,
\* nothing, or an error message is sent, with the owner or alone.
Refusal == made' = made + 1 /\ OnOutput(made + 1) /\ UNCHANGED <<size, grid>>
SizeChange(owned, newGrid) ==
  \/ Announce(owned, newGrid) /\ UNCHANGED <<app, made>>
  \/ grid' = newGrid /\ view' = OnResize(view, newGrid) /\ UNCHANGED <<kept, app, size, made>>
  \/ UNCHANGED <<view, kept, app, size, grid, made>>
  \/ RestoreFails
  \/ Refusal

LEMMA RestoreFailsKept ==
  ASSUME IndInv, RestoreFails
  PROVE  /\ kept' \in Kept /\ kept'.snapshot = kept.snapshot /\ kept'.acked = kept.acked
         /\ kept'.last = made + 1 /\ ~kept'.owner
<1>1. kept' = [kept EXCEPT !.last = made + 1, !.owner = FALSE]
  BY RestoreFailsIs
<1>2. kept \in Kept /\ made + 1 \in Nat
  BY DEF IndInv, TypeOK
<1> QED
  BY <1>1, <1>2 DEF Kept

LEMMA RefusalKept ==
  ASSUME IndInv, OnOutput(made + 1)
  PROVE  /\ kept' \in Kept /\ kept'.snapshot = kept.snapshot /\ kept'.acked = kept.acked
         /\ kept'.last = made + 1 /\ kept'.owner = kept.owner
<1>1. kept' = [kept EXCEPT !.last = made + 1]
  BY OnOutputIs
<1>2. kept \in Kept /\ made + 1 \in Nat
  BY DEF IndInv, TypeOK
<1> QED
  BY <1>1, <1>2 DEF Kept

LEMMA StationKeepsInd ==
  ASSUME IndInv, NEW owned \in BOOLEAN, NEW newGrid \in Grid, SizeChange(owned, newGrid),
         claim' \in {"none", "stands", "owns"}, turns' \in Nat, refused' \in BOOLEAN,
         up' \in Seq(Sent), conn = 0 => up' = <<>>,
         UNCHANGED <<toApp, state, startup, reopened, missed, conn, opened>>
  PROVE  IndInv'
<1> DEFINE Kept1 == /\ view' \in View /\ view'.up = view.up /\ (~view.up => view' = view)
                   /\ kept' \in Kept /\ kept'.snapshot = kept.snapshot
                   /\ app' \in App /\ app'.pending = app.pending /\ app'.ready = app.ready /\ app'.ran = app.ran
                   /\ size' \in Size /\ size'.viewReady = size.viewReady /\ size'.connected = size.connected
                   /\ grid' \in Grid /\ made' \in {made, made + 1}
<1>0. made \in Nat
  BY DEF IndInv, TypeOK
<1>1. Kept1
  <2>1. CASE Announce(owned, newGrid) /\ UNCHANGED <<app, made>>
    <3>1. /\ view' \in View /\ view'.up = view.up /\ (~view.up => view' = view) /\ grid' = newGrid
          /\ kept' = [kept EXCEPT !.owner = owned] /\ size' = [size EXCEPT !.owned = Owns(owned)]
          /\ Owns(owned) \in BOOLEAN
      BY <2>1, AnnounceIs DEF SamePicture, SameTerm
    <3> QED
      BY <2>1, <3>1 DEF IndInv, TypeOK, Kept, Size
  <2>2. CASE grid' = newGrid /\ view' = OnResize(view, newGrid) /\ UNCHANGED <<kept, app, size, made>>
    BY <2>2, ResizeIs DEF IndInv, TypeOK, SamePicture, SameTerm
  <2>3. CASE UNCHANGED <<view, kept, app, size, grid, made>>
    BY <2>3 DEF IndInv, TypeOK
  <2>4. CASE RestoreFails
    <3>1. /\ OutputShown /\ made' = made + 1 /\ grid' = grid
          /\ kept' = [kept EXCEPT !.last = made + 1, !.owner = FALSE]
          /\ size' = [size EXCEPT !.owned = FALSE]
      BY <2>4, RestoreFailsIs
    <3>2. kept' \in Kept /\ kept'.snapshot = kept.snapshot
      BY <2>4, RestoreFailsKept
    <3>3. size' \in Size /\ size'.viewReady = size.viewReady /\ size'.connected = size.connected
      BY <3>1 DEF IndInv, TypeOK, Size
    <3>4. grid' \in Grid
      BY <3>1 DEF IndInv, TypeOK
    <3> QED
      BY <3>1, <3>2, <3>3, <3>4 DEF OutputShown, SameTerm
  <2>5. CASE Refusal
    <3>1. /\ OutputShown /\ made' = made + 1 /\ grid' = grid /\ size' = size
          /\ kept' = [kept EXCEPT !.last = made + 1]
      BY <2>5, OnOutputIs DEF Refusal
    <3>2. kept' \in Kept /\ kept'.snapshot = kept.snapshot
      BY <2>5, RefusalKept DEF Refusal
    <3>3. size' \in Size /\ grid' \in Grid
      BY <3>1 DEF IndInv, TypeOK
    <3> QED
      BY <3>1, <3>2, <3>3 DEF OutputShown, SameTerm
  <2> QED
    BY <2>1, <2>2, <2>3, <2>4, <2>5 DEF SizeChange
<1>2. made' \in Nat /\ made <= made'
  BY <1>0, <1>1
<1>3. TypeOK'
  BY <1>1, <1>2 DEF IndInv, TypeOK
<1>4. LinkInv'
  <2>1. kept.snapshot # None => kept.snapshot.upTo \in Nat
    BY AppIs DEF IndInv, Snapshot
  <2> QED
    BY <1>0, <1>1, <1>2, <2>1 DEF IndInv, LinkInv
<1> QED
  BY <1>3, <1>4 DEF IndInv

\* The history is written with what has come since its snapshot.
LEMMA ScrollbackIs ==
  ASSUME IndInv, OnScrollback, conn # 0
  PROVE  LET scr == Written(ScreenOf(kept.snapshot), app.live)
         IN  /\ kept.snapshot \in Snapshot /\ scr \in Screen /\ scr.conn = conn
             /\ scr.grid = kept.snapshot.grid
             /\ app' = [app EXCEPT !.live = <<>>, !.awaiting = FALSE]
             /\ view' \in View /\ SameTerm(view', view) /\ SameProposer(view', view)
             /\ view'.overlay = view.overlay
             /\ ~view.up => view' = view
             /\ view.up => Parses(view', "history", scr)
<1> DEFINE scr == Written(ScreenOf(kept.snapshot), app.live)
<1>1. /\ kept.snapshot \in Snapshot /\ kept.snapshot.conn = conn /\ view \in View
      /\ app.live \in Seq(Nat)
  BY AppIs DEF IndInv, LinkInv, TypeOK
<1>2. /\ scr \in Screen /\ scr.conn = conn /\ scr.grid = kept.snapshot.grid
  BY <1>1, ScreenOfType, WrittenType
<1>3. /\ app' = [app EXCEPT !.live = <<>>, !.awaiting = FALSE]
      /\ view' = Told(view, Parsing(view, "history", scr))
  BY DEF OnScrollback, ApplyScrollback, IndInv, LinkInv
<1> HIDE DEF scr
<1>4. /\ view' \in View /\ SameTerm(view', view) /\ SameProposer(view', view) /\ view'.overlay = view.overlay
      /\ ~view.up => view' = view
      /\ view.up => Parses(view', "history", scr)
  BY <1>1, <1>2, <1>3, ParsingIs
<1> QED
  BY <1>1, <1>2, <1>3, <1>4 DEF scr

LEMMA AppliedKeepsInd ==
  ASSUME IndInv, StationHandles, HandleApplied
  PROVE  IndInv'
<1>1. /\ conn # 0 /\ up' \in Seq(Sent)
      /\ UNCHANGED <<kept, size, grid, claim, refused, toApp, state, startup, reopened, missed, conn, opened, made, turns>>
  BY TailType DEF StationHandles, HandleApplied, IndInv, LinkInv, TypeOK
<1>2. /\ view' \in View /\ view'.up = view.up /\ (~view.up => view' = view)
      /\ app' = [app EXCEPT !.live = <<>>, !.awaiting = FALSE]
  BY <1>1, ScrollbackIs DEF HandleApplied, SameTerm
<1>3. app' \in App
  BY <1>2, AppIs, NewAppType DEF IndInv
<1>4. app'.pending = app.pending /\ app'.ready = app.ready /\ app'.ran = app.ran
  BY <1>2, <1>3 DEF IndInv, TypeOK, App
<1>5. TypeOK'
  BY <1>1, <1>2, <1>3 DEF IndInv, TypeOK
<1>6. LinkInv'
  BY <1>1, <1>2, <1>4 DEF IndInv, LinkInv
<1> QED
  BY <1>5, <1>6 DEF IndInv

LEMMA GridsType == TypeOK => grid \in Grid /\ StationGrid \in Grid /\ PhoneGrid \in Grid
BY DEF TypeOK, Grid

\* What each message about the size changes.
LEMMA HandlesSize ==
  ASSUME IndInv, HandleClaim \/ HandleRelease \/ HandleResize
  PROVE  /\ \E owned \in BOOLEAN, newGrid \in Grid : SizeChange(owned, newGrid)
         /\ claim' \in {"none", "stands", "owns"} /\ refused' \in BOOLEAN
<1>1. claim \in {"none", "stands", "owns"} /\ refused \in BOOLEAN
      /\ grid \in Grid /\ StationGrid \in Grid /\ PhoneGrid \in Grid
  BY GridsType DEF IndInv, TypeOK
<1>2. CASE HandleClaim
  <2>1. CASE UNCHANGED <<view, kept, app, size, grid, claim, made, refused>>
    <3>1. SizeChange(TRUE, grid)
      BY <2>1 DEF SizeChange
    <3> QED
      BY <1>1, <2>1, <3>1
  <2>2. CASE claim' = "owns" /\ Announce(TRUE, grid) /\ UNCHANGED <<app, made>>
    <3>1. SizeChange(TRUE, grid) /\ refused' = FALSE
      BY <2>2 DEF SizeChange, Announce
    <3> QED
      BY <1>1, <2>2, <3>1
  <2> QED
    BY <1>2, <2>1, <2>2 DEF HandleClaim
<1>3. CASE HandleRelease
  <2>1. claim' = "none"
    BY <1>3 DEF HandleRelease
  <2>2. CASE UNCHANGED <<view, kept, app, size, grid, made, refused>>
    <3>1. SizeChange(FALSE, grid)
      BY <2>2 DEF SizeChange
    <3> QED
      BY <1>1, <2>1, <2>2, <3>1
  <2>3. CASE Announce(FALSE, StationGrid) /\ UNCHANGED <<app, made>>
    <3>1. SizeChange(FALSE, StationGrid) /\ refused' = FALSE
      BY <2>3 DEF SizeChange, Announce
    <3> QED
      BY <1>1, <2>1, <3>1
  <2>4. CASE RestoreFails
    <3>1. SizeChange(FALSE, grid) /\ refused' = FALSE
      BY <2>4 DEF SizeChange, RestoreFails
    <3> QED
      BY <1>1, <2>1, <3>1
  <2> QED
    BY <1>3, <2>2, <2>3, <2>4 DEF HandleRelease
<1>4. CASE HandleResize
  <2>1. claim' = claim
    BY <1>4 DEF HandleResize
  <2>2. CASE Announce(FALSE, grid) /\ UNCHANGED <<app, made>>
    <3>1. SizeChange(FALSE, grid) /\ refused' = FALSE
      BY <2>2 DEF SizeChange, Announce
    <3> QED
      BY <1>1, <2>1, <3>1
  <2>3. CASE /\ grid' = PhoneGrid /\ view' = OnResize(view, PhoneGrid) /\ refused' = FALSE
             /\ UNCHANGED <<kept, app, size, made>>
    <3>1. SizeChange(FALSE, PhoneGrid)
      BY <2>3 DEF SizeChange
    <3> QED
      BY <1>1, <2>1, <2>3, <3>1
  <2>4. CASE made' = made + 1 /\ OnOutput(made + 1) /\ refused' = TRUE /\ UNCHANGED <<size, grid>>
    <3>1. SizeChange(FALSE, grid)
      BY <2>4 DEF SizeChange, Refusal
    <3> QED
      BY <1>1, <2>1, <2>4, <3>1
  <2> QED
    BY <1>4, <2>2, <2>3, <2>4 DEF HandleResize
<1> QED
  BY <1>2, <1>3, <1>4

LEMMA HandlesKeepsInd ==
  ASSUME IndInv, StationHandles
  PROVE  IndInv'
<1>1. /\ conn # 0 /\ up' \in Seq(Sent)
      /\ UNCHANGED <<toApp, state, startup, reopened, missed, conn, opened, turns>>
  BY TailType DEF StationHandles, IndInv, LinkInv, TypeOK
<1>2. turns \in Nat
  BY DEF IndInv, TypeOK
<1>3. CASE HandleApplied
  BY <1>3, AppliedKeepsInd
<1>4. CASE HandleClaim \/ HandleRelease \/ HandleResize
  BY <1>1, <1>2, <1>4, HandlesSize, StationKeepsInd
<1> QED
  BY <1>3, <1>4 DEF StationHandles

LEMMA OwnerSize ==
  ASSUME IndInv, LeaseExpires \/ OtherClaims \/ OtherLeaves
  PROVE  /\ \E owned \in BOOLEAN, newGrid \in Grid : SizeChange(owned, newGrid)
         /\ claim' \in {"none", "stands", "owns"} /\ refused' \in BOOLEAN /\ turns' \in Nat
<1>1. turns \in Nat /\ turns + 1 \in Nat /\ refused \in BOOLEAN /\ grid \in Grid /\ StationGrid \in Grid
  BY GridsType DEF IndInv, TypeOK
<1>2. CASE LeaseExpires
  <2>1. claim' = "none"
    BY <1>2 DEF LeaseExpires
  <2>2. CASE UNCHANGED <<view, kept, app, size, grid, made, refused>> /\ turns' = turns + 1
    <3>1. SizeChange(FALSE, grid)
      BY <2>2 DEF SizeChange
    <3>2. turns' \in Nat /\ refused' \in BOOLEAN
      BY <1>1, <2>2
    <3> QED
      BY <1>1, <2>1, <3>1, <3>2
  <2>3. CASE Announce(FALSE, StationGrid) /\ UNCHANGED <<app, made>> /\ turns' = turns + 1
    <3>1. SizeChange(FALSE, StationGrid) /\ refused' = FALSE
      BY <2>3 DEF SizeChange, Announce
    <3>2. turns' \in Nat /\ refused' \in BOOLEAN
      BY <1>1, <2>3, <3>1
    <3> QED
      BY <1>1, <2>1, <3>1, <3>2
  <2>4. CASE RestoreFails /\ turns' = turns
    <3>1. SizeChange(FALSE, grid) /\ refused' = FALSE
      BY <2>4 DEF SizeChange, RestoreFails
    <3> QED
      BY <1>1, <2>1, <2>4, <3>1
  <2> QED
    BY <1>2, <2>2, <2>3, <2>4 DEF LeaseExpires
<1>3. CASE OtherClaims
  <2>1. PICK newGrid \in {grid, StationGrid} : Announce(FALSE, newGrid)
    BY <1>3 DEF OtherClaims
  <2>2. claim' = "stands" /\ turns' = turns + 1 /\ UNCHANGED <<app, made>>
    BY <1>3 DEF OtherClaims
  <2>3. SizeChange(FALSE, newGrid) /\ refused' = FALSE
    BY <2>1, <2>2 DEF SizeChange, Announce
  <2>4. turns' \in Nat /\ refused' \in BOOLEAN /\ newGrid \in Grid
    BY <1>1, <2>1, <2>2, <2>3
  <2>5. claim' \in {"none", "stands", "owns"}
    BY <2>2
  <2> QED
    BY <2>3, <2>4, <2>5
<1>4. CASE OtherLeaves
  <2>1. claim' = "owns" /\ turns' = turns /\ Announce(TRUE, grid) /\ UNCHANGED <<app, made>>
    BY <1>4 DEF OtherLeaves
  <2>2. SizeChange(TRUE, grid) /\ refused' = FALSE
    BY <2>1 DEF SizeChange, Announce
  <2> QED
    BY <1>1, <2>1, <2>2
<1> QED
  BY <1>2, <1>3, <1>4

LEMMA OwnerKeepsInd ==
  ASSUME IndInv, LeaseExpires \/ OtherClaims \/ OtherLeaves
  PROVE  IndInv'
<1>1. UNCHANGED <<toApp, state, startup, reopened, missed, up, conn, opened>>
  BY DEF LeaseExpires, OtherClaims, OtherLeaves
<1>2. up' \in Seq(Sent) /\ (conn = 0 => up' = <<>>)
  BY <1>1 DEF IndInv, TypeOK, LinkInv
<1> QED
  BY <1>1, <1>2, OwnerSize, StationKeepsInd

LEMMA InitInd == Init => IndInv
<1> SUFFICES ASSUME Init PROVE IndInv
  OBVIOUS
<1>1. <<>> \in Seq(Nat) /\ <<>> \in Seq(Posted) /\ <<>> \in Seq(Sent)
  OBVIOUS
<1>2. app = [pending |-> None, live |-> <<>>, awaiting |-> FALSE, painted |-> FALSE, ready |-> FALSE,
             ran |-> [state |-> None, painted |-> FALSE, ready |-> FALSE]]
  BY DEF Init, ScreenInit, NewScreen, NotSeen
<1>3. app \in App
  BY <1>1, <1>2 DEF App
<1>4. /\ view = Unloaded /\ toApp = <<>> /\ state = "connecting" /\ up = <<>>
      /\ kept = [snapshot |-> None, owner |-> FALSE, grid |-> StationGrid, acked |-> FALSE, last |-> 0]
      /\ size = [connected |-> FALSE, owned |-> FALSE, viewReady |-> FALSE]
      /\ startup = [at |-> "loading", loaded |-> FALSE, starts |-> 1]
      /\ reopened = FALSE /\ missed = FALSE
      /\ conn = 0 /\ opened = 0 /\ made = 0 /\ grid = StationGrid /\ claim = "none" /\ turns = 0
      /\ refused = FALSE
  BY DEF Init, ScreenInit, NewSize, Loading
<1>5. TypeOK
  BY <1>1, <1>3, <1>4, UnloadedType DEF TypeOK, ConnectionState, Kept, Size, Startup, Grid
<1>6. LinkInv
  <2>1. None # "connected"
    BY DEF ConnectionState
  <2> QED
    BY <1>2, <1>4, <2>1 DEF LinkInv
<1> QED
  BY <1>5, <1>6 DEF IndInv

LEMMA NextInd == IndInv /\ [Next]_vars => IndInv'
<1> SUFFICES ASSUME IndInv, [Next]_vars PROVE IndInv'
  OBVIOUS
<1>1. CASE (Document \/ Relayout) /\ UNCHANGED <<state, kept, app, size, startup, reopened, missed, up, stationVars>>
  BY <1>1, DocumentKeepsInd DEF Document
<1>2. CASE (RunEffects \/ PageLoaded \/ Probe \/ StartupTimeout \/ RetryRenderer \/ HandleMessage \/ Remount)
           /\ UNCHANGED stationVars
  BY <1>2, RunEffectsKeepsInd, StartupKeepsInd, MessageKeepsInd, RemountKeepsInd
<1>3. CASE Connected \/ Lost \/ Output \/ StationHandles
  BY <1>3, ConnectedKeepsInd, LostKeepsInd, OutputKeepsInd, HandlesKeepsInd
<1>4. CASE LeaseExpires \/ OtherClaims \/ OtherLeaves
  BY <1>4, OwnerKeepsInd
<1>5. CASE UNCHANGED vars
  BY <1>5 DEF vars, screenVars, stationVars, IndInv, TypeOK, LinkInv
<1> QED
  BY <1>1, <1>2, <1>3, <1>4, <1>5 DEF Next

\* The types hold, and the screen, what the connection keeps for it, the renderer
\* and the Station agree.
THEOREM PartsAgree == Spec => [](TypeOK /\ LinkInv)
BY InitInd, NextInd, PTL DEF Spec, IndInv

-----------------------------------------------------------------------------
(* Who owns the size                                                         *)

OwnInv ==
  /\ size.owned => size.connected
  /\ conn # 0 => (kept.owner <=> claim = "owns") /\ (size.owned <=> claim = "owns")
  /\ conn = 0 => claim = "none"
  /\ claim # "none" => size.connected
  /\ view.owns <=> size.viewReady /\ size.owned

LEMMA InitOwn == Init => OwnInv
BY DEF Init, ScreenInit, OwnInv, NewSize, Unloaded

\* The owner is announced while there is a connection: the phone owns the size
\* when the Station says so and the screen knows of the connection.
LEMMA AnnounceKeepsOwn ==
  ASSUME IndInv, OwnInv, NEW owned \in BOOLEAN, NEW newGrid \in Grid, Announce(owned, newGrid),
         conn # 0, conn' = conn, size.connected, claim' = "owns" <=> owned
  PROVE  OwnInv'
<1>1. /\ kept' = [kept EXCEPT !.owner = owned] /\ size' = [size EXCEPT !.owned = Owns(owned)]
      /\ ~app.ready => view'.owns = view.owns
      /\ app.ready => view'.owns = Owns(owned)
  BY AnnounceIs
<1>2. Owns(owned) = owned
  BY AppIs DEF Owns, IndInv
<1>3. kept'.owner = owned
  BY <1>1 DEF IndInv, TypeOK, Kept
<1>4. size'.owned = owned /\ size'.connected /\ size'.viewReady = size.viewReady
  BY <1>1, <1>2 DEF IndInv, TypeOK, Size
<1>5. app.ready <=> size.viewReady
  BY DEF IndInv, LinkInv
<1> QED
  BY <1>1, <1>2, <1>3, <1>4, <1>5 DEF OwnInv

LEMMA RestoreFailsKeepsOwn ==
  ASSUME IndInv, OwnInv, RestoreFails, claim' = "none", conn' = conn, conn # 0
  PROVE  OwnInv'
<1>1. /\ size' = [size EXCEPT !.owned = FALSE]
      /\ IF app.ready THEN ~view'.owns ELSE view'.owns = view.owns
  BY RestoreFailsIs DEF SameProposer
<1>2. ~size'.owned /\ size'.viewReady = size.viewReady
  BY <1>1 DEF IndInv, TypeOK, Size
<1>3. ~kept'.owner
  BY RestoreFailsKept
<1>4. app.ready <=> size.viewReady
  BY DEF IndInv, LinkInv
<1> QED
  BY <1>1, <1>2, <1>3, <1>4 DEF OwnInv

\* Nothing of it changes.
LEMMA OwnStays ==
  ASSUME IndInv, OwnInv, view'.owns = view.owns, kept'.owner = kept.owner, UNCHANGED <<size, conn, claim>>
  PROVE  OwnInv'
BY DEF OwnInv

LEMMA DocumentKeepsOwn ==
  ASSUME IndInv, OwnInv, DocumentInit \/ FlushOutput \/ Parsed \/ GridTimer \/ Relayout,
         UNCHANGED <<state, kept, app, size, startup, reopened, missed, up, stationVars>>
  PROVE  OwnInv'
<1>1. view'.owns = view.owns
  BY DocumentInitIs, FlushIs, ParsedIs, GridTimerIs, RelayoutIs DEF IndInv, SameProposer
<1> QED
  BY <1>1, OwnStays DEF stationVars

LEMMA RunEffectsKeepsOwn ==
  ASSUME IndInv, OwnInv, RunEffects, UNCHANGED stationVars
  PROVE  OwnInv'
<1>1. /\ IF state # "connected" /\ size.connected /\ app.ready
         THEN ~view'.owns
         ELSE view'.owns = view.owns
  BY RunEffectsIs DEF SameProposer
<1>2. size' = [size EXCEPT !.connected = state = "connected", !.owned = @ /\ state = "connected"]
      /\ kept' = kept
  BY DEF RunEffects, SetConnected
<1>3. /\ size'.connected <=> state = "connected"
      /\ size'.owned <=> size.owned /\ state = "connected"
      /\ size'.viewReady = size.viewReady
  BY <1>2 DEF IndInv, TypeOK, Size
<1>4. size.viewReady <=> app.ready
  BY DEF IndInv, LinkInv
<1>5. state = "connected" <=> conn # 0
  BY DEF IndInv, LinkInv
<1>6. conn' = conn /\ claim' = claim
  BY DEF stationVars
<1>7. view'.owns <=> size'.viewReady /\ size'.owned
  <2>1. view'.owns \in BOOLEAN /\ view.owns \in BOOLEAN
    BY RunEffectsIs DEF IndInv, TypeOK, View
  <2> QED
    BY <1>1, <1>3, <1>4, <2>1 DEF OwnInv
<1>8. conn # 0 => (kept'.owner <=> claim = "owns") /\ (size'.owned <=> claim = "owns")
  BY <1>2, <1>3, <1>5 DEF OwnInv
<1>9. (conn = 0 => claim = "none") /\ (claim # "none" => size'.connected)
  BY <1>3, <1>5 DEF OwnInv
<1> QED
  BY <1>3, <1>6, <1>7, <1>8, <1>9 DEF OwnInv

LEMMA StartupKeepsOwn ==
  ASSUME IndInv, OwnInv, PageLoaded \/ Probe \/ StartupTimeout \/ RetryRenderer, UNCHANGED stationVars
  PROVE  OwnInv'
<1>1. CASE RetryRenderer
  <2>1. view' = Unloaded /\ startup.at = "failed" /\ UNCHANGED <<kept, size, conn, claim>>
    BY <1>1 DEF RetryRenderer, stationVars
  <2>2. ~view'.owns
    BY <2>1 DEF Unloaded
  <2>3. ~size.viewReady
    BY <2>1 DEF IndInv, LinkInv
  <2> QED
    BY <2>1, <2>2, <2>3 DEF OwnInv
<1>2. CASE PageLoaded \/ Probe \/ StartupTimeout
  <2>1. view'.owns = view.owns /\ UNCHANGED <<kept, size, conn, claim>>
    BY <1>2 DEF PageLoaded, Probe, StartupTimeout, stationVars
  <2> QED
    BY <2>1, OwnStays
<1> QED
  BY <1>1, <1>2

LEMMA MessageKeepsOwn ==
  ASSUME IndInv, OwnInv, HandleMessage, UNCHANGED stationVars
  PROVE  OwnInv'
<1>1. conn' = conn /\ claim' = claim
  BY DEF stationVars
<1>2. CASE RendererReady /\ Starts /\ UNCHANGED <<kept, up>>
  <2>1. view'.owns = Owns(size.owned)
    BY <1>2, RendererReadyIs DEF Proposer
  <2>2. size' = [size EXCEPT !.viewReady = TRUE]
    BY <1>2 DEF RendererReady, Starts
  <2>3. size'.viewReady /\ size'.connected = size.connected /\ size'.owned = size.owned
    BY <2>2 DEF IndInv, TypeOK, Size
  <2>4. Owns(size.owned) = size.owned
    BY AppIs DEF Owns, IndInv, OwnInv
  <2> QED
    BY <1>1, <1>2, <2>1, <2>3, <2>4 DEF OwnInv
<1>3. CASE RendererReady /\ ~Starts /\ UNCHANGED <<kept, up>>
  <2>1. view'.owns = view.owns /\ UNCHANGED <<kept, size>>
    BY <1>3 DEF RendererReady, Starts
  <2> QED
    BY <1>1, <2>1, OwnStays
<1>4. CASE SnapshotApplied /\ UNCHANGED <<view, size, startup, missed>>
  <2>1. kept' = kept \/ kept' = [kept EXCEPT !.acked = TRUE]
    BY <1>4 DEF SnapshotApplied
  <2>2. kept'.owner = kept.owner
    BY <2>1 DEF IndInv, TypeOK, Kept
  <2> QED
    BY <1>1, <1>4, <2>2 DEF OwnInv
<1>5. CASE ProposeGrid /\ UNCHANGED <<view, kept, app, size, startup, missed>>
  BY <1>1, <1>5, OwnStays
<1> QED
  BY <1>2, <1>3, <1>4, <1>5 DEF HandleMessage

LEMMA RemountKeepsOwn ==
  ASSUME IndInv, OwnInv, Remount, UNCHANGED stationVars
  PROVE  OwnInv'
<1>1. /\ size' = [NewSize EXCEPT !.connected = state = "connected", !.owned = state = "connected" /\ kept.owner]
      /\ view' = Unloaded /\ kept' = kept /\ conn' = conn /\ claim' = claim
  BY DEF Remount, stationVars
<1>2. /\ size'.connected <=> state = "connected"
      /\ size'.owned <=> state = "connected" /\ kept.owner
      /\ ~size'.viewReady
  BY <1>1 DEF NewSize
<1>3. ~view'.owns
  BY <1>1 DEF Unloaded
<1>4. state = "connected" <=> conn # 0
  BY DEF IndInv, LinkInv
<1> QED
  BY <1>1, <1>2, <1>3, <1>4 DEF OwnInv

LEMMA ConnectedKeepsOwn ==
  ASSUME IndInv, OwnInv, Connected
  PROVE  OwnInv'
<1>1. /\ kept' = Published(NewSnapshot) /\ size' = [size EXCEPT !.owned = FALSE]
      /\ conn' = opened + 1 /\ claim' = claim /\ conn = 0
  BY ConnectedIs DEF Connected, OnSnapshot
<1>2. ~kept'.owner
  BY <1>1 DEF Published, IndInv, TypeOK, Kept
<1>3. ~size'.owned /\ size'.viewReady = size.viewReady
  BY <1>1 DEF IndInv, TypeOK, Size
<1>4. claim = "none"
  BY <1>1 DEF OwnInv
<1>5. ~view'.owns
  <2>1. CASE app.ready
    BY <2>1, ConnectedIs
  <2>2. CASE ~app.ready
    BY <2>2, ConnectedIs DEF OwnInv, IndInv, LinkInv
  <2> QED
    BY <2>1, <2>2
<1>6. conn' # 0
  BY <1>1 DEF IndInv, TypeOK
<1> QED
  BY <1>1, <1>2, <1>3, <1>4, <1>5, <1>6 DEF OwnInv

LEMMA LostKeepsOwn ==
  ASSUME IndInv, OwnInv, Lost
  PROVE  OwnInv'
BY DEF Lost, OwnInv

LEMMA OutputKeepsOwn ==
  ASSUME IndInv, OwnInv, Output
  PROVE  OwnInv'
<1>1. view'.owns = view.owns /\ kept'.owner = kept.owner
  <2>1. CASE UNCHANGED <<view, app, kept>>
    BY <2>1
  <2>2. CASE OnOutput(made + 1)
    BY <2>2, OnOutputIs, RefusalKept DEF SameProposer
  <2> QED
    BY <2>1, <2>2 DEF Output
<1>2. UNCHANGED <<size, conn, claim>>
  BY DEF Output
<1> QED
  BY <1>1, <1>2, OwnStays

LEMMA HandlesKeepsOwn ==
  ASSUME IndInv, OwnInv, StationHandles
  PROVE  OwnInv'
<1>1. conn # 0 /\ conn' = conn /\ size.connected
  BY RenderedIs DEF StationHandles, IndInv, LinkInv
<1>2. CASE HandleApplied
  <2>1. view'.owns = view.owns /\ UNCHANGED <<kept, size, claim>>
    BY <1>1, <1>2, ScrollbackIs DEF HandleApplied, SameProposer
  <2> QED
    BY <1>1, <2>1, OwnStays
<1>3. CASE HandleClaim
  <2>1. CASE UNCHANGED <<view, kept, app, size, grid, claim>>
    BY <1>1, <2>1, OwnStays
  <2>2. CASE claim' = "owns" /\ Announce(TRUE, grid)
    BY <1>1, <2>2, GridsType, AnnounceKeepsOwn DEF IndInv
  <2> QED
    BY <1>3, <2>1, <2>2 DEF HandleClaim
<1>4. CASE HandleRelease
  <2>1. CASE claim # "owns" /\ claim' = "none" /\ UNCHANGED <<view, kept, app, size, grid>>
    BY <1>1, <2>1 DEF OwnInv
  <2>2. CASE claim' = "none" /\ Announce(FALSE, StationGrid)
    BY <1>1, <2>2, GridsType, AnnounceKeepsOwn DEF IndInv
  <2>3. CASE claim' = "none" /\ RestoreFails
    BY <1>1, <2>3, RestoreFailsKeepsOwn
  <2> QED
    BY <1>4, <2>1, <2>2, <2>3 DEF HandleRelease
<1>5. CASE HandleResize
  <2>1. claim' = claim
    BY <1>5 DEF HandleResize
  <2>2. CASE claim # "owns" /\ Announce(FALSE, grid)
    BY <1>1, <2>1, <2>2, GridsType, AnnounceKeepsOwn DEF IndInv
  <2>3. CASE grid' = PhoneGrid /\ view' = OnResize(view, PhoneGrid) /\ UNCHANGED <<kept, size>>
    <3>1. view'.owns = view.owns
      BY <2>3, ResizeIs, GridsType DEF IndInv, TypeOK
    <3> QED
      BY <1>1, <2>1, <2>3, <3>1, OwnStays
  <2>4. CASE OnOutput(made + 1) /\ UNCHANGED size
    <3>1. view'.owns = view.owns /\ kept'.owner = kept.owner
      BY <2>4, OnOutputIs, RefusalKept DEF SameProposer
    <3> QED
      BY <1>1, <2>1, <2>4, <3>1, OwnStays
  <2> QED
    BY <1>5, <2>2, <2>3, <2>4 DEF HandleResize
<1> QED
  BY <1>2, <1>3, <1>4, <1>5 DEF StationHandles

LEMMA OwnerKeepsOwn ==
  ASSUME IndInv, OwnInv, LeaseExpires \/ OtherClaims \/ OtherLeaves
  PROVE  OwnInv'
<1>1. claim # "none"
  BY DEF LeaseExpires, OtherClaims, OtherLeaves
<1>2. conn # 0 /\ conn' = conn /\ size.connected
  BY <1>1 DEF LeaseExpires, OtherClaims, OtherLeaves, OwnInv
<1>3. CASE LeaseExpires
  <2>1. CASE claim' = "none" /\ Announce(FALSE, StationGrid)
    BY <1>2, <2>1, GridsType, AnnounceKeepsOwn DEF IndInv
  <2>2. CASE claim # "owns" /\ claim' = "none" /\ UNCHANGED <<view, kept, size, grid>>
    BY <1>2, <2>2 DEF OwnInv
  <2>3. CASE claim' = "none" /\ RestoreFails
    BY <1>2, <2>3, RestoreFailsKeepsOwn
  <2> QED
    BY <1>3, <2>1, <2>2, <2>3 DEF LeaseExpires
<1>4. CASE OtherClaims
  <2>1. PICK newGrid \in {grid, StationGrid} : Announce(FALSE, newGrid)
    BY <1>4 DEF OtherClaims
  <2>2. claim' = "stands"
    BY <1>4 DEF OtherClaims
  <2>3. newGrid \in Grid
    BY GridsType DEF IndInv
  <2> QED
    BY <1>2, <2>1, <2>2, <2>3, AnnounceKeepsOwn
<1>5. CASE OtherLeaves
  <2>1. claim' = "owns" /\ Announce(TRUE, grid)
    BY <1>5 DEF OtherLeaves
  <2> QED
    BY <1>2, <2>1, GridsType, AnnounceKeepsOwn DEF IndInv
<1> QED
  BY <1>3, <1>4, <1>5

LEMMA NextOwn == IndInv /\ OwnInv /\ [Next]_vars => OwnInv'
<1> SUFFICES ASSUME IndInv, OwnInv, [Next]_vars PROVE OwnInv'
  OBVIOUS
<1>1. CASE (Document \/ Relayout) /\ UNCHANGED <<state, kept, app, size, startup, reopened, missed, up, stationVars>>
  BY <1>1, DocumentKeepsOwn DEF Document
<1>2. CASE (RunEffects \/ PageLoaded \/ Probe \/ StartupTimeout \/ RetryRenderer \/ HandleMessage \/ Remount)
           /\ UNCHANGED stationVars
  BY <1>2, RunEffectsKeepsOwn, StartupKeepsOwn, MessageKeepsOwn, RemountKeepsOwn
<1>3. CASE Connected \/ Lost \/ Output \/ StationHandles
  BY <1>3, ConnectedKeepsOwn, LostKeepsOwn, OutputKeepsOwn, HandlesKeepsOwn
<1>4. CASE LeaseExpires \/ OtherClaims \/ OtherLeaves
  BY <1>4, OwnerKeepsOwn
<1>5. CASE UNCHANGED vars
  BY <1>5 DEF vars, screenVars, stationVars, OwnInv
<1> QED
  BY <1>1, <1>2, <1>3, <1>4, <1>5 DEF Next

LEMMA OwnershipShown == IndInv /\ OwnInv => OwnershipReachesView
<1> SUFFICES ASSUME IndInv, OwnInv, Settled PROVE view.owns <=> conn # 0 /\ claim = "owns"
  BY DEF OwnershipReachesView
<1>1. size.viewReady /\ app.ran.state = state
  BY RenderedIs DEF Settled, IndInv, LinkInv
<1>2. size.connected <=> conn # 0
  BY <1>1 DEF IndInv, LinkInv
<1> QED
  BY <1>1, <1>2 DEF OwnInv

\* The document believes it owns the size exactly when the Station says so.
THEOREM OwnershipAgrees == Spec => []OwnershipReachesView
BY InitInd, NextInd, InitOwn, NextOwn, OwnershipShown, PTL DEF Spec

-----------------------------------------------------------------------------
(* What is painted                                                           *)

Among(type, q) == \E i \in DOMAIN q : q[i].type = type

LEMMA AmongAppend ==
  ASSUME NEW S, NEW q \in Seq(S), NEW x \in S, NEW t
  PROVE  Among(t, Append(q, x)) <=> Among(t, q) \/ x.type = t
<1>1. /\ Append(q, x) \in Seq(S) /\ Len(Append(q, x)) = Len(q) + 1
      /\ Append(q, x)[Len(q) + 1] = x
      /\ \A i \in 1 .. Len(q) : Append(q, x)[i] = q[i]
      /\ DOMAIN q = 1 .. Len(q) /\ DOMAIN Append(q, x) = 1 .. Len(q) + 1 /\ Len(q) \in Nat
  OBVIOUS
<1>2. \A i \in 1 .. Len(q) + 1 : i \in 1 .. Len(q) \/ i = Len(q) + 1
  BY <1>1
<1>3. Len(q) + 1 \in 1 .. Len(q) + 1 /\ 1 .. Len(q) \subseteq 1 .. Len(q) + 1
  BY <1>1
<1> QED
  BY <1>1, <1>2, <1>3 DEF Among

LEMMA AmongTail ==
  ASSUME NEW S, NEW q \in Seq(S), q # <<>>, NEW t
  PROVE  Among(t, q) <=> Among(t, Tail(q)) \/ Head(q).type = t
<1>1. /\ Tail(q) \in Seq(S) /\ Len(Tail(q)) = Len(q) - 1 /\ Head(q) = q[1]
      /\ \A i \in 1 .. Len(q) - 1 : Tail(q)[i] = q[i + 1]
      /\ DOMAIN q = 1 .. Len(q) /\ DOMAIN Tail(q) = 1 .. Len(q) - 1 /\ Len(q) \in Nat /\ Len(q) > 0
  OBVIOUS
<1>2. \A i \in 1 .. Len(q) : i = 1 \/ (i - 1 \in 1 .. Len(q) - 1 /\ i = (i - 1) + 1)
  BY <1>1
<1>3. 1 \in 1 .. Len(q) /\ \A i \in 1 .. Len(q) - 1 : i + 1 \in 1 .. Len(q)
  BY <1>1
<1>4. ASSUME Among(t, q) PROVE Among(t, Tail(q)) \/ Head(q).type = t
  <2>1. PICK i \in 1 .. Len(q) : q[i].type = t
    BY <1>1, <1>4 DEF Among
  <2>2. CASE i = 1
    BY <1>1, <2>1, <2>2
  <2>3. CASE i # 1
    <3>1. i - 1 \in 1 .. Len(q) - 1 /\ Tail(q)[i - 1] = q[i]
      BY <1>1, <1>2, <2>3
    <3> QED
      BY <1>1, <2>1, <3>1 DEF Among
  <2> QED
    BY <2>2, <2>3
<1>5. ASSUME Among(t, Tail(q)) PROVE Among(t, q)
  <2>1. PICK i \in 1 .. Len(q) - 1 : Tail(q)[i].type = t
    BY <1>1, <1>5 DEF Among
  <2> QED
    BY <1>1, <1>3, <2>1 DEF Among
<1>6. ASSUME Head(q).type = t PROVE Among(t, q)
  BY <1>1, <1>3, <1>6 DEF Among
<1> QED
  BY <1>4, <1>5, <1>6

LEMMA AmongPost ==
  ASSUME TypeOK, NEW m \in {"ready", "snapshot-applied", "resize"}, Post([type |-> m]), NEW t
  PROVE  Among(t, toApp') <=> Among(t, toApp) \/ m = t
<1>1. toApp \in Seq(Posted) /\ [type |-> m] \in Posted /\ toApp' = Append(toApp, [type |-> m])
  BY DEF TypeOK, Post, Posted
<1> QED
  BY <1>1, AmongAppend

LEMMA AmongSent ==
  ASSUME TypeOK,
         NEW m \in {"session-snapshot-applied", "terminal-size-claim", "terminal-size-release", "resize"},
         up' = Append(up, [type |-> m]), NEW t
  PROVE  Among(t, up') <=> Among(t, up) \/ m = t
<1>1. up \in Seq(Sent) /\ [type |-> m] \in Sent
  BY DEF TypeOK, Sent
<1> QED
  BY <1>1, AmongAppend

\* What is painted comes from a snapshot of the connection, or of the last one.
PaintInv ==
  /\ app.painted \/ Among("snapshot-applied", toApp) => app.ready /\ (conn # 0 => view.term.conn = conn)
  /\ \A i \in DOMAIN view.parses :
       /\ view.parses[i].kind = "snapshot" => app.ready
       /\ conn # 0 => view.parses[i].screen.conn = conn /\ view.parses[i].screen.grid = kept.snapshot.grid
       /\ conn = 0 /\ ~app.ready => app.ran.state = "connected"
  /\ view.overlay = "live" => app.ready /\ IF conn # 0 THEN view.term.conn = conn
                                           ELSE app.ran.state = "connected"
  /\ state = "connecting" => ~size.connected

LEMMA InitPaint == Init => PaintInv
BY DEF Init, ScreenInit, PaintInv, NewSize, NewScreen, Unloaded, Among

\* The picture, and what it depends on, stay.
PaintStands ==
  /\ app'.painted = app.painted /\ app'.ready = app.ready /\ app'.ran.state = app.ran.state
  /\ view'.term.conn = view.term.conn /\ view'.parses = view.parses /\ view'.overlay = view.overlay
  /\ size'.connected = size.connected /\ kept'.snapshot = kept.snapshot
  /\ UNCHANGED <<state, conn>>

LEMMA PaintStays ==
  ASSUME PaintInv, PaintStands, Among("snapshot-applied", toApp') => Among("snapshot-applied", toApp)
  PROVE  PaintInv'
BY DEF PaintInv, PaintStands

\* The document is replaced by one that has shown nothing yet.
LEMMA PaintCleared ==
  ASSUME PaintInv, view' = Unloaded, ~app'.painted, ~Among("snapshot-applied", toApp'),
         state' = state, size'.connected <=> size.connected
  PROVE  PaintInv'
BY DEF PaintInv, Unloaded

LEMMA DocumentKeepsPaint ==
  ASSUME IndInv, PaintInv, DocumentInit \/ FlushOutput \/ Parsed \/ GridTimer \/ Relayout,
         UNCHANGED <<state, kept, app, size, startup, reopened, missed, up, stationVars>>
  PROVE  PaintInv'
<1>1. /\ app'.painted = app.painted /\ app'.ready = app.ready /\ app'.ran.state = app.ran.state
      /\ size'.connected = size.connected /\ kept'.snapshot = kept.snapshot
      /\ UNCHANGED <<state, conn>>
  BY DEF stationVars
<1>2. CASE DocumentInit
  <2>1. view' = [view EXCEPT !.up = TRUE] /\ view \in View /\ Post([type |-> "ready"])
    BY <1>2 DEF DocumentInit, IndInv, TypeOK
  <2>2. view'.term = view.term /\ view'.parses = view.parses /\ view'.overlay = view.overlay
    BY <2>1 DEF View
  <2>3. Among("snapshot-applied", toApp') => Among("snapshot-applied", toApp)
    BY <2>1, AmongPost DEF IndInv
  <2> QED
    BY <1>1, <2>2, <2>3, PaintStays DEF PaintStands
<1>3. CASE FlushOutput
  <2>1. view.term \in Screen /\ view.outQ \in Seq(Nat)
    BY DEF IndInv, TypeOK, View
  <2>2. view'.term.conn = view.term.conn /\ view'.parses = view.parses /\ view'.overlay = view.overlay
        /\ toApp' = toApp
    BY <1>3, <2>1, FlushIs, WrittenType DEF IndInv
  <2> QED
    BY <1>1, <2>2, PaintStays DEF PaintStands
<1>4. CASE Parsed
  <2> DEFINE parse == view.parses[1]
  <2>1. /\ 1 \in DOMAIN view.parses
        /\ view'.overlay = view.overlay /\ view'.parses = Tail(view.parses)
        /\ view'.term = parse.screen
        /\ IF parse.kind = "snapshot" THEN Post([type |-> "snapshot-applied"]) ELSE toApp' = toApp
    BY <1>4, ParsedIs DEF IndInv
  <2>2. /\ parse.kind = "snapshot" => app.ready
        /\ conn # 0 => parse.screen.conn = conn
    BY <2>1 DEF PaintInv
  <2>3. Among("snapshot-applied", toApp') => Among("snapshot-applied", toApp) \/ app.ready
    BY <2>1, <2>2, AmongPost DEF IndInv
  <2>4. \A i \in DOMAIN view'.parses : i + 1 \in DOMAIN view.parses /\ view'.parses[i] = view.parses[i + 1]
    <3>1. view.parses \in Seq(Parse) /\ view.parses # <<>>
      BY <1>4 DEF IndInv, TypeOK, View, Parsed
    <3> QED
      BY <2>1, <3>1
  <2> HIDE DEF parse
  <2> QED
    BY <1>1, <2>1, <2>2, <2>3, <2>4 DEF PaintInv
<1>5. CASE GridTimer
  <2>1. /\ view'.term.conn = view.term.conn /\ view'.parses = view.parses /\ view'.overlay = view.overlay
        /\ toApp' = toApp \/ Post([type |-> "resize"])
    BY <1>5, GridTimerIs DEF IndInv, SamePicture, SameTerm
  <2>2. Among("snapshot-applied", toApp') => Among("snapshot-applied", toApp)
    BY <2>1, AmongPost DEF IndInv
  <2> QED
    BY <1>1, <2>1, <2>2, PaintStays DEF PaintStands
<1>6. CASE Relayout
  <2>1. /\ view'.term.conn = view.term.conn /\ view'.parses = view.parses /\ view'.overlay = view.overlay
        /\ toApp' = toApp
    BY <1>6, RelayoutIs DEF IndInv, SamePicture, SameTerm
  <2> QED
    BY <1>1, <2>1, PaintStays DEF PaintStands
<1> QED
  BY <1>2, <1>3, <1>4, <1>5, <1>6

\* A single hidden terminal.
LEMMA OneParse ==
  ASSUME NEW w, NEW kind, NEW scr, Parses(w, kind, scr), NEW i \in DOMAIN w.parses
  PROVE  w.parses[i].kind = kind /\ w.parses[i].screen = scr
BY DEF Parses

\* A terminal is parsed only in a document whose script has run.
LEMMA ParsesMeanUp ==
  ASSUME IndInv, NEW i \in DOMAIN view.parses
  PROVE  view.up
BY DEF IndInv, LinkInv, Unloaded

LEMMA RunEffectsKeepsPaint ==
  ASSUME IndInv, PaintInv, RunEffects, UNCHANGED stationVars
  PROVE  PaintInv'
<1>1. /\ (app'.painted => app.painted)
      /\ app'.ready = app.ready /\ app'.ran.state = state
  <2>1. \/ app' = [app EXCEPT !.pending = kept.snapshot, !.live = <<>>, !.awaiting = TRUE, !.painted = FALSE,
                              !.ran = Now]
        \/ app' = [app EXCEPT !.ran = Now]
    BY DEF RunEffects
  <2>2. app \in App /\ Now.state = state
    BY DEF IndInv, TypeOK, Now
  <2> QED
    BY <2>1, <2>2 DEF App
<1>2. size'.connected <=> state = "connected"
  BY DEF RunEffects, SetConnected, IndInv, TypeOK, Size
<1>3. UNCHANGED <<toApp, state, kept, conn>>
  BY DEF RunEffects, stationVars
<1>4. view'.term.conn = view.term.conn
  BY RunEffectsIs DEF SameTerm
<1>5. state = "connected" <=> conn # 0
  BY DEF IndInv, LinkInv
<1>6. ASSUME NEW i \in DOMAIN view'.parses
      PROVE  /\ view'.parses[i].kind = "snapshot" => app.ready
             /\ conn # 0 => view'.parses[i].screen.conn = conn /\ view'.parses[i].screen.grid = kept.snapshot.grid
             /\ ~(conn = 0 /\ ~app.ready)
  <2>1. CASE view.up /\ Changed /\ state = "reconnecting"
    <3>1. view'.parses = <<>>
      BY <2>1, RunEffectsIs
    <3> QED
      BY <1>6, <3>1
  <2>2. CASE ~(view.up /\ Changed /\ state = "reconnecting") /\ Renewed
    <3>1. Parses(view', "snapshot", ScreenOf(kept.snapshot))
      BY <2>2, RunEffectsIs
    <3>2. app.ready /\ kept.snapshot \in Snapshot
      BY <2>2, AppIs DEF Renewed, IndInv
    <3>3. view'.parses[i].screen = ScreenOf(kept.snapshot)
      BY <3>1, <1>6, OneParse
    <3> QED
      BY <3>2, <3>3, ScreenOfType DEF IndInv, LinkInv
  <2>3. CASE ~(view.up /\ Changed /\ state = "reconnecting") /\ ~Renewed
    <3>1. view'.parses = view.parses
      BY <2>3, RunEffectsIs DEF SamePicture
    <3>2. view.up
      BY <1>6, <3>1, ParsesMeanUp
    <3>3. ASSUME conn = 0, ~app.ready PROVE FALSE
      <4>1. app.ran.state = "connected"
        BY <1>6, <3>1, <3>3 DEF PaintInv
      <4>2. state # "connecting"
        BY <4>1 DEF PaintInv, IndInv, LinkInv
      <4>3. state = "reconnecting"
        BY <1>5, <3>3, <4>2 DEF IndInv, TypeOK, ConnectionState
      <4> QED
        BY <2>3, <3>2, <4>1, <4>3 DEF Changed
    <3> QED
      BY <1>6, <3>1, <3>3 DEF PaintInv
  <2> QED
    BY <2>1, <2>2, <2>3
<1>7. ASSUME view'.overlay = "live"
      PROVE  app.ready /\ conn # 0 /\ view'.term.conn = conn
  <2>1. CASE state = "connected" /\ app.painted
    BY <1>4, <1>5, <2>1 DEF PaintInv
  <2>2. CASE view.overlay = "live" /\ (view.up /\ Changed => state = "connected")
    <3>1. app.ready /\ view.up
      BY <2>2 DEF PaintInv, IndInv, LinkInv
    <3>2. CASE conn = 0
      BY <1>5, <2>2, <3>1, <3>2 DEF PaintInv, Changed
    <3>3. CASE conn # 0
      BY <1>4, <2>2, <3>1, <3>3 DEF PaintInv
    <3> QED
      BY <3>2, <3>3
  <2> QED
    BY <1>7, <2>1, <2>2, RunEffectsIs
<1> QED
  BY <1>1, <1>2, <1>3, <1>4, <1>6, <1>7 DEF PaintInv

LEMMA StartupKeepsPaint ==
  ASSUME IndInv, PaintInv, PageLoaded \/ Probe \/ StartupTimeout \/ RetryRenderer, UNCHANGED stationVars
  PROVE  PaintInv'
<1>1. CASE RetryRenderer
  <2>1. view' = Unloaded /\ startup.at = "failed" /\ UNCHANGED <<toApp, state, app, size>>
    BY <1>1 DEF RetryRenderer
  <2>2. ~app.ready
    BY <2>1 DEF IndInv, LinkInv
  <2>3. ~app'.painted /\ ~Among("snapshot-applied", toApp')
    BY <2>1, <2>2 DEF PaintInv
  <2> QED
    BY <2>1, <2>3, PaintCleared
<1>2. CASE PageLoaded \/ Probe \/ StartupTimeout
  <2>1. UNCHANGED <<view, app, size, kept, state, conn>> /\ (toApp' = toApp \/ Post([type |-> "ready"]))
    BY <1>2 DEF PageLoaded, Probe, StartupTimeout, stationVars
  <2>2. Among("snapshot-applied", toApp') => Among("snapshot-applied", toApp)
    BY <2>1, AmongPost DEF IndInv
  <2> QED
    BY <2>1, <2>2, PaintStays DEF PaintStands
<1> QED
  BY <1>1, <1>2

\* A message of the document is taken.
LEMMA AmongTaken ==
  ASSUME IndInv, HandleMessage, NEW t
  PROVE  Among(t, toApp) <=> Among(t, toApp') \/ Head(toApp).type = t
BY AmongTail DEF IndInv, TypeOK, HandleMessage

LEMMA MessageKeepsPaint ==
  ASSUME IndInv, PaintInv, HandleMessage, UNCHANGED stationVars
  PROVE  PaintInv'
<1>1. conn' = conn /\ state' = state
  BY DEF HandleMessage, stationVars
<1>2. Among("snapshot-applied", toApp') => Among("snapshot-applied", toApp)
  BY AmongTaken
<1>3. CASE RendererReady /\ Starts /\ UNCHANGED <<kept, up>>
  <2>1. /\ view'.term.conn = view.term.conn /\ view'.overlay # "live"
        /\ app' = [app EXCEPT !.ready = TRUE] /\ size' = [size EXCEPT !.viewReady = TRUE]
    BY <1>3, RendererReadyIs DEF SameTerm, RendererReady, Starts
  <2>2. app'.ready /\ app'.painted = app.painted /\ size'.connected = size.connected
    BY <2>1 DEF IndInv, TypeOK, App, Size
  <2>3. ~app.ready
    BY <1>3 DEF Starts, IndInv, LinkInv
  <2>4. ~app.painted /\ ~Among("snapshot-applied", toApp')
    BY <1>2, <2>3 DEF PaintInv
  <2>5. ASSUME NEW i \in DOMAIN view'.parses, conn # 0
        PROVE  view'.parses[i].screen.conn = conn /\ view'.parses[i].screen.grid = kept.snapshot.grid
    <3>1. app.pending = kept.snapshot /\ kept.snapshot # None /\ kept.snapshot.conn = conn
      BY <2>5 DEF IndInv, LinkInv
    <3>2. Parses(view', "snapshot", ScreenOf(kept.snapshot))
      BY <1>3, <3>1, RendererReadyIs
    <3>3. view'.parses[i].screen = ScreenOf(kept.snapshot)
      BY <2>5, <3>2, OneParse
    <3>4. kept.snapshot \in Snapshot
      BY <3>1, AppIs DEF IndInv
    <3> QED
      BY <3>1, <3>3, <3>4, ScreenOfType
  <2> QED
    BY <1>1, <1>3, <2>1, <2>2, <2>4, <2>5 DEF PaintInv
<1>4. CASE RendererReady /\ ~Starts /\ UNCHANGED <<kept, up>>
  <2>1. UNCHANGED <<view, app, size, kept, state, conn>>
    BY <1>1, <1>4 DEF RendererReady, Starts
  <2> QED
    BY <1>2, <2>1, PaintStays DEF PaintStands
<1>5. CASE Head(toApp).type = "snapshot-applied" /\ SnapshotApplied /\ UNCHANGED <<view, size, startup, missed>>
  <2>1. app.ready /\ (conn # 0 => view.term.conn = conn)
    BY <1>5, AmongTaken DEF PaintInv
  <2>2. app' = [app EXCEPT !.painted = TRUE] /\ (kept' = kept \/ kept' = [kept EXCEPT !.acked = TRUE])
    BY <1>5 DEF SnapshotApplied
  <2>3. app'.ready = app.ready /\ app'.ran = app.ran /\ kept'.snapshot = kept.snapshot
    BY <2>2 DEF IndInv, TypeOK, App, Kept
  <2> QED
    BY <1>1, <1>5, <2>1, <2>3 DEF PaintInv
<1>6. CASE ProposeGrid /\ UNCHANGED <<view, kept, app, size, startup, missed>>
  BY <1>1, <1>2, <1>6, PaintStays DEF PaintStands
<1> QED
  BY <1>3, <1>4, <1>5, <1>6 DEF HandleMessage

LEMMA RemountKeepsPaint ==
  ASSUME IndInv, PaintInv, Remount, UNCHANGED stationVars
  PROVE  PaintInv'
<1>1. /\ view' = Unloaded /\ toApp' = <<>> /\ state' = state
      /\ app' = [NewScreen(kept.snapshot) EXCEPT !.ran = [NotSeen EXCEPT !.state = state]]
      /\ size' = [NewSize EXCEPT !.connected = state = "connected", !.owned = state = "connected" /\ kept.owner]
  BY DEF Remount
<1>2. ~app'.painted
  BY <1>1 DEF NewScreen
<1>3. size'.connected <=> state = "connected"
  BY <1>1 DEF NewSize
<1>4. size.connected <=> state = "connected"
  BY RenderedIs DEF Remount, IndInv, LinkInv
<1>5. ~Among("snapshot-applied", toApp')
  BY <1>1 DEF Among
<1> QED
  BY <1>1, <1>2, <1>3, <1>4, <1>5, PaintCleared

LEMMA ConnectedKeepsPaint ==
  ASSUME IndInv, PaintInv, Connected
  PROVE  PaintInv'
<1>1. /\ conn = 0 /\ toApp' = <<>> /\ state' = "connected" /\ conn' = opened + 1
      /\ app' = [app EXCEPT !.pending = NewSnapshot, !.live = <<>>, !.awaiting = TRUE, !.painted = FALSE]
      /\ kept' = Published(NewSnapshot)
  BY DEF Connected, OnSnapshot, NewSnapshot
<1>2. app.ran.state # "connected"
  BY <1>1, RenderedIs DEF Connected, IndInv, LinkInv
<1>3. view'.overlay # "live"
  BY <1>1, <1>2, ConnectedIs DEF PaintInv
<1>4. ~app'.painted /\ app'.ready = app.ready
  BY <1>1 DEF IndInv, TypeOK, App
<1>5. ~Among("snapshot-applied", toApp')
  BY <1>1 DEF Among
<1>6. NewSnapshot \in Snapshot /\ NewSnapshot.conn = conn' /\ kept'.snapshot = NewSnapshot
  BY <1>1, ConnectedIs DEF NewSnapshot, Published, IndInv, TypeOK, Kept
<1>7. ASSUME NEW i \in DOMAIN view'.parses
      PROVE  /\ app.ready
             /\ view'.parses[i].screen.conn = conn' /\ view'.parses[i].screen.grid = kept'.snapshot.grid
  <2>1. CASE app.ready
    <3>1. Parses(view', "snapshot", ScreenOf(NewSnapshot))
      BY <2>1, ConnectedIs
    <3>2. view'.parses[i].screen = ScreenOf(NewSnapshot)
      BY <1>7, <3>1, OneParse
    <3> QED
      BY <1>6, <2>1, <3>2, ScreenOfType
  <2>2. CASE ~app.ready
    <3>1. view'.parses = view.parses
      BY <2>2, ConnectedIs DEF SamePicture
    <3> QED
      BY <1>1, <1>2, <1>7, <2>2, <3>1 DEF PaintInv
  <2> QED
    BY <2>1, <2>2
<1>8. conn' # 0
  BY <1>1 DEF IndInv, TypeOK
<1> QED
  BY <1>1, <1>3, <1>4, <1>5, <1>7, <1>8 DEF PaintInv

LEMMA LostKeepsPaint ==
  ASSUME IndInv, PaintInv, Lost
  PROVE  PaintInv'
<1>1. conn # 0 /\ conn' = 0 /\ state' = "reconnecting" /\ UNCHANGED <<view, toApp, app, size, kept>>
  BY DEF Lost
<1>2. app.ran.state = "connected"
  BY <1>1, RenderedIs DEF Lost, IndInv, LinkInv
<1> QED
  BY <1>1, <1>2 DEF PaintInv

\* One more output frame, the size aside.
OneMoreOutput ==
  /\ made' = made + 1 /\ made \in Nat
  /\ UNCHANGED <<toApp, state, startup, missed, conn, opened>>
  /\ size'.connected = size.connected
  /\ up' = up \/ (up # <<>> /\ Head(up).type # "session-snapshot-applied" /\ up' = Tail(up))
  /\ SameTerm(view', view) /\ view'.parses = view.parses /\ view'.inFlight = view.inFlight
  /\ view'.overlay = view.overlay
  /\ app'.ready = app.ready /\ app'.ran = app.ran /\ app'.awaiting = app.awaiting
  /\ app'.painted = app.painted
  /\ kept'.snapshot = kept.snapshot /\ kept'.acked = kept.acked
  /\ conn # 0 =>
       /\ kept'.last = made + 1
       /\ app.awaiting => app'.live = Append(app.live, made + 1)
       /\ view.up => view'.outQ = Append(view.outQ, made + 1)
       /\ ~view.up => view' = view

LEMMA OutputIs ==
  ASSUME IndInv, Output
  PROVE  OneMoreOutput
<1>1. made \in Nat /\ made' = made + 1 /\ UNCHANGED <<toApp, state, size, startup, missed, up, conn, opened>>
  BY DEF Output, IndInv, TypeOK
<1>2. CASE conn = 0 /\ UNCHANGED <<view, app, kept>>
  BY <1>1, <1>2 DEF OneMoreOutput, SameTerm
<1>3. CASE OnOutput(made + 1)
  BY <1>1, <1>3, OnOutputIs, RefusalKept DEF OneMoreOutput, OutputShown
<1> QED
  BY <1>2, <1>3 DEF Output

LEMMA OutputKeepsPaint ==
  ASSUME PaintInv, OneMoreOutput
  PROVE  PaintInv'
BY PaintStays DEF OneMoreOutput, PaintStands, SameTerm

\* What the Station does about the size changes no picture, but for the output
\* frame of an error message.
SizeSteps ==
  \/ LeaseExpires \/ OtherClaims \/ OtherLeaves
  \/ StationHandles /\ Head(up).type # "session-snapshot-applied"

QuietSize ==
  /\ SamePicture(view', view) /\ view'.overlay = view.overlay
  /\ app' = app /\ size'.connected = size.connected /\ kept'.snapshot = kept.snapshot
  /\ kept'.acked = kept.acked /\ kept'.last = kept.last
  /\ UNCHANGED <<toApp, state, startup, missed, conn, opened, made>>
  /\ up' = up \/ (up # <<>> /\ Head(up).type # "session-snapshot-applied" /\ up' = Tail(up))

LEMMA SizeStepIs ==
  ASSUME IndInv, SizeSteps
  PROVE  QuietSize \/ OneMoreOutput
<1>1. /\ UNCHANGED <<toApp, state, startup, missed, conn, opened>>
      /\ up' = up \/ (up # <<>> /\ Head(up).type # "session-snapshot-applied" /\ up' = Tail(up))
  BY DEF SizeSteps, StationHandles, LeaseExpires, OtherClaims, OtherLeaves
<1>2. PICK owned \in BOOLEAN, newGrid \in Grid : SizeChange(owned, newGrid)
  <2>1. CASE LeaseExpires \/ OtherClaims \/ OtherLeaves
    BY <2>1, OwnerSize
  <2>2. CASE StationHandles /\ Head(up).type # "session-snapshot-applied"
    BY <2>2, HandlesSize DEF StationHandles
  <2> QED
    BY <2>1, <2>2 DEF SizeSteps
<1>3. CASE Announce(owned, newGrid) /\ UNCHANGED <<app, made>>
  <2>1. /\ SamePicture(view', view) /\ view'.overlay = view.overlay
        /\ kept' = [kept EXCEPT !.owner = owned] /\ size' = [size EXCEPT !.owned = Owns(owned)]
    BY <1>3, AnnounceIs
  <2>2. /\ size'.connected = size.connected /\ kept'.snapshot = kept.snapshot
        /\ kept'.acked = kept.acked /\ kept'.last = kept.last
    BY <2>1 DEF IndInv, TypeOK, Kept, Size
  <2> QED
    BY <1>1, <1>3, <2>1, <2>2 DEF QuietSize
<1>4. CASE view' = OnResize(view, newGrid) /\ UNCHANGED <<kept, app, size, made>>
  <2>1. SamePicture(view', view) /\ view'.overlay = view.overlay
    BY <1>4, ResizeIs DEF IndInv, TypeOK
  <2> QED
    BY <1>1, <1>4, <2>1 DEF QuietSize
<1>5. CASE UNCHANGED <<view, kept, app, size, made>>
  BY <1>1, <1>5 DEF QuietSize, SamePicture, SameTerm
<1>6. made \in Nat
  BY DEF IndInv, TypeOK
<1>7. CASE RestoreFails
  <2>1. OutputShown /\ made' = made + 1 /\ size' = [size EXCEPT !.owned = FALSE]
    BY <1>7, RestoreFailsIs
  <2>2. size'.connected = size.connected
    BY <2>1 DEF IndInv, TypeOK, Size
  <2> QED
    BY <1>1, <1>6, <1>7, <2>1, <2>2, RestoreFailsKept DEF OneMoreOutput, OutputShown
<1>8. CASE Refusal
  <2>1. made' = made + 1 /\ OnOutput(made + 1) /\ size' = size
    BY <1>8 DEF Refusal
  <2> QED
    BY <1>1, <1>6, <2>1, OnOutputIs, RefusalKept DEF OneMoreOutput, OutputShown
<1> QED
  BY <1>2, <1>3, <1>4, <1>5, <1>7, <1>8 DEF SizeChange

LEMMA SizeKeepsPaint ==
  ASSUME IndInv, PaintInv, SizeSteps
  PROVE  PaintInv'
<1>1. CASE QuietSize
  BY <1>1, PaintStays DEF QuietSize, PaintStands, SamePicture, SameTerm
<1>2. CASE OneMoreOutput
  BY <1>2, OutputKeepsPaint
<1> QED
  BY <1>1, <1>2, SizeStepIs

LEMMA AppliedKeepsPaint ==
  ASSUME IndInv, PaintInv, StationHandles, HandleApplied
  PROVE  PaintInv'
<1>1. conn # 0 /\ UNCHANGED <<kept, size, state, toApp, conn>>
  BY DEF StationHandles, HandleApplied, IndInv, LinkInv
<1> DEFINE scr == Written(ScreenOf(kept.snapshot), app.live)
<1>2. /\ scr.conn = conn /\ scr.grid = kept.snapshot.grid
      /\ app' = [app EXCEPT !.live = <<>>, !.awaiting = FALSE]
      /\ SameTerm(view', view) /\ view'.overlay = view.overlay
      /\ ~view.up => view' = view
      /\ view.up => Parses(view', "history", scr)
  BY <1>1, ScrollbackIs DEF HandleApplied
<1> HIDE DEF scr
<1>3. app'.painted = app.painted /\ app'.ready = app.ready /\ app'.ran = app.ran
  BY <1>2 DEF IndInv, TypeOK, App
<1>4. CASE view.up
  <2>1. \A i \in DOMAIN view'.parses : view'.parses[i].kind = "history" /\ view'.parses[i].screen = scr
    BY <1>2, <1>4, OneParse
  <2> QED
    BY <1>1, <1>2, <1>3, <2>1 DEF PaintInv, SameTerm
<1>5. CASE ~view.up
  BY <1>1, <1>2, <1>3, <1>5, PaintStays DEF PaintStands
<1> QED
  BY <1>4, <1>5 DEF IndInv, TypeOK, View

LEMMA NextPaint == IndInv /\ PaintInv /\ [Next]_vars => PaintInv'
<1> SUFFICES ASSUME IndInv, PaintInv, [Next]_vars PROVE PaintInv'
  OBVIOUS
<1>1. CASE (Document \/ Relayout) /\ UNCHANGED <<state, kept, app, size, startup, reopened, missed, up, stationVars>>
  BY <1>1, DocumentKeepsPaint DEF Document
<1>2. CASE (RunEffects \/ PageLoaded \/ Probe \/ StartupTimeout \/ RetryRenderer \/ HandleMessage \/ Remount)
           /\ UNCHANGED stationVars
  BY <1>2, RunEffectsKeepsPaint, StartupKeepsPaint, MessageKeepsPaint, RemountKeepsPaint
<1>3. CASE Connected \/ Lost \/ Output
  BY <1>3, ConnectedKeepsPaint, LostKeepsPaint, OutputIs, OutputKeepsPaint
<1>4. CASE StationHandles /\ HandleApplied
  BY <1>4, AppliedKeepsPaint
<1>5. CASE SizeSteps
  BY <1>5, SizeKeepsPaint
<1>6. CASE UNCHANGED vars
  BY <1>6 DEF vars, screenVars, stationVars, PaintInv
<1> QED
  BY <1>1, <1>2, <1>3, <1>4, <1>5, <1>6 DEF Next, StationHandles, SizeSteps

\* The overlay lifts only from a terminal built from this connection's snapshot.
THEOREM LivePainted == Spec => []LiveMeansPainted
<1>1. IndInv /\ PaintInv => LiveMeansPainted
  BY DEF PaintInv, LiveMeansPainted
<1> QED
  BY <1>1, InitInd, NextInd, InitPaint, NextPaint, PTL DEF Spec

-----------------------------------------------------------------------------
(* The phone's grid reaches the Session                                      *)

\* The Session has the phone's grid, or a proposal of it is on its way.
OnItsWay == grid = PhoneGrid \/ Among("resize", toApp) \/ Among("resize", up)

\* A grid counts as sent only if it is, and a phone that owns the size has
\* proposed its grid or will, unless the Session has refused it.
GridInv ==
  /\ view.timer => view.owns
  /\ conn # 0 /\ kept.snapshot.grid # PhoneGrid =>
       /\ ~view.owns /\ view.sent = PhoneGrid => ~app.ready /\ grid = PhoneGrid
       /\ view.owns => view.timer \/ OnItsWay \/ refused
       /\ view.owns /\ view.sent = PhoneGrid => OnItsWay \/ refused

LEMMA InitGrid == Init => GridInv
BY DEF Init, ScreenInit, GridInv, Unloaded

\* The proposer stays, and what is on its way still is.
LEMMA GridStays ==
  ASSUME GridInv, SameProposer(view', view), app'.ready <=> app.ready, kept'.snapshot = kept.snapshot,
         OnItsWay => OnItsWay', conn' = conn, grid' = grid, refused' = refused
  PROVE  GridInv'
BY DEF GridInv, SameProposer

\* Neither an owner nor a proposal.
LEMMA GridCleared ==
  ASSUME ~view'.owns, ~view'.timer, view'.sent # PhoneGrid
  PROVE  GridInv'
BY DEF GridInv

LEMMA NoneIsNoGrid == None # PhoneGrid /\ None # StationGrid
BY DEF Grid

LEMMA PostKeepsWay ==
  ASSUME TypeOK, NEW m \in {"ready", "snapshot-applied", "resize"}, Post([type |-> m]), up' = up, grid' = grid
  PROVE  (OnItsWay => OnItsWay') /\ (m = "resize" => OnItsWay')
BY AmongPost DEF OnItsWay

LEMMA DocumentKeepsGrid ==
  ASSUME IndInv, PaintInv, GridInv, DocumentInit \/ FlushOutput \/ Parsed \/ GridTimer \/ Relayout,
         UNCHANGED <<state, kept, app, size, startup, reopened, missed, up, stationVars>>
  PROVE  GridInv'
<1>1. UNCHANGED <<kept, app, up, conn, grid, refused>>
  BY DEF stationVars
<1>2. CASE DocumentInit
  <2>1. SameProposer(view', view) /\ (OnItsWay => OnItsWay')
    BY <1>1, <1>2, DocumentInitIs, PostKeepsWay DEF IndInv
  <2> QED
    BY <1>1, <2>1, GridStays
<1>3. CASE FlushOutput
  <2>1. SameProposer(view', view) /\ toApp' = toApp
    BY <1>3, FlushIs DEF IndInv
  <2> QED
    BY <1>1, <2>1, GridStays DEF OnItsWay
<1>4. CASE Parsed
  <2> DEFINE parse == view.parses[1]
  <2>1. /\ 1 \in DOMAIN view.parses
        /\ view'.owns = view.owns /\ view'.timer = view.timer /\ view'.sent = parse.screen.grid
        /\ Post([type |-> "snapshot-applied"]) \/ toApp' = toApp
    BY <1>4, ParsedIs DEF IndInv
  <2>2. conn # 0 => parse.screen.grid = kept.snapshot.grid
    BY <2>1 DEF PaintInv
  <2>3. OnItsWay => OnItsWay'
    BY <1>1, <2>1, PostKeepsWay DEF OnItsWay, IndInv
  <2> HIDE DEF parse
  <2> QED
    BY <1>1, <2>1, <2>2, <2>3 DEF GridInv
<1>5. CASE GridTimer
  <2>1. /\ view.timer /\ ~view'.timer /\ view'.owns = view.owns /\ view'.sent = PhoneGrid
        /\ IF view.sent = PhoneGrid THEN toApp' = toApp ELSE Post([type |-> "resize"])
    BY <1>5, GridTimerIs DEF IndInv
  <2>2. CASE view.sent = PhoneGrid
    BY <1>1, <2>1, <2>2 DEF GridInv, OnItsWay
  <2>3. CASE view.sent # PhoneGrid
    <3>1. OnItsWay'
      BY <1>1, <2>1, <2>3, PostKeepsWay DEF IndInv
    <3> QED
      BY <1>1, <2>1, <2>3, <3>1 DEF GridInv
  <2> QED
    BY <2>2, <2>3
<1>6. CASE Relayout
  <2>1. /\ view.owns /\ view'.owns = view.owns /\ view'.sent = view.sent /\ toApp' = toApp
        /\ view'.timer <=> view.timer \/ view.sent # PhoneGrid
    BY <1>6, RelayoutIs DEF IndInv
  <2>2. OnItsWay' <=> OnItsWay
    BY <1>1, <2>1 DEF OnItsWay
  <2> QED
    BY <1>1, <2>1, <2>2 DEF GridInv
<1> QED
  BY <1>2, <1>3, <1>4, <1>5, <1>6

LEMMA RunEffectsKeepsGrid ==
  ASSUME IndInv, OwnInv, GridInv, RunEffects, UNCHANGED stationVars
  PROVE  GridInv'
<1>1. UNCHANGED <<kept, toApp, conn, grid, refused>>
  BY DEF RunEffects, stationVars
<1>2. OnItsWay => OnItsWay'
  <2>1. up' = up \/ up' = Append(up, [type |-> "terminal-size-claim"])
    BY DEF RunEffects, SetConnected
  <2> QED
    BY <1>1, <2>1, AmongSent DEF OnItsWay, IndInv
<1>3. app'.ready = app.ready
  BY DEF RunEffects, IndInv, TypeOK, App
<1>4. CASE state # "connected" /\ size.connected /\ app.ready
  BY <1>4, RunEffectsIs, NoneIsNoGrid, GridCleared
<1>5. CASE ~(state # "connected" /\ size.connected /\ app.ready)
  BY <1>1, <1>2, <1>3, <1>5, RunEffectsIs, GridStays
<1> QED
  BY <1>4, <1>5

LEMMA UnloadedKeepsGrid ==
  ASSUME view' = Unloaded
  PROVE  GridInv'
BY NoneIsNoGrid, GridCleared DEF Unloaded

LEMMA StartupKeepsGrid ==
  ASSUME IndInv, GridInv, PageLoaded \/ Probe \/ StartupTimeout \/ RetryRenderer, UNCHANGED stationVars
  PROVE  GridInv'
<1>1. CASE RetryRenderer
  BY <1>1, UnloadedKeepsGrid DEF RetryRenderer
<1>2. CASE PageLoaded \/ Probe \/ StartupTimeout
  <2>1. UNCHANGED <<view, app, kept, up, conn, grid, refused>> /\ (toApp' = toApp \/ Post([type |-> "ready"]))
    BY <1>2 DEF PageLoaded, Probe, StartupTimeout, stationVars
  <2>2. OnItsWay => OnItsWay'
    BY <2>1, PostKeepsWay DEF OnItsWay, IndInv
  <2> QED
    BY <2>1, <2>2, GridStays DEF SameProposer
<1> QED
  BY <1>1, <1>2

LEMMA MessageKeepsGrid ==
  ASSUME IndInv, OwnInv, GridInv, HandleMessage, UNCHANGED stationVars
  PROVE  GridInv'
<1>1. conn' = conn /\ grid' = grid /\ refused' = refused
  BY DEF stationVars
<1>2. Head(toApp).type # "resize" /\ up' = up => (OnItsWay => OnItsWay')
  BY <1>1, AmongTaken DEF OnItsWay
<1>3. CASE Head(toApp).type = "ready" /\ RendererReady /\ Starts /\ UNCHANGED <<kept, up>>
  <2> DEFINE o == Owns(size.owned)
  <2>1. ~app.ready /\ ~view.owns
    BY <1>3 DEF Starts, IndInv, LinkInv, OwnInv
  <2>2. o \in BOOLEAN /\ view'.owns = o /\ (~o => ~view'.timer)
    BY <1>3, RendererReadyIs DEF Proposer
  <2>3. CASE conn = 0
    <3> HIDE DEF o
    <3> QED
      BY <1>1, <2>2, <2>3 DEF GridInv
  <2>4. CASE conn # 0
    <3>1. app.pending # None
      BY <2>4 DEF IndInv, LinkInv
    <3>2. Proposer(view', o, view)
      BY <1>3, <3>1, RendererReadyIs
    <3> HIDE DEF o
    <3>3. CASE ~o
      BY <3>2, <3>3, NoneIsNoGrid, GridCleared DEF Proposer
    <3>4. CASE o
      <4>1. view'.owns /\ view'.sent = view.sent /\ (view'.timer <=> view.timer \/ view.sent # PhoneGrid)
        BY <3>2, <3>4 DEF Proposer
      <4>2. kept.snapshot.grid # PhoneGrid /\ view.sent = PhoneGrid => OnItsWay'
        BY <1>1, <2>1, <2>4 DEF GridInv, OnItsWay
      <4> QED
        BY <1>1, <1>3, <2>4, <4>1, <4>2 DEF GridInv
    <3> QED
      BY <2>2, <3>3, <3>4
  <2> QED
    BY <2>3, <2>4
<1>4. CASE Head(toApp).type = "ready" /\ RendererReady /\ ~Starts /\ UNCHANGED <<kept, up>>
  <2>1. UNCHANGED <<view, app, kept, up>>
    BY <1>4 DEF RendererReady, Starts
  <2> QED
    BY <1>1, <1>2, <1>4, <2>1, GridStays DEF SameProposer
<1>5. CASE Head(toApp).type = "snapshot-applied" /\ SnapshotApplied /\ UNCHANGED <<view, size, startup, missed>>
  <2>1. /\ app' = [app EXCEPT !.painted = TRUE] /\ (kept' = kept \/ kept' = [kept EXCEPT !.acked = TRUE])
        /\ up' = up \/ up' = Append(up, [type |-> "session-snapshot-applied"])
    BY <1>5 DEF SnapshotApplied
  <2>2. app'.ready = app.ready /\ kept'.snapshot = kept.snapshot
    BY <2>1 DEF IndInv, TypeOK, App, Kept
  <2>3. Among("resize", up) => Among("resize", up')
    BY <2>1, AmongSent DEF IndInv
  <2>4. OnItsWay => OnItsWay'
    BY <1>1, <1>5, <2>3, AmongTaken DEF OnItsWay
  <2> QED
    BY <1>1, <1>5, <2>2, <2>4, GridStays DEF SameProposer
<1>6. CASE ProposeGrid /\ UNCHANGED <<view, kept, app, size, startup, missed>>
  <2>1. CASE view.owns
    <3>1. size.owned /\ size.connected
      BY <2>1 DEF OwnInv
    <3>2. up' = Append(up, [type |-> "resize"])
      BY <1>6, <3>1 DEF ProposeGrid
    <3>3. OnItsWay'
      BY <3>2, AmongSent DEF OnItsWay, IndInv
    <3> QED
      BY <1>1, <1>6, <2>1, <3>3 DEF GridInv
  <2>2. CASE ~view.owns
    BY <1>1, <1>6, <2>2 DEF GridInv
  <2> QED
    BY <2>1, <2>2
<1> QED
  BY <1>3, <1>4, <1>5, <1>6 DEF HandleMessage

LEMMA ConnectedKeepsGrid ==
  ASSUME IndInv, OwnInv, GridInv, Connected
  PROVE  GridInv'
<1>1. CASE app.ready
  BY <1>1, ConnectedIs, NoneIsNoGrid, GridCleared
<1>2. CASE ~app.ready
  <2>1. /\ ~view.owns /\ view'.owns = view.owns /\ view'.timer = view.timer
        /\ view'.sent = IF view.up THEN grid ELSE view.sent
    BY <1>2, ConnectedIs DEF OwnInv, IndInv, LinkInv
  <2>2. kept'.snapshot.grid = grid
    BY ConnectedIs DEF Published, NewSnapshot, IndInv, TypeOK, Kept
  <2>3. ~view.up => view.sent # PhoneGrid
    BY NoneIsNoGrid DEF IndInv, LinkInv, Unloaded
  <2> QED
    BY <2>1, <2>2, <2>3 DEF GridInv
<1> QED
  BY <1>1, <1>2

LEMMA LostKeepsGrid ==
  ASSUME GridInv, Lost
  PROVE  GridInv'
BY DEF Lost, GridInv

LEMMA OutputKeepsGrid ==
  ASSUME IndInv, GridInv, Output
  PROVE  GridInv'
<1>1. SameProposer(view', view) /\ app'.ready = app.ready /\ kept'.snapshot = kept.snapshot
  <2>1. CASE UNCHANGED <<view, app, kept>>
    BY <2>1 DEF SameProposer
  <2>2. CASE OnOutput(made + 1)
    BY <2>2, OnOutputIs, RefusalKept DEF OutputShown
  <2> QED
    BY <2>1, <2>2 DEF Output
<1>2. UNCHANGED <<toApp, up, conn, grid, refused>>
  BY DEF Output
<1>3. OnItsWay' <=> OnItsWay
  BY <1>2 DEF OnItsWay
<1> QED
  BY <1>1, <1>2, <1>3, GridStays

\* The phone comes to own the size, and proposes its grid unless it has; or it no
\* longer does, and forgets what it has proposed.
LEMMA AnnounceKeepsGrid ==
  ASSUME IndInv, OwnInv, GridInv, NEW owned \in BOOLEAN, NEW newGrid \in {grid, StationGrid},
         Announce(owned, newGrid), conn # 0, conn' = conn, app' = app,
         owned => newGrid = grid /\ size.connected /\ claim # "owns"
  PROVE  GridInv'
<1> DEFINE o == Owns(owned)
           sent == IF view.up /\ newGrid # grid THEN newGrid ELSE view.sent
<1>1. newGrid \in Grid
  BY GridsType DEF IndInv
<1>2. /\ kept' = [kept EXCEPT !.owner = owned] /\ grid' = newGrid /\ o \in BOOLEAN
      /\ ~app.ready => view'.owns = view.owns /\ view'.timer = view.timer /\ view'.sent = sent
      /\ app.ready => /\ view'.owns = o
                      /\ o => view'.sent = sent /\ (view'.timer <=> view.timer \/ sent # PhoneGrid)
                      /\ ~o => view'.sent = None /\ ~view'.timer
  BY <1>1, AnnounceIs
<1>3. kept'.snapshot = kept.snapshot
  BY <1>2 DEF IndInv, TypeOK, Kept
<1>4. o => owned
  BY DEF Owns
<1>5. app.ready <=> size.viewReady
  BY DEF IndInv, LinkInv
<1>6. CASE app.ready /\ ~o
  BY <1>2, <1>6, NoneIsNoGrid, GridCleared
<1>7. CASE app.ready /\ o
  <2>1. newGrid = grid /\ ~view.owns
    BY <1>4, <1>7 DEF OwnInv
  <2>2. sent = view.sent
    BY <2>1
  <2> HIDE DEF o, sent
  <2>3. view'.owns /\ view'.sent = view.sent /\ (view'.timer <=> view.timer \/ view.sent # PhoneGrid)
    BY <1>2, <1>7, <2>2
  <2>4. kept.snapshot.grid # PhoneGrid => view.sent # PhoneGrid
    BY <1>7, <2>1 DEF GridInv
  <2> QED
    BY <1>3, <2>3, <2>4 DEF GridInv
<1>8. CASE ~app.ready
  <2>1. ~view.owns /\ view'.owns = view.owns /\ view'.timer = view.timer /\ view'.sent = sent
    BY <1>2, <1>5, <1>8 DEF OwnInv
  <2>2. CASE newGrid = grid \/ ~view.up
    <3>1. sent = view.sent
      BY <2>2
    <3>2. ~view.up => view.sent # PhoneGrid
      BY NoneIsNoGrid DEF IndInv, LinkInv, Unloaded
    <3> HIDE DEF sent
    <3> QED
      BY <1>2, <1>3, <1>8, <2>1, <2>2, <3>1, <3>2 DEF GridInv
  <2>3. CASE newGrid # grid /\ view.up
    <3>1. sent = StationGrid
      BY <2>3
    <3>2. kept.snapshot.grid # PhoneGrid => StationGrid # PhoneGrid
      <4>1. kept.snapshot \in Snapshot
        BY AppIs DEF IndInv, LinkInv
      <4> QED
        BY <4>1 DEF Snapshot, Grid
    <3> HIDE DEF sent
    <3> QED
      BY <1>3, <2>1, <3>1, <3>2 DEF GridInv
  <2> QED
    BY <2>2, <2>3
<1> QED
  BY <1>2, <1>6, <1>7, <1>8

LEMMA RestoreFailsKeepsGrid ==
  ASSUME IndInv, OwnInv, GridInv, RestoreFails, conn' = conn
  PROVE  GridInv'
<1>1. /\ IF app.ready THEN ~view'.owns /\ ~view'.timer /\ view'.sent = None ELSE SameProposer(view', view)
      /\ app'.ready = app.ready /\ grid' = grid
  BY RestoreFailsIs DEF OutputShown
<1>2. kept'.snapshot = kept.snapshot
  BY RestoreFailsKept
<1>3. CASE app.ready
  BY <1>1, <1>3, NoneIsNoGrid, GridCleared
<1>4. CASE ~app.ready
  <2>1. ~view.owns
    BY <1>4 DEF OwnInv, IndInv, LinkInv
  <2> QED
    BY <1>1, <1>2, <1>4, <2>1 DEF GridInv, SameProposer
<1> QED
  BY <1>3, <1>4

LEMMA HandlesKeepsGrid ==
  ASSUME IndInv, OwnInv, GridInv, StationHandles
  PROVE  GridInv'
<1>1. conn # 0 /\ conn' = conn /\ size.connected /\ toApp' = toApp
  BY RenderedIs DEF StationHandles, IndInv, LinkInv
<1>2. Among("resize", up) <=> Among("resize", up') \/ Head(up).type = "resize"
  BY AmongTail DEF StationHandles, IndInv, TypeOK
<1>3. Head(up).type # "resize" /\ grid' = grid => (OnItsWay => OnItsWay')
  BY <1>1, <1>2 DEF OnItsWay
<1>4. CASE HandleApplied /\ Head(up).type = "session-snapshot-applied"
  <2>1. /\ SameProposer(view', view) /\ app' = [app EXCEPT !.live = <<>>, !.awaiting = FALSE]
        /\ UNCHANGED <<kept, grid, refused>>
    BY <1>1, <1>4, ScrollbackIs DEF HandleApplied
  <2>2. app'.ready = app.ready
    BY <2>1 DEF IndInv, TypeOK, App
  <2> QED
    BY <1>1, <1>3, <1>4, <2>1, <2>2, GridStays
<1>5. CASE HandleClaim /\ Head(up).type = "terminal-size-claim"
  <2>1. CASE UNCHANGED <<view, kept, app, size, grid, claim, refused>>
    BY <1>1, <1>3, <1>5, <2>1, GridStays DEF SameProposer
  <2>2. CASE claim = "none" /\ Announce(TRUE, grid) /\ UNCHANGED app
    BY <1>1, <2>2, AnnounceKeepsGrid
  <2> QED
    BY <1>5, <2>1, <2>2 DEF HandleClaim
<1>6. CASE HandleRelease /\ Head(up).type = "terminal-size-release"
  <2>1. CASE UNCHANGED <<view, kept, app, size, grid, refused>>
    BY <1>1, <1>3, <1>6, <2>1, GridStays DEF SameProposer
  <2>2. CASE Announce(FALSE, StationGrid) /\ UNCHANGED app
    BY <1>1, <2>2, AnnounceKeepsGrid
  <2>3. CASE RestoreFails
    BY <1>1, <2>3, RestoreFailsKeepsGrid
  <2> QED
    BY <1>6, <2>1, <2>2, <2>3 DEF HandleRelease
<1>7. CASE HandleResize
  <2>1. CASE Announce(FALSE, grid) /\ UNCHANGED app
    BY <1>1, <2>1, AnnounceKeepsGrid
  <2>2. CASE /\ claim = "owns" /\ grid' = PhoneGrid /\ view' = OnResize(view, PhoneGrid)
             /\ UNCHANGED <<kept, size, app>>
    <3>1. view'.owns = view.owns /\ view'.timer = view.timer
      BY <2>2, ResizeIs, GridsType DEF IndInv, TypeOK
    <3>2. OnItsWay'
      BY <2>2 DEF OnItsWay
    <3>3. ~view.owns => ~app.ready
      BY <1>1, <2>2 DEF OwnInv, IndInv, LinkInv
    <3> QED
      BY <1>1, <2>2, <3>1, <3>2, <3>3 DEF GridInv
  <2>3. CASE OnOutput(made + 1) /\ refused' = TRUE /\ grid' = grid
    <3>1. SameProposer(view', view) /\ app'.ready = app.ready /\ kept'.snapshot = kept.snapshot
      BY <2>3, OnOutputIs, RefusalKept DEF OutputShown
    <3> QED
      BY <1>1, <2>3, <3>1 DEF GridInv, SameProposer
  <2> QED
    BY <1>7, <2>1, <2>2, <2>3 DEF HandleResize
<1> QED
  BY <1>4, <1>5, <1>6, <1>7 DEF StationHandles

LEMMA OwnerKeepsGrid ==
  ASSUME IndInv, OwnInv, GridInv, LeaseExpires \/ OtherClaims \/ OtherLeaves
  PROVE  GridInv'
<1>1. conn # 0 /\ conn' = conn /\ size.connected /\ UNCHANGED <<toApp, up>>
  BY DEF LeaseExpires, OtherClaims, OtherLeaves, OwnInv
<1>2. CASE LeaseExpires
  <2>1. CASE Announce(FALSE, StationGrid) /\ UNCHANGED app
    BY <1>1, <2>1, AnnounceKeepsGrid
  <2>2. CASE UNCHANGED <<view, kept, app, size, grid, refused>>
    <3>1. OnItsWay' <=> OnItsWay
      BY <1>1, <2>2 DEF OnItsWay
    <3> QED
      BY <1>1, <2>2, <3>1, GridStays DEF SameProposer
  <2>3. CASE RestoreFails
    BY <1>1, <2>3, RestoreFailsKeepsGrid
  <2> QED
    BY <1>2, <2>1, <2>2, <2>3 DEF LeaseExpires
<1>3. CASE OtherClaims
  <2>1. PICK newGrid \in {grid, StationGrid} : Announce(FALSE, newGrid)
    BY <1>3 DEF OtherClaims
  <2>2. app' = app
    BY <1>3 DEF OtherClaims
  <2> QED
    BY <1>1, <2>1, <2>2, AnnounceKeepsGrid
<1>4. CASE OtherLeaves
  <2>1. claim # "owns" /\ Announce(TRUE, grid) /\ app' = app
    BY <1>4 DEF OtherLeaves
  <2> QED
    BY <1>1, <2>1, AnnounceKeepsGrid
<1> QED
  BY <1>2, <1>3, <1>4

LEMMA NextGrid == IndInv /\ PaintInv /\ OwnInv /\ GridInv /\ [Next]_vars => GridInv'
<1> SUFFICES ASSUME IndInv, PaintInv, OwnInv, GridInv, [Next]_vars PROVE GridInv'
  OBVIOUS
<1>1. CASE (Document \/ Relayout) /\ UNCHANGED <<state, kept, app, size, startup, reopened, missed, up, stationVars>>
  BY <1>1, DocumentKeepsGrid DEF Document
<1>2. CASE (RunEffects \/ PageLoaded \/ Probe \/ StartupTimeout \/ RetryRenderer \/ HandleMessage \/ Remount)
           /\ UNCHANGED stationVars
  <2>1. CASE Remount
    BY <2>1, UnloadedKeepsGrid DEF Remount
  <2> QED
    BY <1>2, <2>1, RunEffectsKeepsGrid, StartupKeepsGrid, MessageKeepsGrid
<1>3. CASE Connected \/ Lost \/ Output \/ StationHandles
  BY <1>3, ConnectedKeepsGrid, LostKeepsGrid, OutputKeepsGrid, HandlesKeepsGrid
<1>4. CASE LeaseExpires \/ OtherClaims \/ OtherLeaves
  BY <1>4, OwnerKeepsGrid
<1>5. CASE UNCHANGED vars
  BY <1>5 DEF vars, screenVars, stationVars, GridInv, OnItsWay
<1> QED
  BY <1>1, <1>2, <1>3, <1>4, <1>5 DEF Next

LEMMA GridTaken == IndInv /\ OwnInv /\ GridInv => SessionTakesThePhoneGrid
<1> SUFFICES ASSUME IndInv, OwnInv, GridInv, Settled, ~view.timer, view.owns, ~refused,
                    kept.snapshot.grid = StationGrid
             PROVE  grid = PhoneGrid
  BY DEF SessionTakesThePhoneGrid
<1>1. CASE StationGrid = PhoneGrid
  BY <1>1 DEF IndInv, TypeOK, Grid
<1>2. CASE StationGrid # PhoneGrid
  <2>1. conn # 0
    BY OwnershipShown DEF OwnershipReachesView
  <2>2. OnItsWay
    BY <1>2, <2>1 DEF GridInv
  <2> QED
    BY <2>2 DEF OnItsWay, Settled, Among
<1> QED
  BY <1>1, <1>2

\* No proposal of a phone that owns the size is suppressed as already sent, unless
\* the Session has refused that grid.
THEOREM GridReachesTheSession == Spec => []SessionTakesThePhoneGrid
BY InitInd, NextInd, InitPaint, NextPaint, InitOwn, NextOwn, InitGrid, NextGrid, GridTaken, PTL DEF Spec

-----------------------------------------------------------------------------
(* The acknowledgement of the first paint                                    *)

\* The history of a connection is asked for at most once, and awaited until it
\* comes.
AckInv ==
  conn # 0 =>
    /\ ~kept.acked => app.awaiting
    /\ Among("session-snapshot-applied", up) => kept.acked /\ app.awaiting
    /\ \A i, j \in DOMAIN up :
         up[i].type = "session-snapshot-applied" /\ up[j].type = "session-snapshot-applied" => i = j

LEMMA InitAck == Init => AckInv
BY DEF Init, AckInv

\* At most one frame of a queue has the type.
AtMostOne(t, q) == \A i, j \in DOMAIN q : q[i].type = t /\ q[j].type = t => i = j

LEMMA OneAppended ==
  ASSUME NEW S, NEW q \in Seq(S), NEW x \in S, NEW t, AtMostOne(t, q), ~Among(t, q) \/ x.type # t
  PROVE  AtMostOne(t, Append(q, x))
<1> DEFINE p == Append(q, x)
<1>1. /\ DOMAIN q = 1 .. Len(q) /\ DOMAIN p = 1 .. Len(q) + 1 /\ Len(q) \in Nat
      /\ p[Len(q) + 1] = x /\ \A i \in 1 .. Len(q) : p[i] = q[i]
  OBVIOUS
<1> HIDE DEF p
<1>2. SUFFICES ASSUME NEW i \in DOMAIN p, NEW j \in DOMAIN p, p[i].type = t, p[j].type = t PROVE i = j
  BY DEF AtMostOne, p
<1>3. (i \in 1 .. Len(q) \/ i = Len(q) + 1) /\ (j \in 1 .. Len(q) \/ j = Len(q) + 1)
  BY <1>1
<1>4. CASE i \in 1 .. Len(q) /\ j \in 1 .. Len(q)
  BY <1>1, <1>2, <1>4 DEF AtMostOne
<1>5. CASE i = Len(q) + 1 /\ j = Len(q) + 1
  BY <1>5
<1>6. CASE i \in 1 .. Len(q) /\ j = Len(q) + 1
  BY <1>1, <1>2, <1>6 DEF Among
<1>7. CASE j \in 1 .. Len(q) /\ i = Len(q) + 1
  BY <1>1, <1>2, <1>7 DEF Among
<1> QED
  BY <1>3, <1>4, <1>5, <1>6, <1>7

LEMMA OneTaken ==
  ASSUME NEW S, NEW q \in Seq(S), q # <<>>, NEW t, AtMostOne(t, q)
  PROVE  AtMostOne(t, Tail(q)) /\ (Head(q).type = t => ~Among(t, Tail(q)))
<1>1. /\ Head(q) = q[1] /\ DOMAIN q = 1 .. Len(q) /\ DOMAIN Tail(q) = 1 .. Len(q) - 1 /\ Len(q) \in Nat
      /\ Len(q) > 0
      /\ \A i \in 1 .. Len(q) - 1 : Tail(q)[i] = q[i + 1]
  OBVIOUS
<1>2. \A i \in 1 .. Len(q) - 1 : i + 1 \in 1 .. Len(q) /\ i + 1 # 1
  BY <1>1
<1>3. ASSUME NEW i \in DOMAIN Tail(q), NEW j \in DOMAIN Tail(q), Tail(q)[i].type = t, Tail(q)[j].type = t
      PROVE  i = j
  <2>1. i + 1 \in DOMAIN q /\ j + 1 \in DOMAIN q /\ q[i + 1].type = t /\ q[j + 1].type = t
    BY <1>1, <1>2, <1>3
  <2>2. i + 1 = j + 1
    BY <2>1 DEF AtMostOne
  <2>3. i \in Nat /\ j \in Nat
    BY <1>1
  <2> QED
    BY <2>2, <2>3
<1>4. ASSUME Head(q).type = t, NEW i \in DOMAIN Tail(q), Tail(q)[i].type = t
      PROVE  FALSE
  <2>1. i + 1 \in DOMAIN q /\ 1 \in DOMAIN q /\ q[i + 1].type = t /\ q[1].type = t /\ i + 1 # 1
    BY <1>1, <1>2, <1>4
  <2> QED
    BY <2>1 DEF AtMostOne
<1> QED
  BY <1>3, <1>4 DEF AtMostOne, Among

Ack == "session-snapshot-applied"

LEMMA AckInvIs ==
  AckInv <=> (conn # 0 => /\ ~kept.acked => app.awaiting
                          /\ Among(Ack, up) => kept.acked /\ app.awaiting
                          /\ AtMostOne(Ack, up))
BY DEF AckInv, AtMostOne, Ack

\* Nothing more is acknowledged, and what is awaited still is.
LEMMA AckStays ==
  ASSUME IndInv, AckInv, kept'.acked = kept.acked, conn # 0 => (app.awaiting => app'.awaiting), conn' = conn,
         \/ up' = up
         \/ \E x \in Sent : x.type # Ack /\ up' = Append(up, x)
         \/ up # <<>> /\ up' = Tail(up)
  PROVE  AckInv'
<1>1. up \in Seq(Sent)
  BY DEF IndInv, TypeOK
<1>2. (Among(Ack, up') => Among(Ack, up)) /\ (AtMostOne(Ack, up) => AtMostOne(Ack, up'))
  <2>1. CASE up' = up
    BY <2>1
  <2>2. CASE \E x \in Sent : x.type # Ack /\ up' = Append(up, x)
    BY <1>1, <2>2, AmongAppend, OneAppended
  <2>3. CASE up # <<>> /\ up' = Tail(up)
    BY <1>1, <2>3, AmongTail, OneTaken
  <2> QED
    BY <2>1, <2>2, <2>3
<1>3. conn # 0 => /\ ~kept.acked => app.awaiting
                  /\ Among(Ack, up) => kept.acked /\ app.awaiting
                  /\ AtMostOne(Ack, up)
  BY AckInvIs
<1>4. conn' # 0 => /\ ~kept'.acked => app'.awaiting
                   /\ Among(Ack, up') => kept'.acked /\ app'.awaiting
                   /\ AtMostOne(Ack, up')
  BY <1>2, <1>3
<1> QED
  BY <1>4 DEF AckInv, AtMostOne, Ack

LEMMA ScreenKeepsAck ==
  ASSUME IndInv, AckInv, RunEffects \/ Remount, UNCHANGED stationVars
  PROVE  AckInv'
<1>1. kept' = kept /\ conn' = conn
  BY DEF RunEffects, Remount, stationVars
<1>2. conn # 0 => (app.awaiting => app'.awaiting)
  <2>1. CASE RunEffects
    BY <2>1 DEF RunEffects, IndInv, TypeOK, App
  <2>2. CASE Remount
    BY <2>2 DEF Remount, NewScreen, IndInv, LinkInv
  <2> QED
    BY <2>1, <2>2
<1>3. CASE RunEffects
  <2>1. up' = up \/ up' = Append(up, [type |-> "terminal-size-claim"])
    BY <1>3 DEF RunEffects, SetConnected
  <2>2. [type |-> "terminal-size-claim"] \in Sent
    BY DEF Sent
  <2> QED
    BY <1>1, <1>2, <2>1, <2>2, AckStays DEF Ack
<1>4. CASE Remount
  <2> DEFINE released == IF size.connected THEN Append(up, [type |-> "terminal-size-release"]) ELSE up
  <2>1. up' = IF state = "connected" THEN Append(released, [type |-> "terminal-size-claim"]) ELSE released
    BY <1>4 DEF Remount
  <2>2. [type |-> "terminal-size-claim"] \in Sent /\ [type |-> "terminal-size-release"] \in Sent
        /\ up \in Seq(Sent)
    BY DEF Sent, IndInv, TypeOK
  <2>3. /\ released \in Seq(Sent) /\ (Among(Ack, released) => Among(Ack, up))
        /\ AtMostOne(Ack, up) => AtMostOne(Ack, released)
    BY <2>2, AppendType, AmongAppend, OneAppended DEF Ack
  <2> HIDE DEF released
  <2>4. /\ Among(Ack, up') => Among(Ack, released)
        /\ AtMostOne(Ack, released) => AtMostOne(Ack, up')
    BY <2>1, <2>2, <2>3, AmongAppend, OneAppended DEF Ack
  <2>5. conn # 0 => /\ ~kept.acked => app.awaiting
                    /\ Among(Ack, up) => kept.acked /\ app.awaiting
                    /\ AtMostOne(Ack, up)
    BY AckInvIs
  <2>6. conn' # 0 => /\ ~kept'.acked => app'.awaiting
                     /\ Among(Ack, up') => kept'.acked /\ app'.awaiting
                     /\ AtMostOne(Ack, up')
    BY <1>1, <1>2, <2>3, <2>4, <2>5
  <2> QED
    BY <2>6 DEF AckInv, AtMostOne, Ack
<1> QED
  BY <1>3, <1>4

LEMMA MessageKeepsAck ==
  ASSUME IndInv, AckInv, HandleMessage, UNCHANGED stationVars
  PROVE  AckInv'
<1>1. conn' = conn
  BY DEF stationVars
<1>2. CASE RendererReady /\ UNCHANGED <<kept, up>>
  <2>1. app'.awaiting = app.awaiting
    BY <1>2 DEF RendererReady, IndInv, TypeOK, App
  <2> QED
    BY <1>1, <1>2, <2>1, AckStays
<1>3. CASE SnapshotApplied /\ UNCHANGED <<view, size, startup, missed>>
  <2>1. app'.awaiting = app.awaiting
    BY <1>3 DEF SnapshotApplied, IndInv, TypeOK, App
  <2>2. CASE kept' = kept /\ up' = up
    BY <1>1, <2>1, <2>2, AckStays
  <2>3. CASE ~kept.acked /\ kept' = [kept EXCEPT !.acked = TRUE] /\ up' = Append(up, [type |-> Ack])
    <3>1. kept'.acked
      BY <2>3 DEF IndInv, TypeOK, Kept
    <3>2. up \in Seq(Sent) /\ [type |-> Ack] \in Sent
      BY DEF Ack, Sent, IndInv, TypeOK
    <3>3. conn # 0 => /\ ~kept.acked => app.awaiting
                      /\ Among(Ack, up) => kept.acked /\ app.awaiting
                      /\ AtMostOne(Ack, up)
      BY AckInvIs
    <3>4. conn # 0 => app'.awaiting /\ AtMostOne(Ack, up')
      BY <2>1, <2>3, <3>2, <3>3, OneAppended
    <3> QED
      BY <1>1, <3>1, <3>4 DEF AckInv, AtMostOne, Ack
  <2> QED
    BY <1>3, <2>2, <2>3 DEF SnapshotApplied, Ack
<1>4. CASE ProposeGrid /\ UNCHANGED <<view, kept, app, size, startup, missed>>
  <2>1. up' = up \/ up' = Append(up, [type |-> "resize"])
    BY <1>4 DEF ProposeGrid
  <2>2. [type |-> "resize"] \in Sent
    BY DEF Sent
  <2> QED
    BY <1>1, <1>4, <2>1, <2>2, AckStays DEF Ack
<1> QED
  BY <1>2, <1>3, <1>4 DEF HandleMessage

LEMMA OutputKeepsAck ==
  ASSUME IndInv, AckInv, OneMoreOutput
  PROVE  AckInv'
<1>1. kept'.acked = kept.acked /\ conn' = conn
  BY DEF OneMoreOutput
<1>2. conn # 0 => (app.awaiting => app'.awaiting)
  BY DEF OneMoreOutput
<1>3. up' = up \/ (up # <<>> /\ up' = Tail(up))
  BY DEF OneMoreOutput
<1> QED
  BY <1>1, <1>2, <1>3, AckStays

LEMMA NetworkKeepsAck ==
  ASSUME IndInv, AckInv, Connected \/ Lost \/ Output
  PROVE  AckInv'
<1>1. CASE Connected
  <2>1. up' = <<>> /\ app' = [app EXCEPT !.pending = NewSnapshot, !.live = <<>>, !.awaiting = TRUE, !.painted = FALSE]
    BY <1>1 DEF Connected, OnSnapshot, NewSnapshot, IndInv, LinkInv
  <2>2. app'.awaiting
    BY <2>1 DEF IndInv, TypeOK, App
  <2> QED
    BY <2>1, <2>2 DEF AckInv, Among
<1>2. CASE Lost
  BY <1>2 DEF Lost, AckInv
<1>3. CASE Output
  BY <1>3, OutputIs, OutputKeepsAck
<1> QED
  BY <1>1, <1>2, <1>3

LEMMA StationKeepsAck ==
  ASSUME IndInv, AckInv, SizeSteps \/ (StationHandles /\ HandleApplied /\ Head(up).type = Ack)
  PROVE  AckInv'
<1>1. CASE SizeSteps
  <2>1. CASE QuietSize
    <3>1. /\ app' = app /\ kept'.acked = kept.acked /\ conn' = conn
          /\ up' = up \/ (up # <<>> /\ up' = Tail(up))
      BY <2>1 DEF QuietSize
    <3> QED
      BY <3>1, AckStays
  <2>2. CASE OneMoreOutput
    BY <2>2, OutputKeepsAck
  <2> QED
    BY <1>1, <2>1, <2>2, SizeStepIs
<1>2. CASE StationHandles /\ HandleApplied /\ Head(up).type = Ack
  <2>1. conn # 0 /\ up \in Seq(Sent) /\ up # <<>> /\ up' = Tail(up) /\ UNCHANGED <<kept, conn>>
    BY <1>2 DEF StationHandles, HandleApplied, IndInv, LinkInv, TypeOK
  <2>2. /\ Among(Ack, up) => kept.acked /\ app.awaiting
        /\ AtMostOne(Ack, up)
    BY <2>1, AckInvIs
  <2>3. kept.acked
    BY <1>2, <2>1, <2>2, AmongTail
  <2>4. ~Among(Ack, up') /\ AtMostOne(Ack, up')
    BY <1>2, <2>1, <2>2, OneTaken
  <2> QED
    BY <2>1, <2>3, <2>4 DEF AckInv, AtMostOne, Ack
<1> QED
  BY <1>1, <1>2

LEMMA NextAck == IndInv /\ AckInv /\ [Next]_vars => AckInv'
<1> SUFFICES ASSUME IndInv, AckInv, [Next]_vars PROVE AckInv'
  OBVIOUS
<1>1. CASE (Document \/ Relayout) /\ UNCHANGED <<state, kept, app, size, startup, reopened, missed, up, stationVars>>
  BY <1>1, AckStays DEF stationVars
<1>2. CASE (PageLoaded \/ Probe \/ StartupTimeout \/ RetryRenderer) /\ UNCHANGED stationVars
  BY <1>2, AckStays DEF PageLoaded, Probe, StartupTimeout, RetryRenderer, stationVars
<1>3. CASE (RunEffects \/ HandleMessage \/ Remount) /\ UNCHANGED stationVars
  BY <1>3, ScreenKeepsAck, MessageKeepsAck
<1>4. CASE Connected \/ Lost \/ Output
  BY <1>4, NetworkKeepsAck
<1>5. CASE SizeSteps \/ (StationHandles /\ HandleApplied /\ Head(up).type = Ack)
  BY <1>5, StationKeepsAck
<1>6. CASE UNCHANGED vars
  BY <1>6, AckStays DEF vars, screenVars, stationVars
<1> QED
  BY <1>1, <1>2, <1>3, <1>4, <1>5, <1>6 DEF Next, StationHandles, SizeSteps, Ack

-----------------------------------------------------------------------------
(* The document parses one thing at a time                                   *)

PipeInv ==
  /\ view.inFlight <=> view.parses # <<>>
  /\ Len(view.parses) <= 1
  /\ view.term.conn <= opened
  /\ \A i \in DOMAIN view.parses : view.parses[i].screen.conn <= opened
  /\ conn # 0 => kept.last = made
  /\ conn # 0 /\ app.ready => view.parses # <<>> \/ view.term.conn = conn

LEMMA InitPipe == Init => PipeInv
BY DEF Init, ScreenInit, PipeInv, Unloaded, Blank

LEMMA PipeStays ==
  ASSUME PipeInv, SameTerm(view', view), view'.parses = view.parses, view'.inFlight = view.inFlight,
         app'.ready = app.ready, kept'.last = kept.last, UNCHANGED <<opened, conn, made>>
  PROVE  PipeInv'
BY DEF PipeInv, SameTerm

\* The document now parses a terminal of a snapshot.
LEMMA PipeFilled ==
  ASSUME NEW kind, NEW scr, Parses(view', kind, scr), scr.conn <= opened', view'.term.conn <= opened',
         conn' # 0 => kept'.last = made'
  PROVE  PipeInv'
BY DEF PipeInv, Parses

LEMMA PipeUnloaded ==
  ASSUME IndInv, PipeInv, view' = Unloaded, ~app'.ready, kept' = kept, UNCHANGED <<opened, conn, made>>
  PROVE  PipeInv'
BY DEF PipeInv, Unloaded, Blank, IndInv, TypeOK

LEMMA DocumentKeepsPipe ==
  ASSUME IndInv, PaintInv, PipeInv, DocumentInit \/ FlushOutput \/ Parsed \/ GridTimer \/ Relayout,
         UNCHANGED <<state, kept, app, size, startup, reopened, missed, up, stationVars>>
  PROVE  PipeInv'
<1>1. UNCHANGED <<kept, app, opened, conn, made>>
  BY DEF stationVars
<1>2. CASE DocumentInit
  <2>1. view' = [view EXCEPT !.up = TRUE] /\ view \in View
    BY <1>2 DEF DocumentInit, IndInv, TypeOK
  <2>2. view'.term = view.term /\ view'.parses = view.parses /\ view'.inFlight = view.inFlight
    BY <2>1 DEF View
  <2> QED
    BY <1>1, <2>2 DEF PipeInv
<1>3. CASE FlushOutput
  <2>1. view.term \in Screen /\ view.outQ \in Seq(Nat)
    BY DEF IndInv, TypeOK, View
  <2>2. view'.term.conn = view.term.conn /\ view'.parses = view.parses /\ view'.inFlight = view.inFlight
    BY <1>3, <2>1, FlushIs, WrittenType DEF IndInv
  <2> QED
    BY <1>1, <2>2 DEF PipeInv
<1>4. CASE Parsed
  <2> DEFINE parse == view.parses[1]
  <2>1. /\ 1 \in DOMAIN view.parses /\ ~view'.inFlight /\ view'.parses = Tail(view.parses)
        /\ view'.term = parse.screen
    BY <1>4, ParsedIs DEF IndInv
  <2>2. /\ conn # 0 => parse.screen.conn = conn
        /\ parse.screen.conn <= opened
    BY <2>1 DEF PaintInv, PipeInv
  <2>3. view'.parses = <<>>
    <3>1. view.parses \in Seq(Parse) /\ Len(view.parses) <= 1 /\ view.parses # <<>>
      BY <1>4 DEF IndInv, TypeOK, View, PipeInv, Parsed
    <3> QED
      BY <2>1, <3>1
  <2> HIDE DEF parse
  <2> QED
    BY <1>1, <2>1, <2>2, <2>3 DEF PipeInv
<1>5. CASE GridTimer
  BY <1>1, <1>5, GridTimerIs, PipeStays DEF IndInv, SamePicture
<1>6. CASE Relayout
  BY <1>1, <1>6, RelayoutIs, PipeStays DEF IndInv, SamePicture
<1> QED
  BY <1>2, <1>3, <1>4, <1>5, <1>6

LEMMA RunEffectsKeepsPipe ==
  ASSUME IndInv, PipeInv, RunEffects, UNCHANGED stationVars
  PROVE  PipeInv'
<1>1. UNCHANGED <<kept, opened, conn, made>> /\ app'.ready = app.ready
  BY DEF RunEffects, stationVars, IndInv, TypeOK, App
<1>2. SameTerm(view', view)
  BY RunEffectsIs
<1>3. CASE view.up /\ Changed /\ state = "reconnecting"
  <2>1. view'.parses = <<>> /\ ~view'.inFlight
    BY <1>3, RunEffectsIs
  <2>2. conn = 0
    BY <1>3 DEF IndInv, LinkInv
  <2> QED
    BY <1>1, <1>2, <2>1, <2>2 DEF PipeInv, SameTerm
<1>4. CASE ~(view.up /\ Changed /\ state = "reconnecting") /\ Renewed
  <2>1. Parses(view', "snapshot", ScreenOf(kept.snapshot))
    BY <1>4, RunEffectsIs
  <2>2. ScreenOf(kept.snapshot).conn <= opened
    BY <1>4, AppIs, ScreenOfType DEF Renewed, IndInv, LinkInv
  <2>3. view'.term.conn <= opened /\ (conn # 0 => kept.last = made)
    BY <1>2 DEF PipeInv, SameTerm
  <2> QED
    BY <1>1, <2>1, <2>2, <2>3, PipeFilled
<1>5. CASE ~(view.up /\ Changed /\ state = "reconnecting") /\ ~Renewed
  <2>1. SamePicture(view', view)
    BY <1>5, RunEffectsIs
  <2> QED
    BY <1>1, <2>1, PipeStays DEF SamePicture
<1> QED
  BY <1>3, <1>4, <1>5

LEMMA StartupKeepsPipe ==
  ASSUME IndInv, PipeInv, PageLoaded \/ Probe \/ StartupTimeout \/ RetryRenderer \/ Remount, UNCHANGED stationVars
  PROVE  PipeInv'
<1>1. UNCHANGED <<kept, opened, conn, made>>
  BY DEF PageLoaded, Probe, StartupTimeout, RetryRenderer, Remount, stationVars
<1>2. CASE RetryRenderer
  <2>1. view' = Unloaded /\ ~app'.ready
    BY <1>2 DEF RetryRenderer, IndInv, LinkInv
  <2> QED
    BY <1>1, <2>1, PipeUnloaded
<1>3. CASE Remount
  <2>1. view' = Unloaded /\ ~app'.ready
    BY <1>3 DEF Remount, NewScreen
  <2> QED
    BY <1>1, <2>1, PipeUnloaded
<1>4. CASE PageLoaded \/ Probe \/ StartupTimeout
  <2>1. UNCHANGED <<view, app>>
    BY <1>4 DEF PageLoaded, Probe, StartupTimeout
  <2> QED
    BY <1>1, <2>1, PipeStays DEF SameTerm
<1> QED
  BY <1>2, <1>3, <1>4

LEMMA MessageKeepsPipe ==
  ASSUME IndInv, PipeInv, HandleMessage, UNCHANGED stationVars
  PROVE  PipeInv'
<1>1. UNCHANGED <<opened, conn, made>>
  BY DEF stationVars
<1>2. CASE RendererReady /\ Starts /\ UNCHANGED <<kept, up>>
  <2>1. SameTerm(view', view)
    BY <1>2, RendererReadyIs
  <2>2. CASE app.pending # None
    <3>1. Parses(view', "snapshot", ScreenOf(app.pending))
      BY <1>2, <2>2, RendererReadyIs
    <3>2. ScreenOf(app.pending).conn <= opened
      BY <2>2, AppIs, ScreenOfType DEF IndInv, LinkInv
    <3>3. view'.term.conn <= opened /\ (conn # 0 => kept.last = made)
      BY <2>1 DEF PipeInv, SameTerm
    <3> QED
      BY <1>1, <1>2, <3>1, <3>2, <3>3, PipeFilled
  <2>3. CASE app.pending = None
    <3>1. conn = 0
      BY <2>3 DEF IndInv, LinkInv
    <3>2. SamePicture(view', view) \/ (view'.parses = <<>> /\ view'.outQ = <<>> /\ ~view'.inFlight)
      BY <1>2, <2>3, RendererReadyIs
    <3>3. CASE SamePicture(view', view)
      BY <1>1, <2>1, <3>1, <3>3 DEF PipeInv, SamePicture, SameTerm
    <3>4. CASE view'.parses = <<>> /\ ~view'.inFlight
      BY <1>1, <2>1, <3>1, <3>4 DEF PipeInv, SameTerm
    <3> QED
      BY <3>2, <3>3, <3>4
  <2> QED
    BY <2>2, <2>3
<1>3. CASE RendererReady /\ ~Starts /\ UNCHANGED <<kept, up>>
  <2>1. UNCHANGED <<view, app>>
    BY <1>3 DEF RendererReady, Starts
  <2> QED
    BY <1>1, <1>3, <2>1, PipeStays DEF SameTerm
<1>4. CASE SnapshotApplied /\ UNCHANGED <<view, size, startup, missed>>
  <2>1. app'.ready = app.ready /\ kept'.last = kept.last
    BY <1>4 DEF SnapshotApplied, IndInv, TypeOK, App, Kept
  <2> QED
    BY <1>1, <1>4, <2>1, PipeStays DEF SameTerm
<1>5. CASE ProposeGrid /\ UNCHANGED <<view, kept, app, size, startup, missed>>
  BY <1>1, <1>5, PipeStays DEF SameTerm
<1> QED
  BY <1>2, <1>3, <1>4, <1>5 DEF HandleMessage

LEMMA ConnectedKeepsPipe ==
  ASSUME IndInv, PaintInv, PipeInv, Connected
  PROVE  PipeInv'
<1>1. /\ opened' = opened + 1 /\ conn' = opened + 1 /\ made' = made /\ conn = 0 /\ opened \in Nat
      /\ app' = [app EXCEPT !.pending = NewSnapshot, !.live = <<>>, !.awaiting = TRUE, !.painted = FALSE]
  BY DEF Connected, OnSnapshot, NewSnapshot, IndInv, TypeOK
<1>2. kept'.last = made /\ app'.ready = app.ready
  BY <1>1, ConnectedIs DEF Published, NewSnapshot, IndInv, TypeOK, Kept, App
<1>3. view'.term.conn <= opened'
  <2>1. view'.term.conn = view.term.conn /\ view.term.conn \in Nat
    BY ConnectedIs DEF SameTerm, IndInv, TypeOK, View, Screen
  <2> QED
    BY <1>1, <2>1 DEF PipeInv
<1>4. CASE app.ready
  <2>1. Parses(view', "snapshot", ScreenOf(NewSnapshot))
    BY <1>4, ConnectedIs
  <2>2. ScreenOf(NewSnapshot).conn <= opened'
    BY <1>1, ConnectedIs, ScreenOfType DEF NewSnapshot
  <2> QED
    BY <1>1, <1>2, <1>3, <2>1, <2>2, PipeFilled
<1>5. CASE ~app.ready
  <2>1. SamePicture(view', view)
    BY <1>5, ConnectedIs
  <2>2. \A i \in DOMAIN view.parses : view.parses[i].screen.conn \in Nat
    <3>1. view.parses \in Seq(Parse)
      BY DEF IndInv, TypeOK, View
    <3>2. \A i \in DOMAIN view.parses : view.parses[i] \in Parse
      BY <3>1
    <3> QED
      BY <3>2 DEF Parse, Screen
  <2> QED
    BY <1>1, <1>2, <1>3, <1>5, <2>1, <2>2 DEF PipeInv, SamePicture
<1> QED
  BY <1>4, <1>5

LEMMA OutputKeepsPipe ==
  ASSUME PipeInv, OneMoreOutput
  PROVE  PipeInv'
BY DEF PipeInv, OneMoreOutput, SameTerm

LEMMA NetworkKeepsPipe ==
  ASSUME IndInv, PaintInv, PipeInv, Connected \/ Lost \/ Output
  PROVE  PipeInv'
<1>1. CASE Lost
  BY <1>1 DEF Lost, PipeInv
<1>2. CASE Output
  BY <1>2, OutputIs, OutputKeepsPipe
<1> QED
  BY <1>1, <1>2, ConnectedKeepsPipe

LEMMA StationKeepsPipe ==
  ASSUME IndInv, PipeInv, SizeSteps \/ (StationHandles /\ HandleApplied)
  PROVE  PipeInv'
<1>1. CASE SizeSteps
  <2>1. CASE QuietSize
    BY <2>1, PipeStays DEF QuietSize, SamePicture
  <2>2. CASE OneMoreOutput
    BY <2>2, OutputKeepsPipe
  <2> QED
    BY <1>1, <2>1, <2>2, SizeStepIs
<1>2. CASE StationHandles /\ HandleApplied
  <2> DEFINE scr == Written(ScreenOf(kept.snapshot), app.live)
  <2>1. conn # 0 /\ UNCHANGED <<kept, conn, opened, made>> /\ conn <= opened
    BY <1>2 DEF StationHandles, HandleApplied, IndInv, LinkInv
  <2>2. /\ scr.conn = conn
        /\ app' = [app EXCEPT !.live = <<>>, !.awaiting = FALSE]
        /\ SameTerm(view', view)
        /\ ~view.up => view' = view
        /\ view.up => Parses(view', "history", scr)
    BY <1>2, <2>1, ScrollbackIs DEF HandleApplied
  <2> HIDE DEF scr
  <2>3. app'.ready = app.ready
    BY <2>2 DEF IndInv, TypeOK, App
  <2>4. CASE view.up
    <3>1. scr.conn <= opened' /\ view'.term.conn <= opened' /\ kept'.last = made'
      BY <2>1, <2>2 DEF PipeInv, SameTerm
    <3> QED
      BY <2>2, <2>4, <3>1, PipeFilled
  <2>5. CASE ~view.up
    BY <2>1, <2>2, <2>3, <2>5, PipeStays
  <2> QED
    BY <2>4, <2>5 DEF IndInv, TypeOK, View
<1> QED
  BY <1>1, <1>2

LEMMA NextPipe == IndInv /\ PaintInv /\ PipeInv /\ [Next]_vars => PipeInv'
<1> SUFFICES ASSUME IndInv, PaintInv, PipeInv, [Next]_vars PROVE PipeInv'
  OBVIOUS
<1>1. CASE (Document \/ Relayout) /\ UNCHANGED <<state, kept, app, size, startup, reopened, missed, up, stationVars>>
  BY <1>1, DocumentKeepsPipe DEF Document
<1>2. CASE (RunEffects \/ PageLoaded \/ Probe \/ StartupTimeout \/ RetryRenderer \/ HandleMessage \/ Remount)
           /\ UNCHANGED stationVars
  BY <1>2, RunEffectsKeepsPipe, StartupKeepsPipe, MessageKeepsPipe
<1>3. CASE Connected \/ Lost \/ Output
  BY <1>3, NetworkKeepsPipe
<1>4. CASE SizeSteps \/ (StationHandles /\ HandleApplied)
  BY <1>4, StationKeepsPipe
<1>5. CASE UNCHANGED vars
  BY <1>5 DEF vars, screenVars, stationVars, PipeInv
<1> QED
  BY <1>1, <1>2, <1>3, <1>4, <1>5 DEF Next, StationHandles, SizeSteps

-----------------------------------------------------------------------------
(* What the screen shows                                                     *)

\* The outputs of q run from the one after a up to b.
Run(q, a, b) == a + Len(q) = b /\ \A i \in DOMAIN q : q[i] = a + i

\* The terminal, the queue in front of it, the terminal being parsed and the
\* output kept for the history each continue where the snapshot ends.
RunInv ==
  conn # 0 /\ ~missed =>
    /\ app.awaiting => Run(app.live, kept.snapshot.upTo, made)
    /\ view.term.conn = conn => view.term.ok
    /\ \A i \in DOMAIN view.parses :
         view.parses[i].screen.ok /\ Run(view.outQ, view.parses[i].screen.upTo, made)
    /\ view.parses = <<>> /\ view.term.conn = conn => Run(view.outQ, view.term.upTo, made)

LEMMA RunEmpty ==
  ASSUME NEW a \in Nat
  PROVE  Run(<<>>, a, a)
BY DEF Run

LEMMA RunAppend ==
  ASSUME NEW q \in Seq(Nat), NEW a \in Nat, NEW b \in Nat, Run(q, a, b)
  PROVE  Run(Append(q, b + 1), a, b + 1)
<1>1. /\ Len(Append(q, b + 1)) = Len(q) + 1 /\ DOMAIN Append(q, b + 1) = 1 .. Len(q) + 1
      /\ Append(q, b + 1)[Len(q) + 1] = b + 1 /\ Len(q) \in Nat /\ DOMAIN q = 1 .. Len(q)
      /\ \A i \in 1 .. Len(q) : Append(q, b + 1)[i] = q[i]
  OBVIOUS
<1>2. ASSUME NEW i \in 1 .. Len(q) + 1 PROVE Append(q, b + 1)[i] = a + i
  <2>1. CASE i \in 1 .. Len(q)
    BY <1>1, <2>1 DEF Run
  <2>2. CASE i = Len(q) + 1
    BY <1>1, <2>2 DEF Run
  <2> QED
    BY <1>1, <2>1, <2>2
<1>3. a + (Len(q) + 1) = b + 1
  BY <1>1 DEF Run
<1> QED
  BY <1>1, <1>2, <1>3 DEF Run

\* A run written to the terminal it continues.
LEMMA WrittenRun ==
  ASSUME NEW scr \in Screen, scr.conn # 0, scr.ok, NEW q \in Seq(Nat), NEW b \in Nat, Run(q, scr.upTo, b)
  PROVE  Written(scr, q).ok /\ Written(scr, q).upTo = b
<1>1. CASE q = <<>>
  BY <1>1 DEF Written, Run, Screen
<1>2. CASE q # <<>>
  <2> DEFINE n == q[Len(q)]
             t == \A i \in DOMAIN q : q[i] = scr.upTo + i
  <2>1. t
    BY DEF Run
  <2>2. n = b
    <3>1. Len(q) \in DOMAIN q
      BY <1>2
    <3> QED
      BY <3>1 DEF Run
  <2>3. Written(scr, q) = [scr EXCEPT !.upTo = n, !.ok = @ /\ t]
    BY <1>2 DEF Written
  <2> HIDE DEF n, t
  <2> QED
    BY <2>1, <2>2, <2>3 DEF Screen
<1> QED
  BY <1>1, <1>2

LEMMA InitRun == Init => RunInv
BY DEF Init, RunInv

LEMMA RunStays ==
  ASSUME RunInv, SamePicture(view', view), app'.live = app.live, app'.awaiting = app.awaiting,
         kept'.snapshot = kept.snapshot, UNCHANGED <<missed, conn, made>>
  PROVE  RunInv'
BY DEF RunInv, SamePicture, SameTerm

\* A snapshot is written that nothing has followed.
LEMMA RunFilled ==
  ASSUME NEW kind, NEW scr, Parses(view', kind, scr), scr.upTo = made', made' \in Nat, scr.ok,
         conn' # 0 /\ ~missed' => /\ app'.awaiting => Run(app'.live, kept'.snapshot.upTo, made')
                                  /\ view'.term.conn = conn' => view'.term.ok
  PROVE  RunInv'
<1>1. \A i \in DOMAIN view'.parses :
        view'.parses[i].screen.ok /\ Run(view'.outQ, view'.parses[i].screen.upTo, made')
  BY RunEmpty DEF Parses
<1>2. view'.parses # <<>>
  BY DEF Parses
<1> QED
  BY <1>1, <1>2 DEF RunInv

\* A snapshot that output has not followed.
LEMMA NotStale ==
  ASSUME IndInv, PipeInv, conn # 0, kept.snapshot # None, ~Stale(kept.snapshot)
  PROVE  kept.snapshot.upTo = made
BY AppIs DEF IndInv, TypeOK, LinkInv, PipeInv, Stale, Snapshot

LEMMA UnloadedKeepsRun ==
  ASSUME view' = Unloaded, conn' # 0 /\ ~missed' => (app'.awaiting => Run(app'.live, kept'.snapshot.upTo, made'))
  PROVE  RunInv'
BY DEF RunInv, Unloaded, Blank

LEMMA DocumentKeepsRun ==
  ASSUME IndInv, PaintInv, PipeInv, RunInv, DocumentInit \/ FlushOutput \/ Parsed \/ GridTimer \/ Relayout,
         UNCHANGED <<state, kept, app, size, startup, reopened, missed, up, stationVars>>
  PROVE  RunInv'
<1>1. UNCHANGED <<kept, app, missed, conn, made>>
  BY DEF stationVars
<1>2. CASE DocumentInit
  <2>1. view' = [view EXCEPT !.up = TRUE] /\ view \in View
    BY <1>2 DEF DocumentInit, IndInv, TypeOK
  <2>2. view'.term = view.term /\ view'.parses = view.parses /\ view'.outQ = view.outQ
    BY <2>1 DEF View
  <2> QED
    BY <1>1, <2>2 DEF RunInv
<1>3. CASE FlushOutput
  <2>1. view.term \in Screen /\ view.outQ \in Seq(Nat) /\ made \in Nat
    BY DEF IndInv, TypeOK, View
  <2>2. /\ view'.term = Written(view.term, view.outQ) /\ view'.outQ = <<>> /\ view'.parses = view.parses
        /\ view.parses = <<>>
    BY <1>3, FlushIs DEF IndInv, FlushOutput, PipeInv
  <2>3. view'.term.conn = view.term.conn
    BY <2>1, <2>2, WrittenType
  <2>4. ASSUME conn # 0, ~missed, view.term.conn = conn
        PROVE  view'.term.ok /\ Run(view'.outQ, view'.term.upTo, made)
    <3>1. view.term.ok /\ Run(view.outQ, view.term.upTo, made)
      BY <2>2, <2>4 DEF RunInv
    <3>2. view'.term.ok /\ view'.term.upTo = made
      BY <2>1, <2>2, <2>4, <3>1, WrittenRun
    <3> QED
      BY <2>1, <2>2, <3>2, RunEmpty
  <2>5. \A i \in DOMAIN view'.parses : FALSE
    BY <2>2
  <2> QED
    BY <1>1, <2>3, <2>4, <2>5 DEF RunInv
<1>4. CASE Parsed
  <2> DEFINE parse == view.parses[1]
  <2>1. /\ 1 \in DOMAIN view.parses /\ view'.parses = Tail(view.parses) /\ view'.outQ = view.outQ
        /\ view'.term = parse.screen
    BY <1>4, ParsedIs DEF IndInv
  <2>2. conn # 0 /\ ~missed => parse.screen.ok /\ Run(view.outQ, parse.screen.upTo, made)
    BY <2>1 DEF RunInv
  <2>3. \A i \in DOMAIN view'.parses : FALSE
    <3>1. view.parses \in Seq(Parse) /\ Len(view.parses) <= 1 /\ view.parses # <<>>
      BY <1>4 DEF IndInv, TypeOK, View, PipeInv, Parsed
    <3> QED
      BY <2>1, <3>1
  <2> HIDE DEF parse
  <2> QED
    BY <1>1, <2>1, <2>2, <2>3 DEF RunInv
<1>5. CASE GridTimer
  BY <1>1, <1>5, GridTimerIs, RunStays DEF IndInv
<1>6. CASE Relayout
  BY <1>1, <1>6, RelayoutIs, RunStays DEF IndInv
<1> QED
  BY <1>2, <1>3, <1>4, <1>5, <1>6

LEMMA RunEffectsKeepsRun ==
  ASSUME IndInv, PipeInv, RunInv, RunEffects, UNCHANGED stationVars
  PROVE  RunInv'
<1>1. UNCHANGED <<kept, conn, made>> /\ made \in Nat
      /\ missed' = (missed \/ (Renewed /\ Stale(kept.snapshot)))
  BY DEF RunEffects, stationVars, IndInv, TypeOK
<1>2. SameTerm(view', view)
  BY RunEffectsIs
<1>3. SUFFICES ASSUME conn # 0, ~missed' PROVE RunInv'
  BY <1>1 DEF RunInv
<1>4. ~missed /\ (Renewed => ~Stale(kept.snapshot)) /\ state # "reconnecting"
  BY <1>1, <1>3 DEF IndInv, LinkInv
<1>5. CASE Renewed
  <2>1. Parses(view', "snapshot", ScreenOf(kept.snapshot))
    BY <1>4, <1>5, RunEffectsIs
  <2>2. kept.snapshot \in Snapshot /\ kept.snapshot.upTo = made
    BY <1>3, <1>4, <1>5, AppIs, NotStale DEF Renewed, IndInv
  <2>3. app'.live = <<>>
    BY <1>5 DEF RunEffects, IndInv, TypeOK, App
  <2>4. Run(app'.live, kept'.snapshot.upTo, made') /\ made' = made
    BY <1>1, <2>2, <2>3, RunEmpty
  <2>5. view'.term.conn = conn' => view'.term.ok
    BY <1>1, <1>2, <1>3, <1>4 DEF RunInv, SameTerm
  <2>6. ScreenOf(kept.snapshot).upTo = made' /\ ScreenOf(kept.snapshot).ok /\ made' \in Nat
    BY <1>1, <2>2, ScreenOfType
  <2> QED
    BY <2>1, <2>4, <2>5, <2>6, RunFilled
<1>6. CASE ~Renewed
  <2>1. SamePicture(view', view)
    BY <1>4, <1>6, RunEffectsIs
  <2>2. app'.live = app.live /\ app'.awaiting = app.awaiting
    BY <1>6 DEF RunEffects, IndInv, TypeOK, App
  <2>3. missed' = missed
    BY <1>1, <1>6 DEF IndInv, TypeOK
  <2> QED
    BY <1>1, <2>1, <2>2, <2>3, RunStays
<1> QED
  BY <1>5, <1>6

LEMMA StartupKeepsRun ==
  ASSUME IndInv, PipeInv, RunInv, PageLoaded \/ Probe \/ StartupTimeout \/ RetryRenderer \/ Remount,
         UNCHANGED stationVars
  PROVE  RunInv'
<1>1. UNCHANGED <<kept, conn, made>> /\ made \in Nat
  BY DEF PageLoaded, Probe, StartupTimeout, RetryRenderer, Remount, stationVars, IndInv, TypeOK
<1>2. CASE RetryRenderer
  <2>1. view' = Unloaded /\ UNCHANGED <<app, missed>>
    BY <1>2 DEF RetryRenderer
  <2> QED
    BY <1>1, <2>1, UnloadedKeepsRun DEF RunInv
<1>3. CASE Remount
  <2>1. /\ view' = Unloaded /\ missed' = (missed \/ Stale(kept.snapshot))
        /\ app'.live = <<>>
    BY <1>3 DEF Remount, NewScreen
  <2>2. ASSUME conn # 0, ~missed' PROVE Run(app'.live, kept'.snapshot.upTo, made')
    <3>1. kept.snapshot # None /\ kept.snapshot \in Snapshot
      BY <2>2, AppIs DEF IndInv, LinkInv
    <3>2. kept.snapshot.upTo = made
      BY <2>1, <2>2, <3>1, NotStale
    <3> QED
      BY <1>1, <2>1, <3>2, RunEmpty
  <2> QED
    BY <1>1, <2>1, <2>2, UnloadedKeepsRun
<1>4. CASE PageLoaded \/ Probe \/ StartupTimeout
  <2>1. UNCHANGED <<view, app, missed>>
    BY <1>4 DEF PageLoaded, Probe, StartupTimeout
  <2> QED
    BY <1>1, <2>1 DEF RunInv
<1> QED
  BY <1>2, <1>3, <1>4

LEMMA MessageKeepsRun ==
  ASSUME IndInv, PipeInv, RunInv, HandleMessage, UNCHANGED stationVars
  PROVE  RunInv'
<1>1. UNCHANGED <<conn, made>> /\ made \in Nat
  BY DEF stationVars, IndInv, TypeOK
<1>2. CASE RendererReady /\ Starts /\ UNCHANGED <<kept, up>>
  <2>1. /\ missed' = (missed \/ Stale(app.pending)) /\ app' = [app EXCEPT !.ready = TRUE]
    BY <1>2 DEF RendererReady, Starts
  <2>2. SUFFICES ASSUME conn # 0, ~missed' PROVE RunInv'
    BY <1>1 DEF RunInv
  <2>3. app.pending = kept.snapshot /\ kept.snapshot # None /\ kept.snapshot \in Snapshot
    BY <2>2, AppIs DEF IndInv, LinkInv
  <2>4. ~missed /\ kept.snapshot.upTo = made
    BY <2>1, <2>2, <2>3, NotStale
  <2>5. Parses(view', "snapshot", ScreenOf(kept.snapshot)) /\ SameTerm(view', view)
    BY <1>2, <2>3, RendererReadyIs
  <2>6. app'.live = app.live /\ app'.awaiting = app.awaiting
    BY <2>1 DEF IndInv, TypeOK, App
  <2>7. /\ app'.awaiting => Run(app'.live, kept'.snapshot.upTo, made')
        /\ view'.term.conn = conn' => view'.term.ok
    BY <1>1, <1>2, <2>2, <2>4, <2>5, <2>6 DEF RunInv, SameTerm
  <2>8. ScreenOf(kept.snapshot).upTo = made' /\ ScreenOf(kept.snapshot).ok /\ made' \in Nat
    BY <1>1, <2>3, <2>4, ScreenOfType
  <2> QED
    BY <2>5, <2>7, <2>8, RunFilled
<1>3. CASE RendererReady /\ ~Starts /\ UNCHANGED <<kept, up>>
  <2>1. UNCHANGED <<view, app, missed>>
    BY <1>3 DEF RendererReady, Starts
  <2> QED
    BY <1>1, <1>3, <2>1 DEF RunInv
<1>4. CASE SnapshotApplied /\ UNCHANGED <<view, size, startup, missed>>
  <2>1. app'.live = app.live /\ app'.awaiting = app.awaiting /\ kept'.snapshot = kept.snapshot
    BY <1>4 DEF SnapshotApplied, IndInv, TypeOK, App, Kept
  <2> QED
    BY <1>1, <1>4, <2>1 DEF RunInv
<1>5. CASE ProposeGrid /\ UNCHANGED <<view, kept, app, size, startup, missed>>
  BY <1>1, <1>5 DEF RunInv
<1> QED
  BY <1>2, <1>3, <1>4, <1>5 DEF HandleMessage

LEMMA ConnectedKeepsRun ==
  ASSUME IndInv, PaintInv, PipeInv, RunInv, Connected
  PROVE  RunInv'
<1>1. /\ opened \in Nat /\ made \in Nat /\ conn = 0 /\ conn' = opened + 1 /\ made' = made
      /\ app' = [app EXCEPT !.pending = NewSnapshot, !.live = <<>>, !.awaiting = TRUE, !.painted = FALSE]
  BY DEF Connected, OnSnapshot, NewSnapshot, IndInv, TypeOK
<1>2. app'.live = <<>>
  BY <1>1 DEF IndInv, TypeOK, App
<1>3. NewSnapshot \in Snapshot /\ kept'.snapshot.upTo = made /\ NewSnapshot.upTo = made
  BY ConnectedIs DEF Published, NewSnapshot, IndInv, TypeOK, Kept
<1>4. Run(app'.live, kept'.snapshot.upTo, made')
  BY <1>1, <1>2, <1>3, RunEmpty
<1>5. view'.term.conn # conn'
  <2>1. view'.term.conn = view.term.conn /\ view.term.conn \in Nat
    BY ConnectedIs DEF SameTerm, IndInv, TypeOK, View, Screen
  <2> QED
    BY <1>1, <2>1 DEF PipeInv
<1>6. CASE app.ready
  <2>1. Parses(view', "snapshot", ScreenOf(NewSnapshot))
    BY <1>6, ConnectedIs
  <2>2. ScreenOf(NewSnapshot).upTo = made' /\ ScreenOf(NewSnapshot).ok /\ made' \in Nat
    BY <1>1, <1>3, ScreenOfType
  <2> QED
    BY <1>4, <1>5, <2>1, <2>2, RunFilled
<1>7. CASE ~app.ready
  <2>1. view'.parses = view.parses
    BY <1>7, ConnectedIs DEF SamePicture
  <2>2. app.ran.state # "connected"
    BY <1>1, RenderedIs DEF Connected, IndInv, LinkInv
  <2>3. \A i \in DOMAIN view'.parses : FALSE
    BY <1>1, <1>7, <2>1, <2>2 DEF PaintInv
  <2> QED
    BY <1>4, <1>5, <2>3 DEF RunInv
<1> QED
  BY <1>6, <1>7

LEMMA OutputKeepsRun ==
  ASSUME IndInv, RunInv, OneMoreOutput
  PROVE  RunInv'
<1>1. SUFFICES ASSUME conn # 0, ~missed PROVE RunInv'
  BY DEF RunInv, OneMoreOutput
<1>2. made \in Nat /\ made' = made + 1 /\ missed' = missed /\ conn' = conn
  BY DEF OneMoreOutput
<1>3. app'.awaiting => Run(app'.live, kept'.snapshot.upTo, made')
  <2>1. SUFFICES ASSUME app.awaiting PROVE Run(app'.live, kept'.snapshot.upTo, made')
    BY DEF OneMoreOutput
  <2>2. app.live \in Seq(Nat) /\ kept.snapshot.upTo \in Nat
    BY <1>1, AppIs DEF IndInv, LinkInv, Snapshot
  <2>3. Run(app.live, kept.snapshot.upTo, made)
    BY <1>1, <2>1 DEF RunInv
  <2> QED
    BY <1>1, <1>2, <2>1, <2>2, <2>3, RunAppend DEF OneMoreOutput
<1>4. view'.term.conn = view.term.conn /\ view'.term.ok = view.term.ok /\ view'.term.upTo = view.term.upTo
      /\ view'.parses = view.parses
  BY DEF OneMoreOutput, SameTerm
<1>5. CASE view.up
  <2>1. view'.outQ = Append(view.outQ, made + 1) /\ view.outQ \in Seq(Nat)
    BY <1>1, <1>5 DEF OneMoreOutput, IndInv, TypeOK, View
  <2>2. ASSUME NEW a \in Nat, Run(view.outQ, a, made)
        PROVE  Run(view'.outQ, a, made')
    BY <1>2, <2>1, <2>2, RunAppend
  <2>3. view.term.upTo \in Nat /\ \A i \in DOMAIN view.parses : view.parses[i].screen.upTo \in Nat
    <3>1. view.parses \in Seq(Parse) /\ view.term \in Screen
      BY DEF IndInv, TypeOK, View
    <3>2. \A i \in DOMAIN view.parses : view.parses[i] \in Parse
      BY <3>1
    <3> QED
      BY <3>1, <3>2 DEF Parse, Screen
  <2>4. \A i \in DOMAIN view'.parses :
          view'.parses[i].screen.ok /\ Run(view'.outQ, view'.parses[i].screen.upTo, made')
    BY <1>1, <1>4, <2>2, <2>3 DEF RunInv
  <2>5. view'.parses = <<>> /\ view'.term.conn = conn => Run(view'.outQ, view'.term.upTo, made')
    BY <1>1, <1>4, <2>2, <2>3 DEF RunInv
  <2> QED
    BY <1>1, <1>2, <1>3, <1>4, <2>4, <2>5 DEF RunInv
<1>6. CASE ~view.up
  <2>1. view' = Unloaded
    BY <1>1, <1>6 DEF OneMoreOutput, IndInv, LinkInv
  <2> QED
    BY <1>3, <2>1, UnloadedKeepsRun
<1> QED
  BY <1>5, <1>6 DEF IndInv, TypeOK, View

LEMMA StationKeepsRun ==
  ASSUME IndInv, AckInv, RunInv, SizeSteps \/ (StationHandles /\ HandleApplied /\ Head(up).type = Ack)
  PROVE  RunInv'
<1>1. CASE SizeSteps
  <2>1. CASE QuietSize
    BY <2>1, RunStays DEF QuietSize
  <2>2. CASE OneMoreOutput
    BY <2>2, OutputKeepsRun
  <2> QED
    BY <1>1, <2>1, <2>2, SizeStepIs
<1>2. CASE StationHandles /\ HandleApplied /\ Head(up).type = Ack
  <2> DEFINE scr == Written(ScreenOf(kept.snapshot), app.live)
  <2>1. conn # 0 /\ UNCHANGED <<kept, conn, made, missed>> /\ made \in Nat
    BY <1>2 DEF StationHandles, HandleApplied, IndInv, LinkInv, TypeOK
  <2>2. /\ kept.snapshot \in Snapshot /\ scr.conn = conn
        /\ app' = [app EXCEPT !.live = <<>>, !.awaiting = FALSE]
        /\ SameTerm(view', view)
        /\ ~view.up => view' = view
        /\ view.up => Parses(view', "history", scr)
    BY <1>2, <2>1, ScrollbackIs DEF HandleApplied
  <2>3. SUFFICES ASSUME ~missed PROVE RunInv'
    BY <2>1 DEF RunInv
  <2>4. app.awaiting
    <3>1. Among(Ack, up)
      BY <1>2, AmongTail DEF StationHandles, IndInv, TypeOK
    <3> QED
      BY <2>1, <3>1, AckInvIs
  <2>5. Run(app.live, kept.snapshot.upTo, made)
    BY <2>1, <2>3, <2>4 DEF RunInv
  <2>6. scr.ok /\ scr.upTo = made
    <3>1. ScreenOf(kept.snapshot) \in Screen /\ ScreenOf(kept.snapshot).conn = kept.snapshot.conn
          /\ ScreenOf(kept.snapshot).upTo = kept.snapshot.upTo /\ ScreenOf(kept.snapshot).ok
      BY <2>2, ScreenOfType
    <3>2. kept.snapshot.conn = conn /\ app.live \in Seq(Nat)
      BY <2>1, AppIs DEF IndInv, LinkInv
    <3> QED
      BY <2>1, <2>5, <3>1, <3>2, WrittenRun
  <2> HIDE DEF scr
  <2>7. ~app'.awaiting
    BY <2>2 DEF IndInv, TypeOK, App
  <2>8. view'.term.conn = conn => view'.term.ok
    BY <2>1, <2>2, <2>3 DEF RunInv, SameTerm
  <2>9. CASE view.up
    BY <2>1, <2>2, <2>6, <2>7, <2>8, <2>9, RunFilled
  <2>10. CASE ~view.up
    <3>1. view' = Unloaded
      BY <2>2, <2>10 DEF IndInv, LinkInv
    <3> QED
      BY <2>7, <3>1, UnloadedKeepsRun
  <2> QED
    BY <2>9, <2>10 DEF IndInv, TypeOK, View
<1> QED
  BY <1>1, <1>2

LEMMA NextRun == IndInv /\ PaintInv /\ AckInv /\ PipeInv /\ RunInv /\ [Next]_vars => RunInv'
<1> SUFFICES ASSUME IndInv, PaintInv, AckInv, PipeInv, RunInv, [Next]_vars PROVE RunInv'
  OBVIOUS
<1>1. CASE (Document \/ Relayout) /\ UNCHANGED <<state, kept, app, size, startup, reopened, missed, up, stationVars>>
  BY <1>1, DocumentKeepsRun DEF Document
<1>2. CASE (RunEffects \/ PageLoaded \/ Probe \/ StartupTimeout \/ RetryRenderer \/ HandleMessage \/ Remount)
           /\ UNCHANGED stationVars
  BY <1>2, RunEffectsKeepsRun, StartupKeepsRun, MessageKeepsRun
<1>3. CASE Connected \/ Output
  BY <1>3, ConnectedKeepsRun, OutputIs, OutputKeepsRun
<1>4. CASE Lost
  BY <1>4 DEF Lost, RunInv
<1>5. CASE SizeSteps \/ (StationHandles /\ HandleApplied /\ Head(up).type = Ack)
  BY <1>5, StationKeepsRun
<1>6. CASE UNCHANGED vars
  BY <1>6 DEF vars, screenVars, stationVars, RunInv
<1> QED
  BY <1>1, <1>2, <1>3, <1>4, <1>5, <1>6 DEF Next, StationHandles, SizeSteps, Ack

LEMMA Faithful == IndInv /\ PipeInv /\ RunInv => ScreenIsFaithful
<1> SUFFICES ASSUME IndInv, PipeInv, RunInv, conn # 0, ~missed
             PROVE  /\ view.term.conn = conn => view.term.ok
                    /\ Settled => view.term.conn = conn /\ view.term.upTo = made
  BY DEF ScreenIsFaithful
<1>1. ASSUME Settled
      PROVE  view.term.conn = conn /\ view.term.upTo = made
  <2>1. view.term.conn = conn
    BY <1>1 DEF Settled, PipeInv, IndInv, LinkInv
  <2>2. Run(view.outQ, view.term.upTo, made) /\ view.outQ = <<>>
    BY <1>1, <2>1 DEF Settled, RunInv
  <2>3. view.term.upTo \in Nat
    BY DEF IndInv, TypeOK, View, Screen
  <2> QED
    BY <2>1, <2>2, <2>3 DEF Run
<1> QED
  BY <1>1 DEF RunInv

\* The terminal shows the connection's snapshot and all the output that followed,
\* each once and in order.
THEOREM ScreenFaithful == Spec => []ScreenIsFaithful
BY InitInd, NextInd, InitPaint, NextPaint, InitAck, NextAck, InitPipe, NextPipe, InitRun, NextRun, Faithful,
   PTL DEF Spec
=============================================================================
