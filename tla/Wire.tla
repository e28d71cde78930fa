-------------------------------- MODULE Wire --------------------------------
(***************************************************************************)
(* One WebSocket between a phone and the Station: the readyState of its two *)
(* ends, the frames under way in each direction, and the closing handshake. *)
(* Every operator maps the state of a wire to its next state; the modules   *)
(* of the two ends say when.                                                *)
(*                                                                         *)
(* Frames arrive in order or not at all.  close() queues a close frame      *)
(* behind what was sent and leaves the end "closing", still receiving; the  *)
(* close frame shuts the end that receives it, which answers with its own.  *)
(* A wire that breaks loses what is under way, and each end is told by a    *)
(* "close" with code "gone" whenever its network stack notices.             *)
(***************************************************************************)
EXTENDS Naturals, Sequences

CONSTANTS
  Socket,     \* wires between the phone and the Station
  NoSocket    \* "null" where a socket is expected

ASSUME SocketAssumption == NoSocket \notin Socket

VARIABLE net   \* the state of each wire

CloseCodes == {"normal", "rejected", "mismatch", "protocol", "timeout",
               "limit", "policy", "gone"}

Frame(type)      == [type |-> type]
Nonced(type, n) == [type |-> type, nonce |-> n]
CloseFrame(code) == [type |-> "close", code |-> code]

WireFrame ==
  [type : {"upgraded", "hello", "hello-ack", "auth-ok", "terminal-size-owner",
           "resize", "session-snapshot", "output", "alert"}]
  \cup [type : {"auth-challenge", "auth-response"}, nonce : Socket]
  \cup [type : {"close"}, code : CloseCodes]

WireState ==
  [phone : {"connecting", "open", "closing", "closed"},
   station : {"unaware", "open", "closing", "closed"},
   up : Seq(WireFrame), down : Seq(WireFrame), broken : BOOLEAN]

Idle == [phone |-> "closed", station |-> "closed", up |-> <<>>, down |-> <<>>,
         broken |-> FALSE]

\* A wire both of whose ends have shut can be used for another connection.
Settle(w) == IF w.phone = "closed" /\ w.station = "closed" THEN Idle ELSE w

\* new WebSocket(url): the Station has not seen the connection yet.
Dial == [Idle EXCEPT !.phone = "connecting", !.station = "unaware"]

\* The Station accepts the upgrade; the phone's onopen follows the answer.
Accept(w) == [w EXCEPT !.station = "open", !.down = Append(@, Frame("upgraded"))]

\* The connection attempt fails before the Station has seen it.
Refuse(w) == [w EXCEPT !.station = "closed", !.up = <<>>, !.down = <<CloseFrame("gone")>>]

\* send(): an end that is not open, or whose wire is broken, sends nothing.
PhoneSend(w, f) ==
  IF w.phone = "open" /\ ~w.broken THEN [w EXCEPT !.up = Append(@, f)] ELSE w
StationSend(w, f) ==
  IF w.station = "open" /\ ~w.broken THEN [w EXCEPT !.down = Append(@, f)] ELSE w

\* close(code): nothing happens to an end that is closing or closed.
PhoneClose(w, code) ==
  IF w.phone \notin {"connecting", "open"} THEN w
  ELSE [w EXCEPT !.phone = "closing",
                 !.up = IF w.broken \/ w.station = "closed" THEN @
                        ELSE Append(@, CloseFrame(code))]
StationClose(w, code) ==
  IF w.station # "open" THEN w
  ELSE [w EXCEPT !.station = "closing",
                 !.down = IF w.broken \/ w.phone = "closed" THEN @
                          ELSE Append(@, CloseFrame(code))]

\* The end has received the close frame c: it answers, unless it closed first,
\* and its onclose runs.  What its peer still sends has no reader.
PhoneShut(w, c) ==
  Settle([PhoneClose(w, c) EXCEPT !.phone = "closed", !.down = <<>>])
StationShut(w, c) ==
  Settle([StationClose(w, c) EXCEPT !.station = "closed", !.up = <<>>])

\* What each end reads next.
ToPhone(w) == Head(w.down)
ToStation(w) == Head(w.up)
PhoneRead(w) == [w EXCEPT !.down = Tail(@)]
StationRead(w) == [w EXCEPT !.up = Tail(@)]

\* The network, or a process at one of the ends, goes away.
Breakable(w) == ~w.broken /\ w.station \in {"open", "closing"} /\ w.phone # "closed"
Break(w) == [w EXCEPT !.broken = TRUE, !.up = <<CloseFrame("gone")>>,
                      !.down = <<CloseFrame("gone")>>]

\* The Station's process ends: its end is gone at once, the phone is told later.
StationGone(w) ==
  CASE w.station \in {"open", "closing"} ->
         Settle([w EXCEPT !.station = "closed", !.up = <<>>,
                          !.down = IF w.phone = "closed" THEN @ ELSE <<CloseFrame("gone")>>])
    [] w.station = "unaware" -> Refuse(w)
    [] OTHER -> w
=============================================================================
