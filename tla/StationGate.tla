----------------------------- MODULE StationGate -----------------------------
(***************************************************************************)
(* The Station's side of a connection up to its first live frames: the      *)
(* WebSocket server with its limit (ws.ts), the handshake with its timeout  *)
(* (sessionHandshake.ts), the verification of a Device Key (auth.ts), and   *)
(* of the Session (session.ts) the attach, reduced to the frames it sends,  *)
(* and the sweep that disconnects revoked devices.                          *)
(*                                                                         *)
(* An action is one callback of the Station's event loop.  ws.close does    *)
(* not stop the listeners: a frame of a socket that is closing is still     *)
(* handled.                                                                 *)
(***************************************************************************)
EXTENDS Wire, FiniteSets

CONSTANTS
  MaxConnections,   \* options.maxConnections ?? 32
  MaxOthers         \* sockets of other phones and of reachability probes, at most
ASSUME GateAssumption == MaxConnections \in Nat /\ MaxOthers \in Nat

VARIABLES
  stage,         \* the listener each socket has: what the Station expects of it
  armed,         \* sockets whose handshake timer is running
  bound,         \* the device's binding is in the repository
  sameVersion    \* the Station speaks the phone's protocol version

gateVars == <<stage, armed, bound, sameVersion>>

Stage == {"none", "hello", "auth-response", "deaf", "capturing", "attached"}

GateInit ==
  /\ stage = [s \in Socket |-> "none"] /\ armed = {}
  /\ bound = TRUE /\ sameVersion = TRUE

\* wss.clients
Clients == {s \in Socket : net[s].station \in {"open", "closing"}}

-----------------------------------------------------------------------------
(* Connections                                                               *)

\* Fault: the handshake has no timer.
WelcomeUntimed(s) ==
  /\ net' = [net EXCEPT ![s] = Accept(@)]
  /\ stage' = [stage EXCEPT ![s] = "hello"]
  /\ UNCHANGED armed

\* Any other client starts its handshake.
Welcome(s) ==
  /\ net' = [net EXCEPT ![s] = Accept(@)]
  /\ stage' = [stage EXCEPT ![s] = "hello"]
  /\ armed' = armed \cup {s}

\* One client too many is closed at once.
TurnAway(s) ==
  /\ net' = [net EXCEPT ![s] = StationClose(Accept(@), "limit")]
  /\ stage' = [stage EXCEPT ![s] = "deaf"]
  /\ UNCHANGED armed

\* Other phones and probes come and go: any number of them may be connected now.
OnConnection(s) ==
  /\ net[s].station = "unaware"
  /\ \E others \in 0..MaxOthers :
       IF Cardinality(Clients) + others + 1 > MaxConnections THEN TurnAway(s) ELSE Welcome(s)
  /\ UNCHANGED <<bound, sameVersion>>

\* The network, or a Station that is not running, fails the attempt.
ConnectionFails(s) ==
  /\ net[s].station = "unaware"
  /\ net' = [net EXCEPT ![s] = Refuse(@)]
  /\ UNCHANGED gateVars

-----------------------------------------------------------------------------
(* The handshake                                                             *)

StationHears(s, type) ==
  /\ net[s].station \in {"open", "closing"}
  /\ net[s].up # <<>> /\ ToStation(net[s]).type = type

\* handleHello, then startAuthChallenge; the nonce is the socket's own.
OnHello(s) ==
  /\ StationHears(s, "hello") /\ stage[s] = "hello"
  /\ IF sameVersion
       THEN /\ net' = [net EXCEPT ![s] =
                         StationSend(StationSend(StationRead(@), Frame("hello-ack")),
                                     Nonced("auth-challenge", s))]
            /\ stage' = [stage EXCEPT ![s] = "auth-response"]
       ELSE /\ net' = [net EXCEPT ![s] = StationClose(StationRead(@), "mismatch")]
            /\ stage' = [stage EXCEPT ![s] = "deaf"]
  /\ UNCHANGED <<armed, bound, sameVersion>>

\* Fault: the key is remembered, the binding is not looked up again.
VerifiedFromCache(s, f) == f.nonce = s

\* AuthManager.verifyResponse: the device is bound, and signed this socket's nonce.
Verified(s, f) == bound /\ f.nonce = s

\* attachAuthenticated, up to the request for a snapshot.
SendAttach(w) == StationSend(StationSend(StationSend(w,
                   Frame("auth-ok")), Frame("terminal-size-owner")), Frame("resize"))

OnAuthResponse(s) ==
  /\ StationHears(s, "auth-response") /\ stage[s] = "auth-response"
  /\ IF Verified(s, ToStation(net[s]))
       THEN /\ armed' = armed \ {s}
            /\ net' = [net EXCEPT ![s] = SendAttach(StationRead(@))]
            /\ stage' = [stage EXCEPT ![s] = "capturing"]
       ELSE /\ net' = [net EXCEPT ![s] = StationClose(StationRead(@), "rejected")]
            /\ stage' = [stage EXCEPT ![s] = "deaf"]
            /\ UNCHANGED armed
  /\ UNCHANGED <<bound, sameVersion>>

\* A socket turned away has no listener: what it sends is read and dropped.
OnUnheard(s) ==
  /\ stage[s] = "deaf" /\ \E type \in {"hello", "auth-response"} : StationHears(s, type)
  /\ net' = [net EXCEPT ![s] = StationRead(@)]
  /\ UNCHANGED gateVars

HandshakeTimeout(s) ==
  /\ s \in armed
  /\ armed' = armed \ {s}
  /\ net' = [net EXCEPT ![s] = StationClose(@, "timeout")]
  /\ UNCHANGED <<stage, bound, sameVersion>>

\* The socket closes, by the peer's close frame or by an error.
OnStationClose(s) ==
  /\ StationHears(s, "close")
  /\ net' = [net EXCEPT ![s] = StationShut(@, ToStation(@).code)]
  /\ stage' = [stage EXCEPT ![s] = "none"]
  /\ armed' = armed \ {s}
  /\ UNCHANGED <<bound, sameVersion>>

-----------------------------------------------------------------------------
(* The Session                                                               *)

\* The parser queue reaches the capture: the snapshot goes out, and the viewer
\* subscribes; a viewer whose socket is no longer open is detached instead.
SnapshotCaptured(s) ==
  /\ stage[s] = "capturing"
  /\ net' = [net EXCEPT ![s] = StationSend(@, Frame("session-snapshot"))]
  /\ stage' = [stage EXCEPT ![s] = IF net[s].station = "open" THEN "attached" ELSE "deaf"]
  /\ UNCHANGED <<armed, bound, sameVersion>>

\* Live frames go to subscribers, ownership notices to viewers being attached too.
Publish(s, type) ==
  /\ stage[s] = "attached" \/ (stage[s] = "capturing" /\ type = "terminal-size-owner")
  /\ net[s].station = "open" /\ net[s].down = <<>>
  /\ net' = [net EXCEPT ![s] = StationSend(@, Frame(type))]
  /\ UNCHANGED gateVars

\* enforceBindingRevocation, for one of the authenticated sockets.
SweepRevoked(s) ==
  /\ stage[s] \in {"capturing", "attached"} /\ net[s].station = "open" /\ ~bound
  /\ net' = [net EXCEPT ![s] = StationClose(@, "rejected")]
  /\ UNCHANGED gateVars

\* "mobily --revoke-binding" in another process.
Revoke ==
  /\ bound /\ bound' = FALSE
  /\ UNCHANGED <<net, stage, armed, sameVersion>>

\* The Station stops and is started again, perhaps after an update.
Restart ==
  /\ net' = [s \in Socket |-> StationGone(net[s])]
  /\ stage' = [s \in Socket |-> "none"] /\ armed' = {}
  /\ sameVersion' \in BOOLEAN
  /\ UNCHANGED bound
=============================================================================
