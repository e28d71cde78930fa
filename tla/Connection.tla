----------------------------- MODULE Connection -----------------------------
(***************************************************************************)
(* A phone, a Station and the network between them: WsClient and            *)
(* StationGate composed over Wire.                                          *)
(***************************************************************************)
EXTENDS WsClient, StationGate

vars == <<net, clientVars, gateVars>>

Init == ClientInit /\ GateInit /\ net = [s \in Socket |-> Idle]

PhoneReceives(s) ==
  \/ OnOpen(s) \/ OnClose(s) \/ OnStaleFrame(s)
  \/ OnHelloAck(s) \/ OnAuthChallenge(s) \/ OnAuthOk(s)
  \/ OnSizeOwner(s) \/ OnResize(s) \/ OnSnapshot(s) \/ OnOutput(s) \/ OnAlert(s)

StationReceives(s) == OnHello(s) \/ OnAuthResponse(s) \/ OnUnheard(s) \/ OnStationClose(s)

ConnectionDecided(s) == OnConnection(s) \/ ConnectionFails(s)

Phone(s) ==
  \/ Connect(s) \/ Retry(s) \/ ReconnectTimerFires(s)
  \/ PhoneReceives(s) \/ NonceSigned(s)
  \/ \E kind \in SigningError : SigningFails(s, kind)

Station(s) ==
  \/ ConnectionDecided(s) \/ StationReceives(s) \/ HandshakeTimeout(s)
  \/ SnapshotCaptured(s) \/ SweepRevoked(s)
  \/ \E type \in {"output", "resize", "terminal-size-owner", "alert"} : Publish(s, type)

\* The network between the ends of s goes away.
ConnectionLost(s) ==
  /\ Breakable(net[s])
  /\ net' = [net EXCEPT ![s] = Break(@)]
  /\ UNCHANGED <<clientVars, gateVars>>

Next ==
  \/ Disconnect /\ UNCHANGED gateVars
  \/ \E s \in Socket : Phone(s) /\ UNCHANGED gateVars
  \/ \E s \in Socket : Station(s) /\ UNCHANGED clientVars
  \/ \E s \in Socket : ConnectionLost(s)
  \/ (Revoke \/ Restart) /\ UNCHANGED clientVars

\* What the runtime of each end does sooner or later: frames and close events
\* are delivered, timers fire, a connection attempt succeeds or fails, the
\* parser queue reaches a capture, the sweep comes round.  Nothing is assumed
\* of the user, of the biometric prompt, or of the network's reliability.
Runtime(s) ==
  \/ /\ net[s].down # <<>> /\ UNCHANGED gateVars
     /\ PhoneReceives(s)
  \/ /\ UNCHANGED clientVars
     /\ \/ net[s].up # <<>> /\ StationReceives(s)
        \/ ConnectionDecided(s) \/ HandshakeTimeout(s)

Fairness ==
  /\ \A s \in Socket : WF_vars(Runtime(s))
  /\ WF_vars(/\ UNCHANGED clientVars
             /\ \E s \in Socket : SnapshotCaptured(s) \/ SweepRevoked(s))
  /\ WF_vars(timers > 0 /\ UNCHANGED gateVars /\ \E s \in Socket : ReconnectTimerFires(s))

Spec == Init /\ [][Next]_vars /\ Fairness

-----------------------------------------------------------------------------
(* Properties                                                                *)

TypeOK ==
  /\ net \in [Socket -> WireState]
  /\ state \in ConnectionState /\ retries \in 0..MaxRetries /\ timers \in Nat
  /\ ws \in Socket \cup {NoSocket} /\ handshake \in HandshakeState /\ sized \in BOOLEAN
  /\ suppressed \in BOOLEAN /\ authRejected \in BOOLEAN /\ deliberate \in BOOLEAN
  /\ errorKind \in ErrorKind /\ prompts \subseteq Socket
  /\ stage \in [Socket -> Stage] /\ armed \subseteq Socket
  /\ bound \in BOOLEAN /\ sameVersion \in BOOLEAN

\* The phone and the Station agree on the protocol: whatever the order in which
\* sockets are replaced, signatures arrive and frames cross, the phone never
\* closes a connection with PROTOCOL_ERROR (wsClient.ts handleFrame).
NoProtocolError ==
  \A s \in Socket : \A i \in DOMAIN net[s].up : net[s].up[i] # CloseFrame("protocol")

\* At most one attempt is under way: never a reconnect timer beside a current
\* socket or a second timer, and no socket other than the current one that the
\* phone has not at least begun to close.
OneAttempt ==
  /\ timers <= IF ws = NoSocket THEN 1 ELSE 0
  /\ \A s \in Socket : net[s].phone \in {"connecting", "open"} => IsCurrent(s)

\* A connection that failed rests until the user acts: no timer is armed, no new
\* socket is opened, and the close event of the socket it failed on does not
\* bring it back.
FailedRests ==
  [][state = "failed" => \/ state' \in {"connecting", "disconnected"}
                         \/ state' = "failed" /\ timers' = 0 /\ ws' \in {ws, NoSocket}]_vars

\* The phone asks for a new pairing only when its binding was revoked: neither a
\* stale signature nor a timeout, a restart or a lost connection makes the
\* Station reject a device it knows.
RejectedOnlyIfRevoked == authRejected => ~bound

\* An attempt to connect comes to an end, though the user may never answer the
\* biometric prompt: connected, failed, or given up.
AttemptEnds ==
  state \in {"connecting", "reconnecting"} ~> state \in {"connected", "failed", "disconnected"}

\* A device whose binding is revoked does not stay attached to the Session.
RevokedIsDetached == <>[](bound \/ \A s \in Socket : stage[s] # "attached")
=============================================================================
