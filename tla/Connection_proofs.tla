-------------------------- MODULE Connection_proofs --------------------------
(***************************************************************************)
(* Theorems about Connection, for any number of sockets, any limit of        *)
(* retries and of connections.                                               *)
(***************************************************************************)
EXTENDS Connection, SequenceTheorems, TLAPS

USE SocketAssumption, RetriesAssumption, GateAssumption

-----------------------------------------------------------------------------
(* Type correctness                                                          *)

LEMMA FramesTyped ==
  /\ \A type \in {"upgraded", "hello", "hello-ack", "auth-ok", "terminal-size-owner",
                  "resize", "session-snapshot", "output", "alert"} : Frame(type) \in WireFrame
  /\ \A s \in Socket : /\ Nonced("auth-challenge", s) \in WireFrame
                       /\ Nonced("auth-response", s) \in WireFrame
  /\ \A code \in CloseCodes : CloseFrame(code) \in WireFrame
BY DEF Frame, Nonced, CloseFrame, WireFrame

LEMMA CloseCodeTyped ==
  ASSUME NEW f \in WireFrame, f.type = "close"
  PROVE  f.code \in CloseCodes
BY DEF WireFrame

\* A queue of frames stays one when a frame is appended or read.
LEMMA QueuesTyped ==
  ASSUME NEW q \in Seq(WireFrame)
  PROVE  /\ \A f \in WireFrame : Append(q, f) \in Seq(WireFrame)
         /\ q # <<>> => Head(q) \in WireFrame /\ Tail(q) \in Seq(WireFrame)
BY HeadTailProperties

LEMMA NewQueuesTyped ==
  /\ <<>> \in Seq(WireFrame)
  /\ \A f \in WireFrame : <<f>> \in Seq(WireFrame)
OBVIOUS

LEMMA WireTyped ==
  ASSUME NEW w \in WireState
  PROVE  /\ w.up \in Seq(WireFrame) /\ w.down \in Seq(WireFrame)
         /\ w.phone \in {"connecting", "open", "closing", "closed"}
         /\ w.station \in {"unaware", "open", "closing", "closed"}
         /\ w.broken \in BOOLEAN
BY DEF WireState

LEMMA IdleTyped == Idle \in WireState /\ Dial \in WireState
BY NewQueuesTyped DEF Idle, Dial, WireState

\* Every operation on a wire yields a wire.
LEMMA OperationsTyped ==
  ASSUME NEW w \in WireState
  PROVE  /\ Settle(w) \in WireState /\ Accept(w) \in WireState /\ Refuse(w) \in WireState
         /\ Break(w) \in WireState
         /\ w.down # <<>> => PhoneRead(w) \in WireState
         /\ w.up # <<>> => StationRead(w) \in WireState
         /\ \A f \in WireFrame : PhoneSend(w, f) \in WireState /\ StationSend(w, f) \in WireState
         /\ \A c \in CloseCodes : PhoneClose(w, c) \in WireState /\ StationClose(w, c) \in WireState
<1>1. Settle(w) \in WireState
  BY IdleTyped DEF Settle
<1>2. Accept(w) \in WireState /\ Refuse(w) \in WireState /\ Break(w) \in WireState
  BY FramesTyped, QueuesTyped, NewQueuesTyped DEF Accept, Refuse, Break, WireState, CloseCodes
<1>3. /\ w.down # <<>> => PhoneRead(w) \in WireState
      /\ w.up # <<>> => StationRead(w) \in WireState
  BY QueuesTyped DEF PhoneRead, StationRead, WireState
<1>4. \A f \in WireFrame : PhoneSend(w, f) \in WireState /\ StationSend(w, f) \in WireState
  BY QueuesTyped DEF PhoneSend, StationSend, WireState
<1>5. \A c \in CloseCodes : PhoneClose(w, c) \in WireState /\ StationClose(w, c) \in WireState
  BY FramesTyped, QueuesTyped DEF PhoneClose, StationClose, WireState
<1> QED BY <1>1, <1>2, <1>3, <1>4, <1>5

\* Closing an end for good, by the peer's close frame or because it is gone.
LEMMA ShutTyped ==
  ASSUME NEW w \in WireState
  PROVE  /\ \A c \in CloseCodes : PhoneShut(w, c) \in WireState /\ StationShut(w, c) \in WireState
         /\ StationGone(w) \in WireState
<1>1. ASSUME NEW c \in CloseCodes
      PROVE  PhoneShut(w, c) \in WireState /\ StationShut(w, c) \in WireState
  <2>1. PhoneClose(w, c) \in WireState /\ StationClose(w, c) \in WireState
    BY OperationsTyped
  <2>2. [PhoneClose(w, c) EXCEPT !.phone = "closed", !.down = <<>>] \in WireState
    BY <2>1, NewQueuesTyped DEF WireState
  <2>3. [StationClose(w, c) EXCEPT !.station = "closed", !.up = <<>>] \in WireState
    BY <2>1, NewQueuesTyped DEF WireState
  <2> QED BY <2>2, <2>3, OperationsTyped DEF PhoneShut, StationShut
<1>2. [w EXCEPT !.station = "closed", !.up = <<>>,
                !.down = IF w.phone = "closed" THEN @ ELSE <<CloseFrame("gone")>>] \in WireState
  BY FramesTyped, NewQueuesTyped DEF WireState, CloseCodes
<1>3. StationGone(w) \in WireState
  BY <1>2, OperationsTyped DEF StationGone
<1> QED BY <1>1, <1>3

\* One wire of the network changes.
NetOK == net \in [Socket -> WireState]

\* What is heard is a frame of a queue that is not empty.
LEMMA Heard ==
  ASSUME NetOK, NEW s \in Socket, NEW type
  PROVE  /\ net[s] \in WireState
         /\ PhoneHears(s, type) => /\ net[s].down # <<>> /\ ToPhone(net[s]) \in WireFrame
                                   /\ ToPhone(net[s]).type = type
                                   /\ PhoneRead(net[s]) \in WireState
         /\ StationHears(s, type) => /\ net[s].up # <<>> /\ ToStation(net[s]) \in WireFrame
                                     /\ ToStation(net[s]).type = type
                                     /\ StationRead(net[s]) \in WireState
BY WireTyped, OperationsTyped, QueuesTyped DEF NetOK, PhoneHears, StationHears, ToPhone, ToStation

CountOK == retries \in 0..MaxRetries /\ timers \in Nat
ClientOK ==
  /\ state \in ConnectionState
  /\ ws \in Socket \cup {NoSocket} /\ handshake \in HandshakeState /\ sized \in BOOLEAN
  /\ suppressed \in BOOLEAN /\ authRejected \in BOOLEAN /\ deliberate \in BOOLEAN
  /\ errorKind \in ErrorKind /\ prompts \subseteq Socket
GateOK ==
  /\ stage \in [Socket -> Stage] /\ armed \subseteq Socket
  /\ bound \in BOOLEAN /\ sameVersion \in BOOLEAN

LEMMA TypeSplit == TypeOK <=> NetOK /\ CountOK /\ ClientOK /\ GateOK
BY DEF TypeOK, NetOK, CountOK, ClientOK, GateOK

LEMMA TypeSplitNext == TypeOK' <=> NetOK' /\ CountOK' /\ ClientOK' /\ GateOK'
BY DEF TypeOK, NetOK, CountOK, ClientOK, GateOK

\* What an action may do to the number of attempts and of timers.
CountStep ==
  /\ \/ retries' = 0 \/ retries' = retries
     \/ retries < MaxRetries /\ retries' = retries + 1
  /\ \/ timers' = timers \/ timers' = timers + 1 \/ timers' = TimerCleared
     \/ timers > 0 /\ timers' = timers - 1

LEMMA CountStepType ==
  ASSUME CountOK, CountStep
  PROVE  CountOK'
BY DEF CountOK, CountStep, TimerCleared

\* Every callback of the phone counts one attempt or one timer at a time.
LEMMA PhoneCounts ==
  ASSUME NEW s \in Socket, Phone(s)
  PROVE  CountStep
<1> USE DEF CountStep, attemptVars
<1>1. CASE Connect(s) \/ Retry(s) \/ ReconnectTimerFires(s)
  BY <1>1, Zenon DEF Connect, Retry, ReconnectTimerFires, StartAttempts
<1>2. CASE OnClose(s)
  <2>1. \/ UNCHANGED clientVars \/ UNCHANGED attemptVars \/ ScheduleReconnect
    BY <1>2, Zenon DEF OnClose
  <2> QED BY <2>1, Zenon DEF ScheduleReconnect, clientVars
<1>3. CASE \/ OnOpen(s) \/ OnStaleFrame(s)
           \/ OnHelloAck(s) \/ OnAuthChallenge(s) \/ OnAuthOk(s) \/ OnSizeOwner(s)
           \/ OnResize(s) \/ OnSnapshot(s) \/ OnOutput(s) \/ OnAlert(s)
  BY <1>3, Zenon
     DEF OnOpen, OnStaleFrame, OnHelloAck, OnAuthChallenge, OnAuthOk, OnSizeOwner, OnResize,
         OnSnapshot, OnOutput, OnAlert, Handles, HandshakeGoesTo, clientVars
<1>4. CASE NonceSigned(s) \/ \E kind \in SigningError : SigningFails(s, kind)
  BY <1>4, Zenon DEF NonceSigned, SigningFails
<1> QED BY <1>1, <1>2, <1>3, <1>4 DEF Phone, PhoneReceives

\* Reading a frame the phone expects, or closing with PROTOCOL_ERROR.
LEMMA HandlesNetTyped ==
  ASSUME NetOK, NEW s \in Socket, NEW type, PhoneHears(s, type)
  PROVE  /\ Reading(s) => NetOK'
         /\ net' = [net EXCEPT ![s] = PhoneClose(PhoneRead(@), "protocol")] => NetOK'
<1>1. PhoneRead(net[s]) \in WireState
  BY Heard
<1>2. PhoneClose(PhoneRead(net[s]), "protocol") \in WireState
  BY <1>1, OperationsTyped DEF CloseCodes
<1> QED BY <1>1, <1>2 DEF NetOK, Reading

LEMMA PhoneEventType ==
  ASSUME NetOK, ClientOK, NEW s \in Socket, PhoneReceives(s)
  PROVE  NetOK' /\ ClientOK'
<1>0. net[s] \in WireState
  BY DEF NetOK
<1>1. CASE OnOpen(s)
  <2> DEFINE opened == [PhoneRead(net[s]) EXCEPT !.phone = IF @ = "connecting" THEN "open" ELSE @]
  <2>1. PhoneRead(net[s]) \in WireState
    BY <1>1, Heard DEF OnOpen
  <2>2. opened \in WireState
    BY <2>1 DEF WireState
  <2>3. PhoneSend(opened, Frame("hello")) \in WireState
    BY <2>2, OperationsTyped, FramesTyped
  <2>4. net' = [net EXCEPT ![s] = IF IsCurrent(s) THEN PhoneSend(opened, Frame("hello")) ELSE opened]
    BY <1>1 DEF OnOpen
  <2> HIDE DEF opened
  <2>5. NetOK'
    BY <2>2, <2>3, <2>4 DEF NetOK
  <2> QED BY <1>1, <2>5 DEF OnOpen, ClientOK, clientVars, attemptVars, flagVars
<1>2. CASE OnClose(s)
  <2> DEFINE code == ToPhone(net[s]).code
  <2>1. code \in CloseCodes
    BY <1>2, Heard, CloseCodeTyped DEF OnClose
  <2>2. PhoneShut(net[s], code) \in WireState
    BY <2>1, <1>0, ShutTyped
  <2>3. NetOK'
    BY <1>2, <2>2 DEF OnClose, NetOK
  <2>4. ClientOK'
    <3> USE DEF ClientOK
    <3>1. CASE ~IsCurrent(s)
      BY <1>2, <3>1 DEF OnClose, clientVars, attemptVars, flagVars
    <3>2. CASE IsCurrent(s)
      <4>1. /\ ws' = NoSocket /\ handshake' = "idle"
            /\ UNCHANGED <<sized, suppressed, deliberate, prompts>>
        BY <1>2, <3>2 DEF OnClose
      <4>2. \/ /\ state' \in {"disconnected", state, "failed"} /\ UNCHANGED attemptVars
               /\ errorKind' \in {errorKind, "auth-rejection", "version-mismatch"}
               /\ authRejected' \in {authRejected, TRUE}
            \/ ScheduleReconnect /\ UNCHANGED authRejected
        BY <1>2, <3>2, Zenon DEF OnClose
      <4>3. state' \in ConnectionState /\ errorKind' \in ErrorKind /\ authRejected' \in BOOLEAN
        BY <4>2 DEF ScheduleReconnect, ConnectionState, ErrorKind
      <4> QED BY <4>1, <4>3 DEF HandshakeState
    <3> QED BY <3>1, <3>2
  <2> QED BY <2>3, <2>4
<1>3. CASE OnStaleFrame(s)
  BY <1>3, HandlesNetTyped DEF OnStaleFrame, ClientOK, clientVars, attemptVars, flagVars
<1>4. CASE \/ OnHelloAck(s) \/ OnAuthChallenge(s) \/ OnAuthOk(s) \/ OnSizeOwner(s)
           \/ OnResize(s) \/ OnSnapshot(s) \/ OnOutput(s) \/ OnAlert(s)
  <2>1. NetOK'
    BY <1>4, HandlesNetTyped
       DEF OnHelloAck, OnAuthChallenge, OnAuthOk, OnSizeOwner, OnResize, OnSnapshot, OnOutput,
           OnAlert, Handles
  <2>2. CASE OnResize(s)
    <3>1. UNCHANGED <<state, ws, handshake, suppressed, authRejected, deliberate, errorKind, prompts>>
      BY <2>2, Zenon DEF OnResize, Handles, clientVars, flagVars
    <3>2. sized' = (sized \/ handshake = "awaiting-snapshot") \/ sized' = sized
      BY <2>2, Zenon DEF OnResize, Handles, clientVars
    <3>3. sized' \in BOOLEAN
      BY <3>2, Zenon DEF ClientOK
    <3> QED BY <2>1, <3>1, <3>3 DEF ClientOK
  <2>3. CASE \/ OnHelloAck(s) \/ OnAuthChallenge(s) \/ OnAuthOk(s) \/ OnSizeOwner(s)
             \/ OnSnapshot(s) \/ OnOutput(s) \/ OnAlert(s)
    BY <2>1, <2>3
       DEF OnHelloAck, OnAuthChallenge, OnAuthOk, OnSizeOwner, OnSnapshot, OnOutput,
           OnAlert, Handles, HandshakeGoesTo, ClientOK, clientVars, attemptVars, flagVars,
           HandshakeState, ConnectionState
  <2> QED BY <1>4, <2>2, <2>3
<1> QED BY <1>1, <1>2, <1>3, <1>4 DEF PhoneReceives

LEMMA CurrentClosedTyped ==
  ASSUME NetOK
  PROVE  CurrentClosed \in [Socket -> WireState]
BY OperationsTyped DEF NetOK, CurrentClosed, CloseCodes

LEMMA PhoneType ==
  ASSUME NetOK, ClientOK, NEW s \in Socket, Phone(s)
  PROVE  NetOK' /\ ClientOK'
<1>0. net[s] \in WireState
  BY DEF NetOK
<1>1. CASE Connect(s)
  BY <1>1, IdleTyped, CurrentClosedTyped
     DEF Connect, StartAttempts, OpenSocket, TimerCleared, NetOK, ClientOK,
         ConnectionState, HandshakeState, ErrorKind
<1>2. CASE Retry(s)
  BY <1>2, IdleTyped
     DEF Retry, StartAttempts, OpenSocket, TimerCleared, NetOK, ClientOK,
         ConnectionState, HandshakeState, ErrorKind
<1>3. CASE ReconnectTimerFires(s)
  BY <1>3, IdleTyped
     DEF ReconnectTimerFires, OpenSocket, NetOK, ClientOK, ConnectionState, HandshakeState
<1>4. CASE PhoneReceives(s)
  BY <1>4, PhoneEventType
<1>5. CASE NonceSigned(s)
  <2>1. PhoneSend(net[s], Nonced("auth-response", s)) \in WireState
    BY <1>0, OperationsTyped, FramesTyped
  <2> QED BY <1>5, <2>1 DEF NonceSigned, NetOK, ClientOK, attemptVars, flagVars, HandshakeState
<1>6. ASSUME NEW kind \in SigningError, SigningFails(s, kind)
      PROVE  NetOK' /\ ClientOK'
  <2>1. PhoneClose(net[s], "policy") \in WireState
    BY <1>0, OperationsTyped DEF CloseCodes
  <2> QED BY <1>6, <2>1 DEF SigningFails, NetOK, ClientOK, attemptVars, ErrorKind, ConnectionState
<1> QED BY <1>1, <1>2, <1>3, <1>4, <1>5, <1>6 DEF Phone

LEMMA StationType ==
  ASSUME NetOK, GateOK, NEW s \in Socket, Station(s)
  PROVE  NetOK' /\ GateOK'
<1> USE DEF GateOK, gateVars, Stage
<1>0. net[s] \in WireState
  BY DEF NetOK
<1>1. CASE OnConnection(s)
  <2>1. Accept(net[s]) \in WireState /\ StationClose(Accept(net[s]), "limit") \in WireState
    BY <1>0, OperationsTyped DEF CloseCodes
  <2> QED BY <1>1, <2>1 DEF OnConnection, Welcome, TurnAway, NetOK
<1>2. CASE ConnectionFails(s)
  BY <1>0, <1>2, OperationsTyped DEF ConnectionFails, NetOK
<1>3. CASE OnHello(s)
  <2>1. StationRead(net[s]) \in WireState
    BY <1>3, Heard DEF OnHello
  <2>2. StationSend(StationRead(net[s]), Frame("hello-ack")) \in WireState
    BY <2>1, OperationsTyped, FramesTyped
  <2>3. StationSend(StationSend(StationRead(net[s]), Frame("hello-ack")),
                    Nonced("auth-challenge", s)) \in WireState
    BY <2>2, OperationsTyped, FramesTyped
  <2>4. StationClose(StationRead(net[s]), "mismatch") \in WireState
    BY <2>1, OperationsTyped DEF CloseCodes
  <2> QED BY <1>3, <2>3, <2>4 DEF OnHello, NetOK
<1>4. CASE OnAuthResponse(s)
  <2>1. StationRead(net[s]) \in WireState
    BY <1>4, Heard DEF OnAuthResponse
  <2>2. StationSend(StationRead(net[s]), Frame("auth-ok")) \in WireState
    BY <2>1, OperationsTyped, FramesTyped
  <2>3. StationSend(StationSend(StationRead(net[s]), Frame("auth-ok")),
                    Frame("terminal-size-owner")) \in WireState
    BY <2>2, OperationsTyped, FramesTyped
  <2>4. SendAttach(StationRead(net[s])) \in WireState
    BY <2>3, OperationsTyped, FramesTyped DEF SendAttach
  <2>5. StationClose(StationRead(net[s]), "rejected") \in WireState
    BY <2>1, OperationsTyped DEF CloseCodes
  <2> QED BY <1>4, <2>4, <2>5 DEF OnAuthResponse, NetOK
<1>5. CASE OnUnheard(s)
  <2>1. StationRead(net[s]) \in WireState
    BY <1>5, Heard DEF OnUnheard
  <2> QED BY <1>5, <2>1 DEF OnUnheard, NetOK
<1>6. CASE OnStationClose(s)
  <2>1. ToStation(net[s]).code \in CloseCodes
    BY <1>6, Heard, CloseCodeTyped DEF OnStationClose
  <2>2. StationShut(net[s], ToStation(net[s]).code) \in WireState
    BY <1>0, <2>1, ShutTyped
  <2> QED BY <1>6, <2>2 DEF OnStationClose, NetOK
<1>7. CASE HandshakeTimeout(s)
  <2>1. StationClose(net[s], "timeout") \in WireState
    BY <1>0, OperationsTyped DEF CloseCodes
  <2> QED BY <1>7, <2>1 DEF HandshakeTimeout, NetOK
<1>8. CASE SnapshotCaptured(s)
  <2>1. StationSend(net[s], Frame("session-snapshot")) \in WireState
    BY <1>0, OperationsTyped, FramesTyped
  <2> QED BY <1>8, <2>1 DEF SnapshotCaptured, NetOK
<1>9. CASE SweepRevoked(s)
  <2>1. StationClose(net[s], "rejected") \in WireState
    BY <1>0, OperationsTyped DEF CloseCodes
  <2> QED BY <1>9, <2>1 DEF SweepRevoked, NetOK
<1>10. ASSUME NEW type \in {"output", "resize", "terminal-size-owner", "alert"}, Publish(s, type)
       PROVE  NetOK' /\ GateOK'
  <2>1. StationSend(net[s], Frame(type)) \in WireState
    BY <1>0, OperationsTyped, FramesTyped
  <2> QED BY <1>10, <2>1 DEF Publish, NetOK
<1> QED BY <1>1, <1>2, <1>3, <1>4, <1>5, <1>6, <1>7, <1>8, <1>9, <1>10
        DEF Station, ConnectionDecided, StationReceives

LEMMA TypeStep == TypeOK /\ [Next]_vars => TypeOK'
<1> SUFFICES ASSUME NetOK, CountOK, ClientOK, GateOK, [Next]_vars
             PROVE  NetOK' /\ CountOK' /\ ClientOK' /\ GateOK'
  BY TypeSplit, TypeSplitNext
<1> HIDE DEF CountOK
<1>0. CountOK'
  <2>1. CASE Disconnect
    BY <2>1, CountStepType DEF Disconnect, CountStep
  <2>2. ASSUME NEW s \in Socket, Phone(s)
        PROVE  CountOK'
    BY <2>2, PhoneCounts, CountStepType
  <2>3. CASE UNCHANGED clientVars
    BY <2>3 DEF clientVars, attemptVars, CountOK
  <2> QED BY <2>1, <2>2, <2>3 DEF Next, ConnectionLost, vars
<1> USE DEF ClientOK, GateOK, clientVars, attemptVars, flagVars, gateVars
<1>1. CASE Disconnect /\ UNCHANGED gateVars
  BY <1>0, <1>1, CurrentClosedTyped
     DEF Disconnect, TimerCleared, NetOK, ConnectionState, HandshakeState, ErrorKind
<1>2. ASSUME NEW s \in Socket, Phone(s) /\ UNCHANGED gateVars
      PROVE  NetOK' /\ ClientOK' /\ GateOK'
  BY <1>2, PhoneType
<1>3. ASSUME NEW s \in Socket, Station(s) /\ UNCHANGED clientVars
      PROVE  NetOK' /\ ClientOK' /\ GateOK'
  BY <1>3, StationType
<1>4. ASSUME NEW s \in Socket, ConnectionLost(s)
      PROVE  NetOK' /\ ClientOK' /\ GateOK'
  BY <1>4, OperationsTyped DEF ConnectionLost, NetOK
<1>5. CASE Revoke /\ UNCHANGED clientVars
  BY <1>0, <1>5 DEF Revoke, NetOK
<1>6. CASE Restart /\ UNCHANGED clientVars
  BY <1>0, <1>6, ShutTyped DEF Restart, NetOK, Stage
<1>7. CASE UNCHANGED vars
  BY <1>0, <1>7 DEF vars, NetOK
<1> QED BY <1>0, <1>1, <1>2, <1>3, <1>4, <1>5, <1>6, <1>7 DEF Next

\* The variables keep their types: wires, frames and counters are well formed in
\* every state, with any number of sockets and any limits.
THEOREM TypeCorrect == Spec => []TypeOK
<1>1. Init => TypeOK
  <2>1. ASSUME Init PROVE NetOK /\ CountOK
    BY <2>1, IdleTyped DEF Init, ClientInit, NetOK, CountOK
  <2>2. ASSUME Init PROVE ClientOK /\ GateOK
    BY <2>2 DEF Init, ClientInit, GateInit, ClientOK, GateOK, ConnectionState, HandshakeState,
                ErrorKind, Stage
  <2> QED BY <2>1, <2>2, TypeSplit
<1> QED BY <1>1, TypeStep, PTL DEF Spec

-----------------------------------------------------------------------------
(* The attempts of the phone                                                 *)

\* What the phone's variables say of each other: which states have a socket, a
\* timer or a socket that is not yet closing.
AttemptInv ==
  /\ OneAttempt
  /\ timers > 0 => state = "reconnecting"
  /\ deliberate => state = "disconnected"
  /\ state = "disconnected" => ws = NoSocket
  /\ state = "failed" =>
       /\ \A s \in Socket : net[s].phone \notin {"connecting", "open"}
       /\ ws # NoSocket => suppressed /\ handshake = "signing-challenge" /\ ws \notin prompts
  /\ suppressed => state = "failed"

\* An end of the phone that it has not begun to close.
Live(w) == w.phone \in {"connecting", "open"}

\* Of the operations on a wire only those of the phone's end change its phone.
LEMMA PhoneEnd ==
  ASSUME NEW w \in WireState
  PROVE  /\ Accept(w).phone = w.phone /\ Refuse(w).phone = w.phone /\ Break(w).phone = w.phone
         /\ StationRead(w).phone = w.phone /\ PhoneRead(w).phone = w.phone
         /\ StationGone(w).phone = w.phone
         /\ \A f : StationSend(w, f).phone = w.phone /\ PhoneSend(w, f).phone = w.phone
         /\ \A c : /\ StationClose(w, c).phone = w.phone
                   /\ StationShut(w, c).phone = w.phone
                   /\ ~Live(PhoneClose(w, c)) /\ ~Live(PhoneShut(w, c))
<1> USE DEF WireState, Live
<1>1. /\ Accept(w).phone = w.phone /\ Refuse(w).phone = w.phone /\ Break(w).phone = w.phone
      /\ StationRead(w).phone = w.phone /\ PhoneRead(w).phone = w.phone
      /\ \A f : StationSend(w, f).phone = w.phone /\ PhoneSend(w, f).phone = w.phone
  BY DEF Accept, Refuse, Break, StationRead, PhoneRead, StationSend, PhoneSend
<1>2. StationGone(w).phone = w.phone
  BY DEF StationGone, Refuse, Settle, Idle
<1>3. ASSUME NEW c
      PROVE  /\ StationClose(w, c).phone = w.phone
             /\ StationShut(w, c).phone = w.phone
             /\ ~Live(PhoneClose(w, c)) /\ ~Live(PhoneShut(w, c))
  BY DEF StationClose, StationShut, PhoneClose, PhoneShut, Settle, Idle
<1> QED BY <1>1, <1>2, <1>3

\* The Station never changes the phone's end of a wire.
LEMMA StationLeavesPhone ==
  ASSUME NetOK, NEW s \in Socket, Station(s)
  PROVE  \A t \in Socket : net'[t].phone = net[t].phone
<1>0. net[s] \in WireState
  BY DEF NetOK
<1>1. \E w \in WireState : w.phone = net[s].phone /\ net' = [net EXCEPT ![s] = w]
  <2>1. CASE OnConnection(s) \/ ConnectionFails(s) \/ HandshakeTimeout(s) \/ SweepRevoked(s)
             \/ OnStationClose(s)
    <3>1. Accept(net[s]) \in WireState /\ Accept(net[s]).phone = net[s].phone
      BY <1>0, OperationsTyped, PhoneEnd
    <3>4. StationClose(Accept(net[s]), "limit") \in WireState
          /\ StationClose(Accept(net[s]), "limit").phone = net[s].phone
      BY <3>1, OperationsTyped, PhoneEnd DEF CloseCodes
    <3>2. OnStationClose(s) => ToStation(net[s]).code \in CloseCodes
      BY Heard, CloseCodeTyped DEF OnStationClose
    <3>5. CASE OnConnection(s)
      BY <3>1, <3>4, <3>5 DEF OnConnection, Welcome, TurnAway
    <3>6. CASE ConnectionFails(s)
      BY <1>0, <3>6, OperationsTyped, PhoneEnd DEF ConnectionFails
    <3>7. CASE HandshakeTimeout(s)
      BY <1>0, <3>7, OperationsTyped, PhoneEnd DEF HandshakeTimeout, CloseCodes
    <3>8. CASE SweepRevoked(s)
      BY <1>0, <3>8, OperationsTyped, PhoneEnd DEF SweepRevoked, CloseCodes
    <3>9. CASE OnStationClose(s)
      BY <1>0, <3>2, <3>9, ShutTyped, PhoneEnd DEF OnStationClose
    <3> QED BY <2>1, <3>5, <3>6, <3>7, <3>8, <3>9
  <2>2. CASE OnHello(s) \/ OnAuthResponse(s) \/ OnUnheard(s)
    <3>1. StationRead(net[s]) \in WireState /\ StationRead(net[s]).phone = net[s].phone
      BY <1>0, <2>2, Heard, PhoneEnd DEF OnHello, OnAuthResponse, OnUnheard
    <3>2. ASSUME NEW w \in WireState, NEW f \in WireFrame, w.phone = net[s].phone
          PROVE  StationSend(w, f) \in WireState /\ StationSend(w, f).phone = net[s].phone
      BY <3>2, OperationsTyped, PhoneEnd
    <3>3. \A c \in {"mismatch", "rejected"} :
             /\ StationClose(StationRead(net[s]), c) \in WireState
             /\ StationClose(StationRead(net[s]), c).phone = net[s].phone
      BY <3>1, OperationsTyped, PhoneEnd DEF CloseCodes
    <3>4. LET w == StationSend(StationSend(StationRead(net[s]), Frame("hello-ack")),
                               Nonced("auth-challenge", s))
          IN  w \in WireState /\ w.phone = net[s].phone
      BY <3>1, <3>2, FramesTyped
    <3>5. SendAttach(StationRead(net[s])) \in WireState
          /\ SendAttach(StationRead(net[s])).phone = net[s].phone
      BY <3>1, <3>2, FramesTyped DEF SendAttach
    <3> QED BY <2>2, <3>1, <3>3, <3>4, <3>5 DEF OnHello, OnAuthResponse, OnUnheard
  <2>3. CASE SnapshotCaptured(s) \/ \E type \in {"output", "resize", "terminal-size-owner", "alert"} :
                                        Publish(s, type)
    BY <1>0, <2>3, OperationsTyped, FramesTyped, PhoneEnd DEF SnapshotCaptured, Publish
  <2> QED BY <2>1, <2>2, <2>3 DEF Station, ConnectionDecided, StationReceives
<1> QED BY <1>1 DEF NetOK

\* When no end of the phone comes to life and its own variables keep their
\* values, so does what they say of each other.
LEMMA AttemptStutters ==
  ASSUME AttemptInv, UNCHANGED clientVars,
         \A t \in Socket : Live(net[t])' => Live(net[t])
  PROVE  AttemptInv'
BY DEF AttemptInv, OneAttempt, Live, IsCurrent, clientVars, attemptVars, flagVars

\* The phone reads a frame it expects, or closes the connection.
LEMMA ReadingEndsNothing ==
  ASSUME NetOK, NEW s \in Socket, NEW type, PhoneHears(s, type),
         Reading(s) \/ net' = [net EXCEPT ![s] = PhoneClose(PhoneRead(@), "protocol")]
  PROVE  \A t \in Socket : Live(net[t])' => Live(net[t])
BY Heard, PhoneEnd DEF Reading, Live, NetOK

\* The wire opens: a socket the phone has begun to close stays closing.
LEMMA OpeningRevivesNothing ==
  ASSUME NetOK, NEW s \in Socket, OnOpen(s)
  PROVE  \A t \in Socket : Live(net[t])' => Live(net[t])
<1> DEFINE opened == [PhoneRead(net[s]) EXCEPT !.phone = IF @ = "connecting" THEN "open" ELSE @]
<1>1. PhoneRead(net[s]) \in WireState /\ net[s] \in WireState
  BY Heard DEF OnOpen
<1>2. opened \in WireState /\ (Live(opened) => Live(net[s]))
  BY <1>1, PhoneEnd DEF WireState, Live
<1> HIDE DEF opened
<1>3. PhoneSend(opened, Frame("hello")).phone = opened.phone
  BY <1>2 DEF PhoneSend, WireState
<1>4. net' = [net EXCEPT ![s] = IF IsCurrent(s) THEN PhoneSend(opened, Frame("hello")) ELSE opened]
  BY DEF OnOpen, opened
<1> QED BY <1>2, <1>3, <1>4 DEF NetOK, Live

LEMMA AttemptPhone ==
  ASSUME NetOK, CountOK, ClientOK, AttemptInv, NEW s \in Socket, Phone(s)
  PROVE  AttemptInv'
<1> USE DEF ClientOK, CountOK
<1>0. net[s] \in WireState /\ ws \in Socket \cup {NoSocket}
  BY DEF NetOK
<1>1. CASE Connect(s)
  <2>1. timers' = 0
    BY <1>1 DEF Connect, TimerCleared, AttemptInv, OneAttempt
  <2>2. /\ ws' = s /\ state' = "connecting" /\ deliberate' = FALSE /\ suppressed' = FALSE
        /\ net' = [CurrentClosed EXCEPT ![s] = Dial]
    BY <1>1 DEF Connect, StartAttempts, OpenSocket
  <2>3. \A t \in Socket : t # s => ~Live(net'[t])
    BY <2>2, PhoneEnd DEF CurrentClosed, AttemptInv, OneAttempt, Live, IsCurrent, NetOK
  <2> QED BY <2>1, <2>2, <2>3 DEF AttemptInv, OneAttempt, Live, IsCurrent
<1>2. CASE Retry(s)
  <2>1. timers' = 0
    BY <1>2 DEF Retry, CanRetry, TimerCleared, AttemptInv, OneAttempt
  <2>2. /\ ws' = s /\ state' = "connecting" /\ deliberate' = FALSE /\ suppressed' = FALSE
        /\ net' = [net EXCEPT ![s] = Dial] /\ state = "failed"
    BY <1>2 DEF Retry, CanRetry, StartAttempts, OpenSocket
  <2>3. \A t \in Socket : t # s => ~Live(net'[t])
    BY <2>2 DEF AttemptInv, Live, NetOK
  <2> QED BY <2>1, <2>2, <2>3 DEF AttemptInv, OneAttempt, Live, IsCurrent
<1>3. CASE ReconnectTimerFires(s)
  <2>1. timers' = 0 /\ ws = NoSocket /\ state = "reconnecting" /\ ~deliberate
    BY <1>3 DEF ReconnectTimerFires, AttemptInv, OneAttempt
  <2>2. /\ ws' = s /\ state' \in {"connecting", "reconnecting"} /\ suppressed' = FALSE
        /\ deliberate' = deliberate /\ net' = [net EXCEPT ![s] = Dial]
    BY <1>3 DEF ReconnectTimerFires, OpenSocket
  <2>3. \A t \in Socket : t # s => ~Live(net'[t])
    BY <2>1, <2>2 DEF AttemptInv, OneAttempt, Live, IsCurrent, NetOK
  <2> QED BY <2>1, <2>2, <2>3 DEF AttemptInv, OneAttempt, Live, IsCurrent
<1>4. CASE OnOpen(s)
  BY <1>4, OpeningRevivesNothing, AttemptStutters DEF OnOpen
<1>5. CASE OnClose(s)
  <2>1. net' = [net EXCEPT ![s] = PhoneShut(net[s], ToPhone(net[s]).code)]
    BY <1>5 DEF OnClose
  <2>2. ~Live(net'[s]) /\ \A t \in Socket : t # s => net'[t] = net[t]
    BY <1>0, <2>1, PhoneEnd DEF NetOK
  <2>3. CASE ~IsCurrent(s)
    BY <1>5, <2>2, <2>3, AttemptStutters DEF OnClose
  <2>4. CASE IsCurrent(s)
    <3>1. /\ timers = 0 /\ state # "disconnected" /\ ~deliberate
          /\ \A t \in Socket : ~Live(net'[t])
      BY <1>0, <2>2, <2>4 DEF AttemptInv, OneAttempt, IsCurrent, Live
    <3>2. /\ ws' = NoSocket /\ UNCHANGED <<deliberate, suppressed>>
          /\ \/ UNCHANGED timers /\ suppressed /\ state' = state
             \/ UNCHANGED timers /\ ~suppressed /\ state' = "failed"
             \/ timers' = timers + 1 /\ ~suppressed /\ state' = "reconnecting"
      BY <1>5, <2>4, <3>1, Zenon DEF OnClose, ScheduleReconnect, attemptVars
    <3>3. timers' \in {0, 1} /\ (timers' # 0 => state' = "reconnecting")
      BY <3>1, <3>2
    <3>4. state' # "disconnected"
      BY <3>1, <3>2
    <3> QED BY <3>1, <3>2, <3>3, <3>4 DEF AttemptInv, OneAttempt, Live
  <2> QED BY <2>3, <2>4
<1>6. CASE OnStaleFrame(s)
  BY <1>6, ReadingEndsNothing, AttemptStutters DEF OnStaleFrame
<1>7. CASE \/ OnHelloAck(s) \/ OnAuthChallenge(s) \/ OnAuthOk(s) \/ OnSizeOwner(s)
           \/ OnResize(s) \/ OnSnapshot(s) \/ OnOutput(s) \/ OnAlert(s)
  <2>1. \A t \in Socket : Live(net[t])' => Live(net[t])
    <3>1. \E type : /\ PhoneHears(s, type)
                    /\ Reading(s) \/ net' = [net EXCEPT ![s] = PhoneClose(PhoneRead(@), "protocol")]
      BY <1>7 DEF OnHelloAck, OnAuthChallenge, OnAuthOk, OnSizeOwner, OnResize, OnSnapshot,
                  OnOutput, OnAlert, Handles
    <3> QED BY <3>1, ReadingEndsNothing
  <2>2. /\ UNCHANGED <<timers, ws, deliberate, suppressed>> /\ ws = s
        /\ \/ UNCHANGED <<state, handshake, prompts>>
           \/ UNCHANGED <<state, prompts>> /\ handshake # "signing-challenge"
           \/ UNCHANGED state /\ handshake = "awaiting-challenge"
           \/ state' = "connected" /\ handshake # "signing-challenge"
    BY <1>7 DEF OnHelloAck, OnAuthChallenge, OnAuthOk, OnSizeOwner, OnResize, OnSnapshot,
                OnOutput, OnAlert, Handles, HandshakeGoesTo, IsCurrent, clientVars, attemptVars,
                flagVars
  <2>3. state = "failed" => UNCHANGED <<state, handshake, prompts>>
    BY <2>2 DEF AttemptInv
  <2>4. timers = 0 /\ ~deliberate /\ state # "disconnected"
    BY <2>2 DEF AttemptInv, OneAttempt
  <2>5. suppressed => state = "failed"
    BY DEF AttemptInv
  <2> QED BY <2>1, <2>2, <2>3, <2>4, <2>5 DEF AttemptInv, OneAttempt, Live, IsCurrent
<1>8. CASE NonceSigned(s)
  <2>1. \A t \in Socket : Live(net[t])' => Live(net[t])
    BY <1>8, PhoneEnd DEF NonceSigned, Live, NetOK
  <2>2. UNCHANGED <<state, timers, ws, deliberate, suppressed>>
        /\ prompts' \subseteq prompts /\ (handshake' = handshake \/ (ws = s /\ ws \in prompts))
    BY <1>8 DEF NonceSigned, StillSigning, IsCurrent, attemptVars, flagVars
  <2> QED BY <2>1, <2>2 DEF AttemptInv, OneAttempt, Live, IsCurrent
<1>9. ASSUME NEW kind \in SigningError, SigningFails(s, kind)
      PROVE  AttemptInv'
  <2>1. \A t \in Socket : Live(net[t])' => Live(net[t])
    BY <1>9, PhoneEnd DEF SigningFails, NetOK
  <2>2. CASE ~StillSigning(s)
    BY <1>9, <2>1, <2>2 DEF SigningFails, AttemptInv, OneAttempt, Live, IsCurrent, attemptVars
  <2>3. CASE StillSigning(s)
    <3>1. /\ suppressed' = TRUE /\ state' = "failed" /\ ws = s /\ handshake = "signing-challenge"
          /\ net' = [net EXCEPT ![s] = PhoneClose(net[s], "policy")] /\ prompts' = prompts \ {s}
          /\ UNCHANGED <<timers, ws, handshake, deliberate>>
      BY <1>9, <2>3 DEF SigningFails, StillSigning, IsCurrent, attemptVars
    <3>2. \A t \in Socket : ~Live(net'[t])
      BY <1>0, <3>1, PhoneEnd DEF AttemptInv, OneAttempt, Live, IsCurrent, NetOK
    <3>3. timers = 0 /\ ~deliberate
      BY <3>1 DEF AttemptInv, OneAttempt
    <3> QED BY <3>1, <3>2, <3>3 DEF AttemptInv, OneAttempt, Live
  <2> QED BY <2>2, <2>3
<1> QED BY <1>1, <1>2, <1>3, <1>4, <1>5, <1>6, <1>7, <1>8, <1>9 DEF Phone, PhoneReceives

LEMMA AttemptStep == TypeOK /\ AttemptInv /\ [Next]_vars => AttemptInv'
<1> SUFFICES ASSUME NetOK, CountOK, ClientOK, AttemptInv, [Next]_vars
             PROVE  AttemptInv'
  BY TypeSplit
<1>1. CASE Disconnect
  <2>1. timers' = 0 /\ ws' = NoSocket /\ state' = "disconnected" /\ suppressed' = FALSE
    BY <1>1 DEF Disconnect, TimerCleared, AttemptInv, OneAttempt, CountOK
  <2>2. \A t \in Socket : ~Live(net'[t])
    BY <1>1, PhoneEnd DEF Disconnect, CurrentClosed, AttemptInv, OneAttempt, Live, IsCurrent, NetOK
  <2> QED BY <2>1, <2>2 DEF AttemptInv, OneAttempt, Live
<1>2. ASSUME NEW s \in Socket, Phone(s)
      PROVE  AttemptInv'
  BY <1>2, AttemptPhone
<1>3. ASSUME NEW s \in Socket, Station(s), UNCHANGED clientVars
      PROVE  AttemptInv'
  BY <1>3, StationLeavesPhone, AttemptStutters DEF Live
<1>4. ASSUME NEW s \in Socket, ConnectionLost(s)
      PROVE  AttemptInv'
  BY <1>4, PhoneEnd, AttemptStutters DEF ConnectionLost, Live, NetOK
<1>5. CASE Revoke /\ UNCHANGED clientVars
  BY <1>5, AttemptStutters DEF Revoke, Live
<1>6. CASE Restart /\ UNCHANGED clientVars
  BY <1>6, PhoneEnd, AttemptStutters DEF Restart, Live, NetOK
<1>7. CASE UNCHANGED vars
  BY <1>7, AttemptStutters DEF vars, Live
<1> QED BY <1>1, <1>2, <1>3, <1>4, <1>5, <1>6, <1>7 DEF Next

LEMMA AttemptInvariant == Spec => []AttemptInv
<1>1. Init => AttemptInv
  BY DEF Init, ClientInit, AttemptInv, OneAttempt, Idle
<1> QED BY <1>1, TypeCorrect, AttemptStep, PTL DEF Spec

\* The phone has at most one attempt under way, whatever frames, close events,
\* signatures and taps come in whatever order.
THEOREM AtMostOneAttempt == Spec => []OneAttempt
<1>1. AttemptInv => OneAttempt
  BY DEF AttemptInv
<1> QED BY <1>1, AttemptInvariant, PTL

\* A connection that failed rests until the user acts.
THEOREM FailedStaysAtRest == Spec => FailedRests
<1>1. TypeOK /\ AttemptInv /\ [Next]_vars
        => [state = "failed" => \/ state' \in {"connecting", "disconnected"}
                                \/ state' = "failed" /\ timers' = 0 /\ ws' \in {ws, NoSocket}]_vars
  <2> SUFFICES ASSUME TypeOK, AttemptInv, Next, state = "failed"
               PROVE  \/ state' \in {"connecting", "disconnected"}
                      \/ state' = "failed" /\ timers' = 0 /\ ws' \in {ws, NoSocket}
    BY DEF vars
  <2>1. ClientOK /\ CountOK
    BY TypeSplit
  <2>2. timers = 0
    BY <2>1 DEF AttemptInv, CountOK
  <2>3. CASE UNCHANGED clientVars
    BY <2>2, <2>3 DEF clientVars, attemptVars
  <2>4. ASSUME NEW s \in Socket, Connect(s) \/ Retry(s)
        PROVE  state' = "connecting"
    BY <2>4 DEF Connect, Retry, StartAttempts
  <2>5. ASSUME NEW s \in Socket, ReconnectTimerFires(s)
        PROVE  FALSE
    BY <2>2, <2>5 DEF ReconnectTimerFires
  <2>6. ASSUME NEW s \in Socket, OnClose(s)
        PROVE  state' = "failed" /\ timers' = 0 /\ ws' \in {ws, NoSocket}
    <3>1. IsCurrent(s) => suppressed /\ ~deliberate
      BY DEF AttemptInv, IsCurrent
    <3>2. \/ UNCHANGED clientVars
          \/ IsCurrent(s) /\ ws' = NoSocket /\ UNCHANGED <<state, attemptVars>>
      BY <2>6, <3>1, Zenon DEF OnClose
    <3> QED BY <2>2, <3>2 DEF clientVars, attemptVars
  <2>7. ASSUME NEW s \in Socket, PhoneReceives(s), ~OnClose(s)
        PROVE  state' = "failed" /\ timers' = 0 /\ ws' \in {ws, NoSocket}
    <3>1. UNCHANGED <<timers, ws>>
          /\ (state' = state \/ (ws = s /\ handshake = "awaiting-snapshot"))
      BY <2>7 DEF PhoneReceives, OnOpen, OnStaleFrame, OnHelloAck, OnAuthChallenge, OnAuthOk,
                  OnSizeOwner, OnResize, OnSnapshot, OnOutput, OnAlert, Handles, HandshakeGoesTo,
                  IsCurrent, clientVars, attemptVars
    <3> QED BY <2>2, <3>1 DEF AttemptInv
  <2>8. ASSUME NEW s \in Socket, NonceSigned(s) \/ \E kind \in SigningError : SigningFails(s, kind)
        PROVE  state' = "failed" /\ timers' = 0 /\ ws' \in {ws, NoSocket}
    BY <2>2, <2>8 DEF NonceSigned, SigningFails, attemptVars
  <2>9. CASE Disconnect
    BY <2>9 DEF Disconnect
  <2> QED BY <2>3, <2>4, <2>5, <2>6, <2>7, <2>8, <2>9 DEF Next, Phone, ConnectionLost
<1> QED BY <1>1, TypeCorrect, AttemptInvariant, PTL DEF Spec, FailedRests

-----------------------------------------------------------------------------
(* What a wire carries                                                       *)

InQueue(q, f) == \E i \in DOMAIN q : q[i] = f
Carries(w, f) == InQueue(w.up, f) \/ InQueue(w.down, f)

LEMMA QueueMembers ==
  ASSUME NEW q \in Seq(WireFrame), NEW f
  PROVE  /\ \A g \in WireFrame : InQueue(Append(q, g), f) => InQueue(q, f) \/ f = g
         /\ q # <<>> => InQueue(q, Head(q)) /\ (InQueue(Tail(q), f) => InQueue(q, f))
<1>1. ASSUME NEW g \in WireFrame, InQueue(Append(q, g), f)
      PROVE  InQueue(q, f) \/ f = g
  BY <1>1, AppendProperties DEF InQueue
<1>2. ASSUME q # <<>>
      PROVE  InQueue(q, Head(q)) /\ (InQueue(Tail(q), f) => InQueue(q, f))
  BY <1>2, HeadTailProperties DEF InQueue
<1> QED BY <1>1, <1>2

LEMMA NewQueueMembers ==
  ASSUME NEW f, NEW g
  PROVE  ~InQueue(<<>>, f) /\ (InQueue(<<g>>, f) => f = g)
BY DEF InQueue

\* An operation on a wire puts one new frame under way, or none.
LEMMA OperationsCarry ==
  ASSUME NEW w \in WireState, NEW f
  PROVE  /\ Carries(Accept(w), f) => Carries(w, f) \/ f = Frame("upgraded")
         /\ Carries(Refuse(w), f) => f = CloseFrame("gone")
         /\ Carries(Break(w), f) => f = CloseFrame("gone")
         /\ Carries(StationGone(w), f) => Carries(w, f) \/ f = CloseFrame("gone")
         /\ w.down # <<>> => (Carries(PhoneRead(w), f) => Carries(w, f))
         /\ w.up # <<>> => (Carries(StationRead(w), f) => Carries(w, f))
         /\ \A g \in WireFrame : /\ Carries(PhoneSend(w, g), f) => Carries(w, f) \/ f = g
                                 /\ Carries(StationSend(w, g), f) => Carries(w, f) \/ f = g
         /\ \A c \in CloseCodes :
              /\ Carries(PhoneClose(w, c), f) => Carries(w, f) \/ f = CloseFrame(c)
              /\ Carries(StationClose(w, c), f) => Carries(w, f) \/ f = CloseFrame(c)
              /\ Carries(PhoneShut(w, c), f) => Carries(w, f) \/ f = CloseFrame(c)
              /\ Carries(StationShut(w, c), f) => Carries(w, f) \/ f = CloseFrame(c)
<1> USE WireTyped
<1>1. ~Carries(Idle, f)
  BY NewQueueMembers DEF Idle, Carries
<1>2. Carries(Accept(w), f) => Carries(w, f) \/ f = Frame("upgraded")
  BY QueueMembers, FramesTyped DEF Accept, Carries, WireState
<1>3. /\ Carries(Refuse(w), f) => f = CloseFrame("gone")
      /\ Carries(Break(w), f) => f = CloseFrame("gone")
  BY NewQueueMembers DEF Refuse, Break, Carries, WireState
<1>4. Carries(StationGone(w), f) => Carries(w, f) \/ f = CloseFrame("gone")
  <2>1. CASE w.station \in {"open", "closing"}
    <3> DEFINE v == [w EXCEPT !.station = "closed", !.up = <<>>,
                         !.down = IF w.phone = "closed" THEN @ ELSE <<CloseFrame("gone")>>]
    <3>1. Carries(v, f) => Carries(w, f) \/ f = CloseFrame("gone")
      BY NewQueueMembers DEF Carries, WireState
    <3>2. StationGone(w) = Settle(v)
      BY <2>1, Zenon DEF StationGone
    <3>3. Settle(v) \in {Idle, v}
      BY Zenon DEF Settle
    <3> QED BY <1>1, <3>1, <3>2, <3>3
  <2>2. CASE w.station = "unaware"
    BY <1>3, <2>2 DEF StationGone
  <2>3. CASE w.station = "closed"
    BY <2>3 DEF StationGone
  <2> QED BY <2>1, <2>2, <2>3
<1>5. /\ w.down # <<>> => (Carries(PhoneRead(w), f) => Carries(w, f))
      /\ w.up # <<>> => (Carries(StationRead(w), f) => Carries(w, f))
  BY QueueMembers DEF PhoneRead, StationRead, Carries, WireState
<1>6. ASSUME NEW g \in WireFrame
      PROVE  /\ Carries(PhoneSend(w, g), f) => Carries(w, f) \/ f = g
             /\ Carries(StationSend(w, g), f) => Carries(w, f) \/ f = g
  BY QueueMembers DEF PhoneSend, StationSend, Carries, WireState
<1>7. ASSUME NEW c \in CloseCodes
      PROVE  /\ Carries(PhoneClose(w, c), f) => Carries(w, f) \/ f = CloseFrame(c)
             /\ Carries(StationClose(w, c), f) => Carries(w, f) \/ f = CloseFrame(c)
  BY QueueMembers, FramesTyped DEF PhoneClose, StationClose, Carries, WireState
<1>8. ASSUME NEW c \in CloseCodes
      PROVE  /\ Carries(PhoneShut(w, c), f) => Carries(w, f) \/ f = CloseFrame(c)
             /\ Carries(StationShut(w, c), f) => Carries(w, f) \/ f = CloseFrame(c)
  <2> DEFINE p == [PhoneClose(w, c) EXCEPT !.phone = "closed", !.down = <<>>]
             q == [StationClose(w, c) EXCEPT !.station = "closed", !.up = <<>>]
  <2>1. PhoneClose(w, c) \in WireState /\ StationClose(w, c) \in WireState
    BY OperationsTyped
  <2>2. (Carries(p, f) => Carries(PhoneClose(w, c), f)) /\ (Carries(q, f) => Carries(StationClose(w, c), f))
    BY <2>1, NewQueueMembers DEF Carries, WireState
  <2>3. PhoneShut(w, c) \in {Idle, p} /\ StationShut(w, c) \in {Idle, q}
    BY Zenon DEF PhoneShut, StationShut, Settle
  <2> QED BY <1>1, <1>7, <2>2, <2>3
<1> QED BY <1>2, <1>3, <1>4, <1>5, <1>6, <1>7, <1>8

LEMMA IsCloseFrame ==
  ASSUME NEW f \in WireFrame, f.type = "close"
  PROVE  f = CloseFrame(f.code)
BY DEF WireFrame, CloseFrame

-----------------------------------------------------------------------------
(* Rejection and revocation                                                  *)

\* A close frame that rejects the device, on its way in either direction, and a
\* phone that has read one, mean that the binding is gone; and each signature on
\* its way is over the nonce of its own socket.
RejectionInv ==
  /\ RejectedOnlyIfRevoked
  /\ \A s \in Socket :
       /\ Carries(net[s], CloseFrame("rejected")) => ~bound
       /\ \A n \in Socket : Carries(net[s], Nonced("auth-response", n)) => n = s

\* The frames each side puts on the wire s, other than a rejection, a close for
\* a protocol error, and the answer to a close frame.
StationFrame(s) ==
  {Frame(type) : type \in {"upgraded", "hello-ack", "auth-ok", "terminal-size-owner", "resize",
                           "session-snapshot", "output", "alert"}}
  \cup {Nonced("auth-challenge", s)}
  \cup {CloseFrame(code) : code \in {"limit", "mismatch", "timeout", "gone"}}
PhoneFrame(s) == {Frame("hello"), Nonced("auth-response", s)}
                 \cup {CloseFrame(code) : code \in {"normal", "policy"}}

\* The phone closes the connection over a frame it did not expect.
ProtocolClose(s) ==
  /\ \/ OnHelloAck(s) \/ OnAuthChallenge(s) \/ OnAuthOk(s) \/ OnSizeOwner(s)
     \/ OnResize(s) \/ OnSnapshot(s) \/ OnOutput(s) \/ OnAlert(s)
  /\ net[s].down # <<>>
  /\ net' = [net EXCEPT ![s] = PhoneClose(PhoneRead(@), "protocol")]

\* The Station rejects a phone only when its binding is gone.
LEMMA StationPutsUnderWay ==
  ASSUME NetOK, RejectionInv, NEW s \in Socket, Station(s), NEW f, Carries(net'[s], f)
  PROVE  Carries(net[s], f) \/ f \in StationFrame(s) \/ (f = CloseFrame("rejected") /\ ~bound)
<1> USE DEF StationFrame
<1>0. net[s] \in WireState
  BY DEF NetOK
<1>1. CASE OnConnection(s)
  <2>1. Accept(net[s]) \in WireState
    BY <1>0, OperationsTyped
  <2>2. net'[s] \in {Accept(net[s]), StationClose(Accept(net[s]), "limit")}
    BY <1>1 DEF OnConnection, Welcome, TurnAway, NetOK
  <2> QED BY <1>0, <2>1, <2>2, OperationsCarry DEF CloseCodes
<1>2. CASE ConnectionFails(s)
  BY <1>0, <1>2, OperationsCarry DEF ConnectionFails, NetOK
<1>3. CASE OnHello(s)
  <2> DEFINE w == StationRead(net[s])
             v == StationSend(w, Frame("hello-ack"))
  <2>1. w \in WireState /\ (Carries(w, f) => Carries(net[s], f))
    BY <1>0, <1>3, Heard, OperationsCarry DEF OnHello
  <2>2. v \in WireState /\ (Carries(v, f) => Carries(w, f) \/ f = Frame("hello-ack"))
    BY <2>1, OperationsTyped, OperationsCarry, FramesTyped
  <2>3. Carries(StationSend(v, Nonced("auth-challenge", s)), f)
          => Carries(v, f) \/ f = Nonced("auth-challenge", s)
    BY <2>2, OperationsCarry, FramesTyped
  <2>4. Carries(StationClose(w, "mismatch"), f) => Carries(w, f) \/ f = CloseFrame("mismatch")
    BY <2>1, OperationsCarry DEF CloseCodes
  <2>5. net'[s] \in {StationSend(v, Nonced("auth-challenge", s)), StationClose(w, "mismatch")}
    BY <1>3 DEF OnHello, NetOK
  <2> HIDE DEF w, v
  <2> QED BY <2>1, <2>2, <2>3, <2>4, <2>5
<1>4. CASE OnAuthResponse(s)
  <2> DEFINE w == StationRead(net[s])
             v == StationSend(w, Frame("auth-ok"))
             u == StationSend(v, Frame("terminal-size-owner"))
  <2>1. w \in WireState /\ (Carries(w, f) => Carries(net[s], f))
    BY <1>0, <1>4, Heard, OperationsCarry DEF OnAuthResponse
  <2>2. v \in WireState /\ (Carries(v, f) => Carries(w, f) \/ f = Frame("auth-ok"))
    BY <2>1, OperationsTyped, OperationsCarry, FramesTyped
  <2>3. u \in WireState /\ (Carries(u, f) => Carries(v, f) \/ f = Frame("terminal-size-owner"))
    BY <2>2, OperationsTyped, OperationsCarry, FramesTyped
  <2>4. Carries(StationSend(u, Frame("resize")), f) => Carries(u, f) \/ f = Frame("resize")
    BY <2>3, OperationsCarry, FramesTyped
  <2>5. Carries(StationClose(w, "rejected"), f) => Carries(w, f) \/ f = CloseFrame("rejected")
    BY <2>1, OperationsCarry DEF CloseCodes
  <2>6. \/ net'[s] = StationSend(u, Frame("resize"))
        \/ net'[s] = StationClose(w, "rejected") /\ ~Verified(s, ToStation(net[s]))
    BY <1>4 DEF OnAuthResponse, SendAttach, NetOK
  <2>7. Verified(s, ToStation(net[s])) <=> bound
    <3>1. /\ ToStation(net[s]) \in WireFrame /\ ToStation(net[s]).type = "auth-response"
          /\ InQueue(net[s].up, ToStation(net[s]))
      BY <1>0, <1>4, Heard, QueueMembers, WireTyped DEF OnAuthResponse, ToStation
    <3>2. \E n \in Socket : ToStation(net[s]) = Nonced("auth-response", n)
      BY <3>1 DEF WireFrame, Nonced
    <3> QED BY <3>1, <3>2 DEF RejectionInv, Carries, Verified, Nonced
  <2> HIDE DEF w, v, u
  <2> QED BY <2>1, <2>2, <2>3, <2>4, <2>5, <2>6, <2>7
<1>5. CASE OnUnheard(s)
  BY <1>0, <1>5, Heard, OperationsCarry DEF OnUnheard, NetOK
<1>6. CASE OnStationClose(s)
  <2> DEFINE c == ToStation(net[s])
  <2>1. c \in WireFrame /\ c.type = "close" /\ InQueue(net[s].up, c)
    BY <1>0, <1>6, Heard, QueueMembers, WireTyped DEF OnStationClose, ToStation
  <2>2. c.code \in CloseCodes /\ c = CloseFrame(c.code)
    BY <2>1, CloseCodeTyped, IsCloseFrame
  <2>3. net'[s] = StationShut(net[s], c.code)
    BY <1>6 DEF OnStationClose, NetOK
  <2> HIDE DEF c
  <2>4. Carries(net[s], c)
    BY <2>1 DEF Carries
  <2> QED BY <1>0, <2>2, <2>3, <2>4, OperationsCarry
<1>7. CASE HandshakeTimeout(s)
  BY <1>0, <1>7, OperationsCarry DEF HandshakeTimeout, NetOK, CloseCodes
<1>8. CASE SnapshotCaptured(s)
  BY <1>0, <1>8, OperationsCarry, FramesTyped DEF SnapshotCaptured, NetOK
<1>9. CASE SweepRevoked(s)
  BY <1>0, <1>9, OperationsCarry DEF SweepRevoked, NetOK, CloseCodes
<1>10. ASSUME NEW type \in {"output", "resize", "terminal-size-owner", "alert"}, Publish(s, type)
       PROVE  Carries(net[s], f) \/ f \in StationFrame(s)
  <2>1. net'[s] = StationSend(net[s], Frame(type))
    BY <1>10 DEF Publish, NetOK
  <2>2. Frame(type) \in WireFrame
    BY FramesTyped
  <2>3. Carries(StationSend(net[s], Frame(type)), f) => Carries(net[s], f) \/ f = Frame(type)
    BY <1>0, <2>2, OperationsCarry
  <2>4. Frame(type) \in StationFrame(s)
    BY DEF Frame
  <2> QED BY <1>10, <2>1, <2>3, <2>4
<1> QED BY <1>1, <1>2, <1>3, <1>4, <1>5, <1>6, <1>7, <1>8, <1>9, <1>10
        DEF Station, ConnectionDecided, StationReceives

\* Of the frames the phone puts under way only its signature is not the same on
\* every socket.
LEMMA PhonePutsUnderWay ==
  ASSUME NetOK, ClientOK, NEW s \in Socket, Phone(s), NEW t \in Socket, NEW f, Carries(net'[t], f)
  PROVE  \/ Carries(net[t], f) \/ f \in PhoneFrame(t)
         \/ f = CloseFrame("protocol") /\ t = s /\ ProtocolClose(s)
<1> USE DEF PhoneFrame
<1>0. net[s] \in WireState /\ net[t] \in WireState
  BY DEF NetOK
<1>1. ~Carries(Dial, f)
  BY NewQueueMembers DEF Dial, Idle, Carries
<1>2. CASE Connect(s)
  <2>1. net'[t] \in {Dial, net[t], PhoneClose(net[t], "normal")}
    BY <1>2 DEF Connect, CurrentClosed, NetOK
  <2> QED BY <1>0, <1>1, <2>1, OperationsCarry DEF CloseCodes
<1>3. CASE Retry(s) \/ ReconnectTimerFires(s)
  BY <1>1, <1>3 DEF Retry, ReconnectTimerFires, NetOK
<1>4. CASE OnOpen(s)
  <2> DEFINE w == PhoneRead(net[s])
             opened == [w EXCEPT !.phone = IF @ = "connecting" THEN "open" ELSE @]
  <2>1. w \in WireState /\ (Carries(w, f) => Carries(net[s], f))
    BY <1>0, <1>4, Heard, OperationsCarry DEF OnOpen
  <2>2. opened \in WireState /\ (Carries(opened, f) => Carries(w, f))
    BY <2>1 DEF WireState, Carries
  <2>3. t # s => net'[t] = net[t]
    BY <1>4 DEF OnOpen, NetOK
  <2>4. net'[s] \in {PhoneSend(opened, Frame("hello")), opened}
    BY <1>4 DEF OnOpen, NetOK
  <2> HIDE DEF opened
  <2>5. Carries(PhoneSend(opened, Frame("hello")), f) => Carries(opened, f) \/ f = Frame("hello")
    BY <2>2, OperationsCarry, FramesTyped
  <2> QED BY <2>1, <2>2, <2>3, <2>4, <2>5
<1>5. CASE OnClose(s)
  <2> DEFINE c == ToPhone(net[s])
  <2>1. c \in WireFrame /\ c.type = "close" /\ InQueue(net[s].down, c)
    BY <1>0, <1>5, Heard, QueueMembers, WireTyped DEF OnClose, ToPhone
  <2>2. c.code \in CloseCodes /\ c = CloseFrame(c.code)
    BY <2>1, CloseCodeTyped, IsCloseFrame
  <2>3. net' = [net EXCEPT ![s] = PhoneShut(net[s], c.code)]
    BY <1>5 DEF OnClose
  <2> HIDE DEF c
  <2> QED BY <1>0, <2>1, <2>2, <2>3, OperationsCarry DEF Carries, NetOK
<1>6. CASE \/ OnStaleFrame(s) \/ OnHelloAck(s) \/ OnAuthChallenge(s) \/ OnAuthOk(s)
           \/ OnSizeOwner(s) \/ OnResize(s) \/ OnSnapshot(s) \/ OnOutput(s) \/ OnAlert(s)
  <2>1. net[s].down # <<>> /\ (Reading(s) \/ ProtocolClose(s))
    BY <1>6 DEF OnStaleFrame, OnHelloAck, OnAuthChallenge, OnAuthOk, OnSizeOwner, OnResize,
                OnSnapshot, OnOutput, OnAlert, Handles, PhoneHears, ProtocolClose
  <2>2. PhoneRead(net[s]) \in WireState /\ (Carries(PhoneRead(net[s]), f) => Carries(net[s], f))
    BY <1>0, <2>1, OperationsTyped, OperationsCarry
  <2>3. Carries(PhoneClose(PhoneRead(net[s]), "protocol"), f)
          => Carries(PhoneRead(net[s]), f) \/ f = CloseFrame("protocol")
    BY <2>2, OperationsCarry DEF CloseCodes
  <2>4. \/ net' = [net EXCEPT ![s] = PhoneRead(net[s])]
        \/ ProtocolClose(s) /\ net' = [net EXCEPT ![s] = PhoneClose(PhoneRead(net[s]), "protocol")]
    BY <2>1 DEF Reading, ProtocolClose
  <2> QED BY <2>2, <2>3, <2>4 DEF NetOK
<1>7. CASE NonceSigned(s)
  BY <1>0, <1>7, OperationsCarry, FramesTyped DEF NonceSigned, NetOK
<1>8. ASSUME NEW kind \in SigningError, SigningFails(s, kind)
      PROVE  Carries(net[t], f) \/ f \in PhoneFrame(t)
  BY <1>0, <1>8, OperationsCarry DEF SigningFails, NetOK, CloseCodes
<1> QED BY <1>2, <1>3, <1>4, <1>5, <1>6, <1>7, <1>8 DEF Phone, PhoneReceives

\* A step of the Station concerns one wire.
LEMMA StationElsewhere ==
  ASSUME NetOK, GateOK, NEW s \in Socket, Station(s), NEW t \in Socket, t # s
  PROVE  net'[t] = net[t] /\ stage'[t] = stage[t]
BY DEF Station, ConnectionDecided, StationReceives, OnConnection, Welcome, TurnAway,
       ConnectionFails, OnHello, OnAuthResponse, OnUnheard, OnStationClose, HandshakeTimeout,
       SnapshotCaptured, SweepRevoked, Publish, NetOK, GateOK, gateVars

\* What a step puts under way on the wire t.
LEMMA PutsUnderWay ==
  ASSUME NetOK, ClientOK, GateOK, RejectionInv, [Next]_vars, NEW t \in Socket, NEW f,
         Carries(net'[t], f)
  PROVE  \/ Carries(net[t], f)
         \/ f \in StationFrame(t) \/ f \in PhoneFrame(t)
         \/ f = CloseFrame("protocol") /\ ProtocolClose(t)
         \/ f = CloseFrame("rejected") /\ ~bound
<1>0. net[t] \in WireState
  BY DEF NetOK
<1>1. CASE Disconnect
  BY <1>0, <1>1, OperationsCarry DEF Disconnect, CurrentClosed, PhoneFrame, CloseCodes
<1>2. ASSUME NEW s \in Socket, Phone(s)
      PROVE  \/ Carries(net[t], f) \/ f \in PhoneFrame(t)
             \/ f = CloseFrame("protocol") /\ ProtocolClose(t)
  BY <1>2, PhonePutsUnderWay
<1>3. ASSUME NEW s \in Socket, Station(s), t # s
      PROVE  Carries(net[t], f)
  BY <1>3, StationElsewhere
<1>4. CASE Station(t)
  BY <1>4, StationPutsUnderWay
<1>5. ASSUME NEW s \in Socket, ConnectionLost(s)
      PROVE  Carries(net[t], f) \/ f = CloseFrame("gone")
  BY <1>0, <1>5, OperationsCarry DEF ConnectionLost, NetOK
<1>6. CASE Restart
  BY <1>0, <1>6, OperationsCarry DEF Restart, StationFrame
<1>7. CASE UNCHANGED net
  BY <1>7
<1> QED BY <1>1, <1>2, <1>3, <1>4, <1>5, <1>6, <1>7 DEF Next, Revoke, vars, StationFrame

LEMMA RejectionStep == TypeOK /\ AttemptInv /\ RejectionInv /\ [Next]_vars => RejectionInv'
<1> SUFFICES ASSUME NetOK, ClientOK, GateOK, RejectionInv, [Next]_vars
             PROVE  RejectionInv'
  BY TypeSplit
<1>1. ~bound => ~bound'
  BY Zenon DEF Next, Revoke, Restart, ConnectionLost, Station, ConnectionDecided, StationReceives,
               OnConnection, ConnectionFails, OnHello, OnAuthResponse, OnUnheard, OnStationClose,
               HandshakeTimeout, SnapshotCaptured, SweepRevoked, Publish, gateVars, vars
<1>2. authRejected' => ~bound'
  <2>1. CASE authRejected' = authRejected
    BY <1>1, <2>1, Zenon DEF RejectionInv, RejectedOnlyIfRevoked
  <2>2. ASSUME NEW s \in Socket, OnClose(s), authRejected' # authRejected
        PROVE  ~bound
    <3>1. ToPhone(net[s]).code = "rejected" /\ PhoneHears(s, "close")
      BY <2>2, Zenon DEF OnClose, ScheduleReconnect, clientVars, flagVars
    <3>2. InQueue(net[s].down, CloseFrame("rejected"))
      BY <3>1, Heard, IsCloseFrame, QueueMembers, WireTyped DEF ToPhone
    <3> QED BY <3>2 DEF RejectionInv, Carries
  <2>3. ASSUME NEW s \in Socket, Phone(s), ~OnClose(s), authRejected' # authRejected
        PROVE  ~authRejected'
    BY <2>3, Zenon
       DEF Phone, PhoneReceives, Connect, Retry, StartAttempts, ReconnectTimerFires, OnOpen,
           OnStaleFrame, OnHelloAck, OnAuthChallenge, OnAuthOk, OnSizeOwner, OnResize, OnSnapshot,
           OnOutput, OnAlert, Handles, HandshakeGoesTo, NonceSigned, SigningFails, clientVars,
           flagVars
  <2>4. CASE Disconnect
    BY <2>4 DEF Disconnect
  <2>5. CASE UNCHANGED clientVars
    BY <2>1, <2>5, Zenon DEF clientVars, flagVars
  <2> QED BY <1>1, <2>1, <2>2, <2>3, <2>4, <2>5, Zenon DEF Next, ConnectionLost, vars
<1>3. ASSUME NEW t \in Socket, NEW f, Carries(net'[t], f)
      PROVE  \/ Carries(net[t], f)
             \/ f \in StationFrame(t) \/ f \in PhoneFrame(t) \/ f = CloseFrame("protocol")
             \/ f = CloseFrame("rejected") /\ ~bound
  BY <1>3, PutsUnderWay
<1>4. ASSUME NEW t \in Socket
      PROVE  /\ CloseFrame("rejected") \notin StationFrame(t) \cup PhoneFrame(t)
             /\ CloseFrame("rejected") # CloseFrame("protocol")
             /\ \A n \in Socket : /\ Nonced("auth-response", n) \notin StationFrame(t)
                                  /\ Nonced("auth-response", n) \in PhoneFrame(t) => n = t
                                  /\ Nonced("auth-response", n)
                                       \notin {CloseFrame("protocol"), CloseFrame("rejected")}
  BY DEF StationFrame, PhoneFrame, CloseFrame, Frame, Nonced
<1>5. ASSUME NEW t \in Socket, Carries(net'[t], CloseFrame("rejected"))
      PROVE  ~bound'
  BY <1>1, <1>3, <1>4, <1>5 DEF RejectionInv
<1>6. ASSUME NEW t \in Socket, NEW n \in Socket, Carries(net'[t], Nonced("auth-response", n))
      PROVE  n = t
  BY <1>3, <1>4, <1>6 DEF RejectionInv
<1> QED BY <1>2, <1>5, <1>6 DEF RejectionInv, RejectedOnlyIfRevoked, Carries

LEMMA RejectionInvariant == Spec => []RejectionInv
<1>1. Init => RejectionInv
  <2>1. \A f : ~Carries(Idle, f)
    BY NewQueueMembers DEF Idle, Carries
  <2> QED BY <2>1 DEF Init, ClientInit, RejectionInv, RejectedOnlyIfRevoked
<1> QED BY <1>1, TypeCorrect, AttemptInvariant, RejectionStep, PTL DEF Spec

\* No interleaving makes the Station reject a device whose binding it holds.
THEOREM OnlyRevokedAreRejected == Spec => []RejectedOnlyIfRevoked
<1>1. RejectionInv => RejectedOnlyIfRevoked
  BY DEF RejectionInv
<1> QED BY <1>1, RejectionInvariant, PTL

-----------------------------------------------------------------------------
(* The order of the handshake                                                *)

\* The frames the Station sends on every connection, each in its place.
Script == {"upgraded", "hello-ack", "auth-challenge", "auth-ok", "terminal-size-owner",
           "resize", "session-snapshot"}
Place(type) ==
  CASE type = "upgraded" -> 1 [] type = "hello-ack" -> 2 [] type = "auth-challenge" -> 3
    [] type = "auth-ok" -> 4 [] type = "terminal-size-owner" -> 5 [] type = "resize" -> 6
    [] OTHER -> 7

\* How many frames of the script the phone has read; it does not tell whether
\* it has read the first notice of the size owner.
PhoneAt(k, w, h, z) ==
  CASE k = 0 -> w.phone = "connecting" /\ h = "awaiting-hello-ack" /\ ~z
    [] k = 1 -> w.phone = "open" /\ h = "awaiting-hello-ack" /\ ~z
    [] k = 2 -> w.phone = "open" /\ h = "awaiting-challenge" /\ ~z
    [] k = 3 -> w.phone = "open" /\ h \in {"signing-challenge", "awaiting-auth-ok"} /\ ~z
    [] k \in {4, 5} -> w.phone = "open" /\ h = "awaiting-snapshot" /\ ~z
    [] k = 6 -> w.phone = "open" /\ h = "awaiting-snapshot" /\ z
    [] OTHER -> w.phone = "open" /\ h = "ready" /\ z

\* A frame under way, given what the phone has read: the next of the script, a
\* notice or a live frame, a snapshot behind a notice, or the close at the end.
FrameInPlace(k, w, i) ==
  LET type == w.down[i].type IN
    \/ type = "close" /\ i = Len(w.down)
    \/ type \in Script /\ Place(type) = k + i
    \/ i = 1 /\ k = 6 /\ type = "terminal-size-owner"
    \/ i = 1 /\ k = 7 /\ type \in {"terminal-size-owner", "resize", "output", "alert"}
    \/ i = 2 /\ k = 6 /\ type = "session-snapshot" /\ w.down[1].type = "terminal-size-owner"
DownFits(k, w) == \A i \in DOMAIN w.down : FrameInPlace(k, w, i)

\* Before the phone has signed, the Station sends nothing but the challenge.
Unsigned == {"awaiting-hello-ack", "awaiting-challenge", "signing-challenge"}
ChallengeFits(w, h) ==
  h \in Unsigned =>
    \A i \in DOMAIN w.down : w.down[i].type \in {"upgraded", "hello-ack", "auth-challenge", "close"}

\* The frames under way to the Station fit the phone's handshake.
UpFits(w, h) ==
  \A i \in DOMAIN w.up : /\ w.up[i].type = "hello" => w.phone = "open"
                         /\ w.up[i].type = "auth-response" => h \notin Unsigned

\* What a Station that can still send expects next agrees with what the phone
\* has read and what is under way to it.
StationFits(k, w, st) ==
  /\ w.station = "unaware" => k = 0 /\ w.down = <<>>
  /\ w.station = "open" /\ ~w.broken =>
       /\ \A i \in DOMAIN w.down : w.down[i].type # "close"
       /\ CASE st = "hello"         -> k + Len(w.down) = 1
            [] st = "auth-response" -> k + Len(w.down) = 3
            [] st = "capturing"     -> \/ k + Len(w.down) = 6
                                       \/ k = 6 /\ Len(w.down) = 1
                                          /\ w.down[1].type = "terminal-size-owner"
            [] st = "attached"      -> \/ k = 7
                                       \/ \E i \in DOMAIN w.down : w.down[i].type = "session-snapshot"
            [] OTHER                -> FALSE

\* A connection the phone has not begun to close.
InStepAt(k, w, h, z, st) ==
  PhoneAt(k, w, h, z) /\ DownFits(k, w) /\ ChallengeFits(w, h) /\ UpFits(w, h) /\ StationFits(k, w, st)
InStep(w, h, z, st) == \E k \in 0..7 : InStepAt(k, w, h, z, st)

\* Both ends are in step, and neither has told the other of a protocol error.
OrderInv ==
  \A s \in Socket : /\ ~Carries(net[s], CloseFrame("protocol"))
                    /\ Live(net[s]) => InStep(net[s], handshake, sized, stage[s])

\* The Station accepts the connection.
LEMMA AcceptInStep ==
  ASSUME NEW w \in WireState, NEW k \in 0..7, NEW h, NEW z, NEW st,
         InStepAt(k, w, h, z, st), w.station = "unaware"
  PROVE  InStepAt(k, Accept(w), h, z, "hello")
<1> DEFINE v == Accept(w)
<1>1. k = 0 /\ w.down = <<>>
  BY DEF InStepAt, StationFits
<1>2. /\ v.down = <<Frame("upgraded")>> /\ v.up = w.up /\ v.phone = w.phone /\ v.station = "open"
  BY <1>1 DEF Accept, WireState
<1>3. v.down[1].type = "upgraded" /\ Len(v.down) = 1 /\ DOMAIN v.down = {1}
  BY <1>2 DEF Frame
<1> HIDE DEF v
<1>4. PhoneAt(k, v, h, z) /\ UpFits(v, h)
  BY <1>1, <1>2 DEF InStepAt, PhoneAt, UpFits
<1>5. DownFits(k, v) /\ ChallengeFits(v, h) /\ StationFits(k, v, "hello")
  BY <1>1, <1>2, <1>3 DEF DownFits, FrameInPlace, Script, Place, ChallengeFits, StationFits
<1> QED BY <1>4, <1>5 DEF InStepAt, v

\* The Station closes, whatever it expected before and expects from now on.
LEMMA CloseInStep ==
  ASSUME NEW w \in WireState, NEW k \in 0..7, NEW h, NEW z, NEW st, NEW st2, NEW c \in CloseCodes,
         InStepAt(k, w, h, z, st)
  PROVE  InStepAt(k, StationClose(w, c), h, z, st2)
<1>1. CASE w.station # "open"
  <2>1. StationClose(w, c) = w
    BY <1>1 DEF StationClose
  <2>2. StationFits(k, w, st2)
    BY <1>1 DEF InStepAt, StationFits
  <2> QED BY <2>1, <2>2 DEF InStepAt
<1>2. CASE w.station = "open"
  <2> DEFINE v == StationClose(w, c)
  <2>1. /\ v.up = w.up /\ v.phone = w.phone /\ v.station = "closing"
        /\ v.down = w.down \/ (~w.broken /\ v.down = Append(w.down, CloseFrame(c)))
    BY <1>2 DEF StationClose, WireState
  <2> HIDE DEF v
  <2>2. PhoneAt(k, v, h, z) /\ UpFits(v, h) /\ StationFits(k, v, st2)
    BY <2>1 DEF InStepAt, PhoneAt, UpFits, StationFits
  <2>3. CASE v.down = w.down
    BY <2>2, <2>3 DEF InStepAt, DownFits, FrameInPlace, ChallengeFits, v
  <2>4. CASE ~w.broken /\ v.down = Append(w.down, CloseFrame(c))
    <3>1. \A i \in DOMAIN w.down : w.down[i].type # "close"
      BY <1>2, <2>4 DEF InStepAt, StationFits
    <3>2. /\ w.down \in Seq(WireFrame) /\ CloseFrame(c) \in WireFrame
          /\ CloseFrame(c).type = "close"
      BY WireTyped, FramesTyped DEF CloseFrame
    <3>3. /\ Len(v.down) = Len(w.down) + 1
          /\ \A i \in DOMAIN w.down : i \in DOMAIN v.down /\ v.down[i] = w.down[i]
          /\ \A i \in DOMAIN v.down : i \in DOMAIN w.down \/ i = Len(v.down)
          /\ v.down[Len(v.down)] = CloseFrame(c)
      BY <2>4, <3>2
    <3>4. DownFits(k, v)
      <4> SUFFICES ASSUME NEW i \in DOMAIN v.down
                   PROVE  FrameInPlace(k, v, i)
        BY DEF DownFits
      <4>1. CASE i \in DOMAIN w.down
        <5>1. FrameInPlace(k, w, i) /\ v.down[i] = w.down[i] /\ w.down[i].type # "close"
          BY <3>1, <3>3, <4>1 DEF InStepAt, DownFits
        <5>2. i = 2 => v.down[1] = w.down[1]
          BY <3>2, <3>3, <4>1
        <5> QED BY <5>1, <5>2 DEF FrameInPlace
      <4>2. CASE i = Len(v.down)
        BY <3>2, <3>3, <4>2 DEF FrameInPlace
      <4> QED BY <3>3, <4>1, <4>2
    <3>5. ChallengeFits(v, h)
      BY <3>2, <3>3 DEF InStepAt, ChallengeFits
    <3> QED BY <2>2, <3>4, <3>5 DEF InStepAt, v
  <2> QED BY <2>1, <2>3, <2>4
<1> QED BY <1>1, <1>2

\* The Station reads a frame.
LEMMA StationReadInStep ==
  ASSUME NEW w \in WireState, NEW k \in 0..7, NEW h, NEW z, NEW st,
         InStepAt(k, w, h, z, st), w.up # <<>>
  PROVE  InStepAt(k, StationRead(w), h, z, st)
<1> DEFINE v == StationRead(w)
<1>1. /\ v.down = w.down /\ v.phone = w.phone /\ v.station = w.station /\ v.broken = w.broken
      /\ v.up = Tail(w.up) /\ w.up \in Seq(WireFrame)
  BY WireTyped DEF StationRead, WireState
<1>2. \A i \in DOMAIN v.up : i + 1 \in DOMAIN w.up /\ v.up[i] = w.up[i + 1]
  BY <1>1
<1> HIDE DEF v
<1>3. UpFits(v, h)
  BY <1>1, <1>2 DEF InStepAt, UpFits
<1>4. PhoneAt(k, v, h, z) /\ DownFits(k, v) /\ ChallengeFits(v, h) /\ StationFits(k, v, st)
  BY <1>1 DEF InStepAt, PhoneAt, DownFits, FrameInPlace, ChallengeFits, StationFits
<1> QED BY <1>3, <1>4 DEF InStepAt, v

\* What the Station expects matters only while it can send.
LEMMA SilentInStep ==
  ASSUME NEW w, NEW k, NEW h, NEW z, NEW st, NEW st2,
         InStepAt(k, w, h, z, st), ~(w.station = "open" /\ ~w.broken)
  PROVE  InStepAt(k, w, h, z, st2)
BY DEF InStepAt, StationFits

\* An end that cannot send sends nothing.
LEMMA SilentSend ==
  ASSUME NEW w, ~(w.station = "open" /\ ~w.broken), NEW f
  PROVE  StationSend(w, f) = w
BY DEF StationSend

LEMMA SpokenSend ==
  ASSUME NEW w \in WireState, w.station = "open" /\ ~w.broken, NEW f \in WireFrame
  PROVE  LET v == StationSend(w, f)
         IN  /\ v \in WireState /\ v.station = "open" /\ ~v.broken
             /\ v.down = Append(w.down, f) /\ v.up = w.up /\ v.phone = w.phone
BY OperationsTyped DEF StationSend, WireState

LEMMA Appended ==
  ASSUME NEW q \in Seq(WireFrame), NEW f \in WireFrame
  PROVE  /\ Append(q, f) \in Seq(WireFrame) /\ Len(Append(q, f)) = Len(q) + 1
         /\ \A i \in 1..Len(q) : Append(q, f)[i] = q[i]
         /\ Append(q, f)[Len(q) + 1] = f
BY AppendProperties

\* The answer to hello.
LEMMA HelloInStep ==
  ASSUME NEW w \in WireState, NEW k \in 0..7, NEW h, NEW z, NEW s \in Socket,
         InStepAt(k, w, h, z, "hello"), w.phone = "open"
  PROVE  InStepAt(k, StationSend(StationSend(w, Frame("hello-ack")), Nonced("auth-challenge", s)),
                  h, z, "auth-response")
<1> DEFINE u == StationSend(w, Frame("hello-ack"))
           v == StationSend(u, Nonced("auth-challenge", s))
<1>1. CASE ~(w.station = "open" /\ ~w.broken)
  BY <1>1, SilentSend, SilentInStep
<1>2. CASE w.station = "open" /\ ~w.broken
  <2>0. Frame("hello-ack") \in WireFrame /\ Nonced("auth-challenge", s) \in WireFrame
    BY FramesTyped
  <2>1. /\ u \in WireState /\ u.station = "open" /\ ~u.broken
        /\ u.down = Append(w.down, Frame("hello-ack")) /\ u.up = w.up /\ u.phone = w.phone
    BY <1>2, <2>0, SpokenSend
  <2>2. /\ v.station = "open" /\ ~v.broken
        /\ v.down = Append(u.down, Nonced("auth-challenge", s)) /\ v.up = w.up /\ v.phone = w.phone
    BY <2>0, <2>1, SpokenSend
  <2> HIDE DEF u, v
  <2>3. k = 1 /\ w.down = <<>> /\ h = "awaiting-hello-ack"
    BY <1>2, WireTyped DEF InStepAt, StationFits, PhoneAt
  <2>4. u.down \in Seq(WireFrame) /\ Len(u.down) = 1 /\ u.down[1] = Frame("hello-ack")
    BY <2>0, <2>1, <2>3
  <2>5. /\ Len(v.down) = 2 /\ DOMAIN v.down = {1, 2}
        /\ v.down[1].type = "hello-ack" /\ v.down[2].type = "auth-challenge"
    BY <2>0, <2>2, <2>4 DEF Frame, Nonced
  <2>6. DownFits(k, v) /\ ChallengeFits(v, h) /\ StationFits(k, v, "auth-response")
    BY <2>2, <2>3, <2>5 DEF DownFits, FrameInPlace, Script, Place, ChallengeFits, StationFits
  <2>7. PhoneAt(k, v, h, z) /\ UpFits(v, h)
    BY <2>2 DEF InStepAt, PhoneAt, UpFits
  <2> QED BY <2>6, <2>7 DEF InStepAt, v, u
<1> QED BY <1>1, <1>2

\* The attach that follows a signature.
LEMMA AttachInStep ==
  ASSUME NEW w \in WireState, NEW k \in 0..7, NEW h, NEW z,
         InStepAt(k, w, h, z, "auth-response"), h \notin Unsigned
  PROVE  InStepAt(k, SendAttach(w), h, z, "capturing")
<1> DEFINE t == StationSend(w, Frame("auth-ok"))
           u == StationSend(t, Frame("terminal-size-owner"))
           v == StationSend(u, Frame("resize"))
<1>0. v = SendAttach(w)
  BY DEF SendAttach
<1>1. CASE ~(w.station = "open" /\ ~w.broken)
  BY <1>0, <1>1, SilentSend, SilentInStep
<1>2. CASE w.station = "open" /\ ~w.broken
  <2>0. /\ Frame("auth-ok") \in WireFrame /\ Frame("terminal-size-owner") \in WireFrame
        /\ Frame("resize") \in WireFrame
    BY FramesTyped
  <2>1. /\ t \in WireState /\ t.station = "open" /\ ~t.broken
        /\ t.down = Append(w.down, Frame("auth-ok")) /\ t.up = w.up /\ t.phone = w.phone
    BY <1>2, <2>0, SpokenSend
  <2>2. /\ u \in WireState /\ u.station = "open" /\ ~u.broken
        /\ u.down = Append(t.down, Frame("terminal-size-owner")) /\ u.up = w.up /\ u.phone = w.phone
    BY <2>0, <2>1, SpokenSend
  <2>3. /\ v.station = "open" /\ ~v.broken
        /\ v.down = Append(u.down, Frame("resize")) /\ v.up = w.up /\ v.phone = w.phone
    BY <2>0, <2>2, SpokenSend
  <2> HIDE DEF t, u, v
  <2>4. k = 3 /\ w.down = <<>>
    BY <1>2, WireTyped DEF InStepAt, StationFits, PhoneAt, Unsigned
  <2>5. /\ t.down \in Seq(WireFrame) /\ Len(t.down) = 1 /\ t.down[1] = Frame("auth-ok")
        /\ u.down \in Seq(WireFrame) /\ Len(u.down) = 2 /\ u.down[1] = Frame("auth-ok")
        /\ u.down[2] = Frame("terminal-size-owner")
    BY <2>0, <2>1, <2>2, <2>4
  <2>6. /\ Len(v.down) = 3 /\ v.down \in Seq(WireFrame)
        /\ v.down[1] = u.down[1] /\ v.down[2] = u.down[2] /\ v.down[3] = Frame("resize")
    <3>1. 1 \in 1..Len(u.down) /\ 2 \in 1..Len(u.down)
      BY <2>5
    <3> QED BY <2>0, <2>3, <2>5, <3>1, Appended
  <2>7. /\ Len(v.down) = 3 /\ DOMAIN v.down = {1, 2, 3}
        /\ v.down[1].type = "auth-ok" /\ v.down[2].type = "terminal-size-owner"
        /\ v.down[3].type = "resize"
    BY <2>5, <2>6 DEF Frame
  <2>8. DownFits(k, v) /\ ChallengeFits(v, h) /\ StationFits(k, v, "capturing")
    BY <2>3, <2>4, <2>7 DEF DownFits, FrameInPlace, Script, Place, ChallengeFits, StationFits
  <2>9. PhoneAt(k, v, h, z) /\ UpFits(v, h)
    BY <2>3 DEF InStepAt, PhoneAt, UpFits
  <2> QED BY <1>0, <2>8, <2>9 DEF InStepAt
<1> QED BY <1>1, <1>2

\* The snapshot.
LEMMA CaptureInStep ==
  ASSUME NEW w \in WireState, NEW k \in 0..7, NEW h, NEW z,
         InStepAt(k, w, h, z, "capturing")
  PROVE  InStepAt(k, StationSend(w, Frame("session-snapshot")), h, z,
                  IF w.station = "open" THEN "attached" ELSE "deaf")
<1> DEFINE v == StationSend(w, Frame("session-snapshot"))
<1>1. CASE ~(w.station = "open" /\ ~w.broken)
  BY <1>1, SilentSend, SilentInStep
<1>2. CASE w.station = "open" /\ ~w.broken
  <2>0. Frame("session-snapshot") \in WireFrame /\ Frame("session-snapshot").type = "session-snapshot"
    BY FramesTyped DEF Frame
  <2>1. /\ v.station = "open" /\ ~v.broken
        /\ v.down = Append(w.down, Frame("session-snapshot")) /\ v.up = w.up /\ v.phone = w.phone
    BY <1>2, <2>0, SpokenSend
  <2>2. w.down \in Seq(WireFrame)
    BY WireTyped
  <2>3. /\ \A i \in DOMAIN w.down : w.down[i].type # "close" /\ FrameInPlace(k, w, i)
        /\ \/ k + Len(w.down) = 6
           \/ k = 6 /\ Len(w.down) = 1 /\ w.down[1].type = "terminal-size-owner"
    BY <1>2 DEF InStepAt, StationFits, DownFits
  <2> HIDE DEF v
  <2>4. /\ Len(v.down) = Len(w.down) + 1
        /\ \A i \in DOMAIN w.down : i \in DOMAIN v.down /\ v.down[i] = w.down[i]
        /\ \A i \in DOMAIN v.down : i \in DOMAIN w.down \/ i = Len(v.down)
        /\ Len(v.down) \in DOMAIN v.down
        /\ v.down[Len(v.down)].type = "session-snapshot"
    BY <2>0, <2>1, <2>2
  <2>5. DownFits(k, v)
    <3> SUFFICES ASSUME NEW i \in DOMAIN v.down
                 PROVE  FrameInPlace(k, v, i)
      BY DEF DownFits
    <3>1. CASE i \in DOMAIN w.down
      <4>1. i = 2 => v.down[1] = w.down[1]
        BY <2>2, <2>4, <3>1
      <4> QED BY <2>3, <2>4, <3>1, <4>1 DEF FrameInPlace
    <3>2. CASE i = Len(v.down)
      <4>1. CASE k + Len(w.down) = 6
        <5>1. k + i = 7 /\ v.down[i].type = "session-snapshot"
          BY <2>2, <2>4, <3>2, <4>1
        <5> QED BY <5>1 DEF FrameInPlace, Script, Place
      <4>2. CASE k = 6 /\ Len(w.down) = 1 /\ w.down[1].type = "terminal-size-owner"
        <5>1. v.down[1] = w.down[1]
          BY <2>2, <2>4, <4>2
        <5> QED BY <2>4, <3>2, <4>2, <5>1 DEF FrameInPlace
      <4> QED BY <2>3, <4>1, <4>2
    <3> QED BY <2>4, <3>1, <3>2
  <2>6. h \notin Unsigned
    <3> SUFFICES ASSUME h \in Unsigned
                 PROVE  FALSE
      OBVIOUS
    <3>1. k <= 3
      BY DEF InStepAt, PhoneAt, Unsigned
    <3>2. Len(w.down) = 6 - k /\ Len(w.down) \in DOMAIN w.down
      BY <2>2, <2>3, <3>1
    <3>3. w.down[Len(w.down)].type = "resize"
      BY <2>3, <3>1, <3>2 DEF FrameInPlace, Script, Place
    <3> QED BY <3>2, <3>3 DEF InStepAt, ChallengeFits
  <2>7. ChallengeFits(v, h) /\ StationFits(k, v, "attached")
    BY <2>1, <2>3, <2>4, <2>6 DEF ChallengeFits, StationFits
  <2>8. PhoneAt(k, v, h, z) /\ UpFits(v, h)
    BY <2>1 DEF InStepAt, PhoneAt, UpFits
  <2> QED BY <1>2, <2>5, <2>7, <2>8 DEF InStepAt, v
<1> QED BY <1>1, <1>2

\* A notice to a viewer being attached, or a live frame.
LEMMA PublishInStep ==
  ASSUME NEW w \in WireState, NEW k \in 0..7, NEW h, NEW z, NEW st, NEW type,
         InStepAt(k, w, h, z, st), w.down = <<>>,
         \/ st = "attached" /\ type \in {"output", "resize", "terminal-size-owner", "alert"}
         \/ st = "capturing" /\ type = "terminal-size-owner"
  PROVE  InStepAt(k, StationSend(w, Frame(type)), h, z, st)
<1> DEFINE v == StationSend(w, Frame(type))
<1>1. CASE ~(w.station = "open" /\ ~w.broken)
  BY <1>1, SilentSend
<1>2. CASE w.station = "open" /\ ~w.broken
  <2>1. Frame(type) \in WireFrame
    BY FramesTyped
  <2>2. /\ v.station = "open" /\ ~v.broken
        /\ v.down = Append(w.down, Frame(type)) /\ v.up = w.up /\ v.phone = w.phone
    BY <1>2, <2>1, SpokenSend
  <2> HIDE DEF v
  <2>3. v.down = <<Frame(type)>>
    BY <2>2
  <2>4. Len(v.down) = 1 /\ DOMAIN v.down = {1} /\ v.down[1].type = type
    BY <2>3 DEF Frame
  <2>5. (st = "attached" => k = 7) /\ (st = "capturing" => k = 6)
    BY <1>2 DEF InStepAt, StationFits
  <2>6. h \notin Unsigned
    BY <2>5 DEF InStepAt, PhoneAt, Unsigned
  <2>7. DownFits(k, v) /\ ChallengeFits(v, h) /\ StationFits(k, v, st)
    BY <2>2, <2>4, <2>5, <2>6 DEF DownFits, FrameInPlace, ChallengeFits, StationFits
  <2>8. PhoneAt(k, v, h, z) /\ UpFits(v, h)
    BY <2>2 DEF InStepAt, PhoneAt, UpFits
  <2> QED BY <2>7, <2>8 DEF InStepAt, v
<1> QED BY <1>1, <1>2

\* The Station's end, or the network, is gone.
LEMMA LostInStep ==
  ASSUME NEW w, NEW v, NEW k \in 0..7, NEW h, NEW z, NEW st, PhoneAt(k, w, h, z),
         v.phone = w.phone, v.down = <<CloseFrame("gone")>>,
         v.up = <<>> \/ v.up = <<CloseFrame("gone")>>,
         v.station # "unaware", v.station = "open" => v.broken
  PROVE  InStepAt(k, v, h, z, st)
<1>1. /\ Len(v.down) = 1 /\ DOMAIN v.down = {1} /\ v.down[1].type = "close"
      /\ \A i \in DOMAIN v.up : v.up[i].type = "close"
  BY DEF CloseFrame
<1>2. DownFits(k, v) /\ ChallengeFits(v, h) /\ StationFits(k, v, st) /\ UpFits(v, h)
  BY <1>1 DEF DownFits, FrameInPlace, ChallengeFits, StationFits, UpFits
<1>3. PhoneAt(k, v, h, z)
  BY DEF PhoneAt
<1> QED BY <1>2, <1>3 DEF InStepAt

\* The Station has received a close frame.
LEMMA ShutInStep ==
  ASSUME NEW w \in WireState, NEW k \in 0..7, NEW h, NEW z, NEW st, NEW st2, NEW c \in CloseCodes,
         InStepAt(k, w, h, z, st), w.phone # "closed"
  PROVE  InStepAt(k, StationShut(w, c), h, z, st2)
<1> DEFINE u == StationClose(w, c)
           v == [u EXCEPT !.station = "closed", !.up = <<>>]
<1>1. u \in WireState /\ InStepAt(k, u, h, z, st) /\ u.phone = w.phone
  BY OperationsTyped, CloseInStep, PhoneEnd
<1> HIDE DEF u
<1>2. v.down = u.down /\ v.phone = w.phone /\ v.up = <<>> /\ v.station = "closed"
  BY <1>1 DEF WireState
<1>3. StationShut(w, c) = v
  BY <1>2 DEF StationShut, Settle, u
<1> HIDE DEF v
<1>4. PhoneAt(k, v, h, z) /\ DownFits(k, v) /\ ChallengeFits(v, h)
  BY <1>1, <1>2 DEF InStepAt, PhoneAt, DownFits, FrameInPlace, ChallengeFits
<1>5. UpFits(v, h) /\ StationFits(k, v, st2)
  BY <1>2 DEF UpFits, StationFits
<1> QED BY <1>3, <1>4, <1>5 DEF InStepAt

\* The frame the phone reads next.
LEMMA HeadInPlace ==
  ASSUME NEW w \in WireState, NEW k \in 0..7, DownFits(k, w), w.down # <<>>,
         ToPhone(w).type # "close"
  PROVE  /\ w.down[1] = ToPhone(w) /\ 1 \in DOMAIN w.down
         /\ LET type == ToPhone(w).type IN
              \/ type \in Script /\ Place(type) = k + 1
              \/ k = 6 /\ type = "terminal-size-owner"
              \/ k = 7 /\ type \in {"terminal-size-owner", "resize", "output", "alert"}
<1>1. w.down[1] = ToPhone(w) /\ 1 \in DOMAIN w.down
  BY WireTyped DEF ToPhone
<1>2. FrameInPlace(k, w, 1)
  BY <1>1 DEF DownFits
<1> QED BY <1>1, <1>2 DEF FrameInPlace

\* What is left of a queue once its first frame is read.
LEMMA Unread ==
  ASSUME NEW w \in WireState, w.down # <<>>
  PROVE  LET v == PhoneRead(w)
         IN  /\ v \in WireState
             /\ v.up = w.up /\ v.phone = w.phone /\ v.station = w.station /\ v.broken = w.broken
             /\ Len(v.down) = Len(w.down) - 1 /\ Len(v.down) \in Nat
             /\ \A i \in DOMAIN v.down : /\ i \in Nat \ {0} /\ i + 1 \in DOMAIN w.down
                                         /\ v.down[i] = w.down[i + 1]
             /\ \A i \in DOMAIN w.down : i = 1 \/ (i - 1 \in DOMAIN v.down /\ v.down[i - 1] = w.down[i])
<1>1. w.down \in Seq(WireFrame)
  BY WireTyped
<1>2. /\ PhoneRead(w) \in WireState
      /\ PhoneRead(w).up = w.up /\ PhoneRead(w).phone = w.phone
      /\ PhoneRead(w).station = w.station /\ PhoneRead(w).broken = w.broken
      /\ PhoneRead(w).down = Tail(w.down)
  BY OperationsTyped DEF PhoneRead, WireState
<1> QED BY <1>1, <1>2

\* Reading the next frame of the script.
LEMMA ReadScript ==
  ASSUME NEW w \in WireState, NEW k \in 0..6, NEW st, NEW v, w.down # <<>>,
         DownFits(k, w), StationFits(k, w, st),
         w.down[1].type \in Script, Place(w.down[1].type) = k + 1,
         v.down = PhoneRead(w).down, v.station = w.station, v.broken = w.broken
  PROVE  DownFits(k + 1, v) /\ StationFits(k + 1, v, st)
<1>0. /\ 1 \in DOMAIN w.down /\ Len(w.down) \in Nat
      /\ Len(v.down) = Len(w.down) - 1 /\ Len(v.down) \in Nat
      /\ \A i \in DOMAIN v.down : /\ i \in Nat \ {0} /\ i + 1 \in DOMAIN w.down
                                  /\ v.down[i] = w.down[i + 1]
      /\ \A i \in DOMAIN w.down : i = 1 \/ (i - 1 \in DOMAIN v.down /\ v.down[i - 1] = w.down[i])
  BY Unread, WireTyped
<1>1. DownFits(k + 1, v)
  <2> SUFFICES ASSUME NEW i \in DOMAIN v.down
               PROVE  FrameInPlace(k + 1, v, i)
    BY DEF DownFits
  <2>1. /\ i \in Nat \ {0} /\ v.down[i] = w.down[i + 1] /\ FrameInPlace(k, w, i + 1)
    BY <1>0 DEF DownFits
  <2>2. ~(i + 1 = 2 /\ k = 6 /\ w.down[1].type = "terminal-size-owner")
    BY DEF Place
  <2>3. \/ v.down[i].type = "close" /\ i = Len(v.down)
        \/ v.down[i].type \in Script /\ Place(v.down[i].type) = k + (i + 1)
    <3>1. i + 1 = Len(w.down) => i = Len(v.down)
      <4>1. Len(w.down) \in Nat /\ Len(v.down) = Len(w.down) - 1
        BY <1>0
      <4> QED BY <2>1, <4>1
    <3>2. i + 1 # 1 /\ (i + 1 = 2 => i = 1)
      BY <2>1
    <3> QED BY <2>1, <2>2, <3>1, <3>2 DEF FrameInPlace
  <2>4. k + (i + 1) = (k + 1) + i
    BY <2>1
  <2> QED BY <2>3, <2>4 DEF FrameInPlace
<1>2. StationFits(k + 1, v, st)
  <2>1. v.station # "unaware"
    BY DEF StationFits
  <2> SUFFICES ASSUME v.station = "open", ~v.broken
               PROVE  StationFits(k + 1, v, st)
    BY <2>1 DEF StationFits
  <2>2. \A i \in DOMAIN v.down : v.down[i].type # "close"
    BY <1>0 DEF StationFits
  <2>3. k + Len(w.down) = (k + 1) + Len(v.down)
    <3>1. Len(w.down) \in Nat /\ Len(v.down) \in Nat /\ Len(v.down) = Len(w.down) - 1
      BY <1>0
    <3>2. \A m, n \in Nat : n = m - 1 => k + m = (k + 1) + n
      OBVIOUS
    <3> QED BY <3>1, <3>2
  <2>4. ~(k = 6 /\ Len(w.down) = 1 /\ w.down[1].type = "terminal-size-owner")
    BY DEF Place
  <2>5. CASE st = "attached"
    <3>1. k # 7 /\ \E i \in DOMAIN w.down : w.down[i].type = "session-snapshot"
      BY <2>5 DEF StationFits
    <3>2. PICK i \in DOMAIN w.down : w.down[i].type = "session-snapshot"
      BY <3>1
    <3>3. CASE i = 1
      BY <2>1, <2>2, <2>5, <3>2, <3>3 DEF StationFits, Place
    <3>4. CASE i # 1
      <4>1. i - 1 \in DOMAIN v.down /\ v.down[i - 1].type = "session-snapshot"
        BY <1>0, <3>2, <3>4
      <4> QED BY <2>1, <2>2, <2>5, <4>1 DEF StationFits
    <3> QED BY <3>3, <3>4
  <2>6. CASE st # "attached"
    BY <2>1, <2>2, <2>3, <2>4, <2>6 DEF StationFits
  <2> QED BY <2>5, <2>6
<1> QED BY <1>1, <1>2

\* Reading a notice or a live frame.
LEMMA ReadLive ==
  ASSUME NEW w \in WireState, NEW k \in {6, 7}, NEW st, NEW v, w.down # <<>>,
         DownFits(k, w), StationFits(k, w, st),
         \/ k = 6 /\ w.down[1].type = "terminal-size-owner"
         \/ k = 7 /\ w.down[1].type \in {"terminal-size-owner", "resize", "output", "alert"},
         v.down = PhoneRead(w).down, v.station = w.station, v.broken = w.broken
  PROVE  DownFits(k, v) /\ StationFits(k, v, st)
<1>0. /\ 1 \in DOMAIN w.down /\ Len(w.down) \in Nat
      /\ Len(v.down) = Len(w.down) - 1 /\ Len(v.down) \in Nat
      /\ \A i \in DOMAIN v.down : /\ i \in Nat \ {0} /\ i + 1 \in DOMAIN w.down
                                  /\ v.down[i] = w.down[i + 1]
      /\ \A i \in DOMAIN w.down : i = 1 \/ (i - 1 \in DOMAIN v.down /\ v.down[i - 1] = w.down[i])
  BY Unread, WireTyped
<1>1. DownFits(k, v)
  <2> SUFFICES ASSUME NEW i \in DOMAIN v.down
               PROVE  FrameInPlace(k, v, i)
    BY DEF DownFits
  <2>1. /\ i \in Nat \ {0} /\ v.down[i] = w.down[i + 1] /\ FrameInPlace(k, w, i + 1)
    BY <1>0 DEF DownFits
  <2>2. \A type \in Script : Place(type) \in 1..7
    BY DEF Script, Place
  <2>3. \/ v.down[i].type = "close" /\ i = Len(v.down)
        \/ i = 1 /\ k = 6 /\ v.down[i].type = "session-snapshot"
    <3>1. i + 1 = Len(w.down) => i = Len(v.down)
      <4>1. Len(w.down) \in Nat /\ Len(v.down) = Len(w.down) - 1
        BY <1>0
      <4> QED BY <2>1, <4>1
    <3>2. i + 1 # 1 /\ (i + 1 = 2 => i = 1)
      BY <2>1
    <3>3. v.down[i].type \in Script => Place(v.down[i].type) # k + (i + 1)
      BY <2>1, <2>2
    <3> QED BY <2>1, <3>1, <3>2, <3>3 DEF FrameInPlace
  <2> QED BY <2>3 DEF FrameInPlace, Script, Place
<1>2. StationFits(k, v, st)
  <2>1. v.station # "unaware"
    BY DEF StationFits
  <2> SUFFICES ASSUME v.station = "open", ~v.broken
               PROVE  StationFits(k, v, st)
    BY <2>1 DEF StationFits
  <2>2. \A i \in DOMAIN v.down : v.down[i].type # "close"
    BY <1>0 DEF StationFits
  <2>3. CASE st = "attached"
    <3>1. CASE k = 7
      BY <2>1, <2>2, <2>3, <3>1 DEF StationFits
    <3>2. CASE k = 6
      <4>1. PICK i \in DOMAIN w.down : w.down[i].type = "session-snapshot"
        BY <2>3, <3>2 DEF StationFits
      <4>2. i - 1 \in DOMAIN v.down /\ v.down[i - 1].type = "session-snapshot"
        BY <1>0, <3>2, <4>1
      <4> QED BY <2>1, <2>2, <2>3, <4>2 DEF StationFits
    <3> QED BY <3>1, <3>2
  <2>4. CASE st # "attached"
    <3>1. st = "capturing" /\ k = 6 /\ Len(w.down) = 1
      BY <1>0, <2>1, <2>4 DEF StationFits
    <3>2. k + Len(v.down) = 6
      BY <1>0, <3>1
    <3> QED BY <2>1, <2>2, <3>1, <3>2 DEF StationFits
  <2> QED BY <2>3, <2>4
<1> QED BY <1>1, <1>2

\* The rest of what it means to be in step, once a frame is read.
LEMMA ReadInStep ==
  ASSUME NEW w \in WireState, NEW k \in 0..7, NEW h, NEW z, NEW st, InStepAt(k, w, h, z, st),
         w.down # <<>>, NEW m \in 0..7, NEW g, NEW y,
         DownFits(m, PhoneRead(w)), StationFits(m, PhoneRead(w), st), PhoneAt(m, w, g, y),
         g \in Unsigned => h \in Unsigned
  PROVE  InStepAt(m, PhoneRead(w), g, y, st)
<1> DEFINE v == PhoneRead(w)
<1>1. /\ v.up = w.up /\ v.phone = w.phone
      /\ \A i \in DOMAIN v.down : i + 1 \in DOMAIN w.down /\ v.down[i] = w.down[i + 1]
  BY Unread
<1> HIDE DEF v
<1>2. PhoneAt(m, v, g, y) /\ ChallengeFits(v, g) /\ UpFits(v, g)
  BY <1>1 DEF InStepAt, PhoneAt, ChallengeFits, UpFits
<1> QED BY <1>2 DEF InStepAt, v

\* The phone reads a frame of the connection in step: it was expecting it.
LEMMA PhoneReadsInStep ==
  ASSUME NetOK, ClientOK, NEW s \in Socket, IsCurrent(s),
         InStep(net[s], handshake, sized, stage[s]),
         \/ OnHelloAck(s) \/ OnAuthChallenge(s) \/ OnAuthOk(s) \/ OnSizeOwner(s)
         \/ OnResize(s) \/ OnSnapshot(s) \/ OnOutput(s) \/ OnAlert(s)
  PROVE  Reading(s) /\ InStep(PhoneRead(net[s]), handshake', sized', stage[s])
<1> DEFINE w == net[s]
           st == stage[s]
           type == ToPhone(w).type
<1>0. w \in WireState
  BY DEF NetOK
<1>1. PICK k \in 0..7 : InStepAt(k, w, handshake, sized, st)
  BY DEF InStep
<1>2. w.down # <<>> /\ type \in {"hello-ack", "auth-challenge", "auth-ok", "terminal-size-owner",
                                 "resize", "session-snapshot", "output", "alert"}
  BY DEF OnHelloAck, OnAuthChallenge, OnAuthOk, OnSizeOwner, OnResize, OnSnapshot, OnOutput,
         OnAlert, Handles, PhoneHears
<1>3. /\ PhoneAt(k, w, handshake, sized) /\ DownFits(k, w) /\ ChallengeFits(w, handshake)
      /\ StationFits(k, w, st)
  BY <1>1 DEF InStepAt
<1>4. /\ w.down[1].type = type /\ 1 \in DOMAIN w.down
      /\ \/ type \in Script /\ Place(type) = k + 1
         \/ k = 6 /\ type = "terminal-size-owner"
         \/ k = 7 /\ type \in {"terminal-size-owner", "resize", "output", "alert"}
  BY <1>0, <1>2, <1>3, HeadInPlace
<1>5. ASSUME NEW m \in 1..7, m = k + 1, type \in Script, Place(type) = m
      PROVE  /\ DownFits(m, PhoneRead(w)) /\ StationFits(m, PhoneRead(w), st)
             /\ \A g, y : PhoneAt(m, w, g, y) /\ (g \in Unsigned => handshake \in Unsigned)
                            => InStep(PhoneRead(w), g, y, st)
  <2>0. k \in 0..6 /\ m \in 0..7
    BY <1>5
  <2>1. /\ PhoneRead(w).station = w.station /\ PhoneRead(w).broken = w.broken
    BY <1>0, <1>2, Unread
  <2>2. DownFits(k + 1, PhoneRead(w)) /\ StationFits(k + 1, PhoneRead(w), st)
    BY <1>0, <1>2, <1>3, <1>4, <1>5, <2>0, <2>1, ReadScript
  <2>3. DownFits(m, PhoneRead(w)) /\ StationFits(m, PhoneRead(w), st)
    BY <1>5, <2>2
  <2> HIDE DEF w, st
  <2>4. ASSUME NEW g, NEW y, PhoneAt(m, w, g, y), g \in Unsigned => handshake \in Unsigned
        PROVE  InStepAt(m, PhoneRead(w), g, y, st)
    BY <1>0, <1>1, <1>2, <2>0, <2>3, <2>4, ReadInStep
  <2> QED BY <2>0, <2>3, <2>4 DEF InStep
<1>6. ASSUME \/ k = 6 /\ type = "terminal-size-owner"
             \/ k = 7 /\ type \in {"terminal-size-owner", "resize", "output", "alert"}
      PROVE  InStep(PhoneRead(w), handshake, sized, st)
  <2>1. /\ PhoneRead(w).station = w.station /\ PhoneRead(w).broken = w.broken
    BY <1>0, <1>2, Unread
  <2>2. k \in {6, 7}
    BY <1>6
  <2>3. DownFits(k, PhoneRead(w)) /\ StationFits(k, PhoneRead(w), st)
    BY <1>0, <1>2, <1>3, <1>4, <1>6, <2>1, <2>2, ReadLive
  <2> HIDE DEF w, st, type
  <2>4. InStepAt(k, PhoneRead(w), handshake, sized, st)
    BY <1>0, <1>1, <1>2, <1>3, <2>3, ReadInStep
  <2> QED BY <2>4 DEF InStep
<1> HIDE DEF w, st
<1>7. /\ Place("hello-ack") = 2 /\ Place("auth-challenge") = 3 /\ Place("auth-ok") = 4
      /\ Place("terminal-size-owner") = 5 /\ Place("resize") = 6 /\ Place("session-snapshot") = 7
      /\ \A f \in {"hello-ack", "auth-challenge", "auth-ok", "terminal-size-owner", "resize",
                   "session-snapshot"} : f \in Script
      /\ "output" \notin Script /\ "alert" \notin Script
  BY DEF Place, Script
<1>8. CASE OnHelloAck(s)
  <2>1. type = "hello-ack"
    BY <1>8 DEF OnHelloAck, Handles, PhoneHears, w
  <2>2. k = 1
    BY <1>4, <1>7, <2>1
  <2>3. handshake = "awaiting-hello-ack" /\ PhoneAt(2, w, "awaiting-challenge", sized)
    BY <1>3, <2>2 DEF PhoneAt
  <2>4. Reading(s) /\ handshake' = "awaiting-challenge" /\ sized' = sized
    BY <1>8, <2>3 DEF OnHelloAck, Handles, HandshakeGoesTo
  <2>5. handshake \in Unsigned
    BY <2>3 DEF Unsigned
  <2>6. InStep(PhoneRead(w), "awaiting-challenge", sized, st)
    BY <1>5, <1>7, <2>1, <2>2, <2>3, <2>5
  <2> QED BY <2>4, <2>6 DEF w, st
<1>9. CASE OnAuthChallenge(s)
  <2>1. type = "auth-challenge"
    BY <1>9 DEF OnAuthChallenge, Handles, PhoneHears, w
  <2>2. k = 2
    BY <1>4, <1>7, <2>1
  <2>3. handshake = "awaiting-challenge" /\ PhoneAt(3, w, "signing-challenge", sized)
    BY <1>3, <2>2 DEF PhoneAt
  <2>4. Reading(s) /\ handshake' = "signing-challenge" /\ sized' = sized
    BY <1>9, <2>3 DEF OnAuthChallenge, Handles
  <2>5. handshake \in Unsigned
    BY <2>3 DEF Unsigned
  <2>6. InStep(PhoneRead(w), "signing-challenge", sized, st)
    BY <1>5, <1>7, <2>1, <2>2, <2>3, <2>5
  <2> QED BY <2>4, <2>6 DEF w, st
<1>10. CASE OnAuthOk(s)
  <2>1. type = "auth-ok"
    BY <1>10 DEF OnAuthOk, Handles, PhoneHears, w
  <2>2. k = 3
    BY <1>4, <1>7, <2>1
  <2>3. handshake \notin Unsigned
    BY <1>3, <1>4, <2>1 DEF ChallengeFits
  <2>4. handshake = "awaiting-auth-ok" /\ PhoneAt(4, w, "awaiting-snapshot", sized)
    BY <1>3, <2>2, <2>3 DEF PhoneAt, Unsigned
  <2>5. Reading(s) /\ handshake' = "awaiting-snapshot" /\ sized' = sized
    BY <1>10, <2>4 DEF OnAuthOk, Handles, HandshakeGoesTo
  <2>6. "awaiting-snapshot" \notin Unsigned
    BY DEF Unsigned
  <2>7. InStep(PhoneRead(w), "awaiting-snapshot", sized, st)
    BY <1>5, <1>7, <2>1, <2>2, <2>4, <2>6
  <2> QED BY <2>5, <2>7 DEF w, st
<1>11. CASE OnSizeOwner(s)
  <2>1. type = "terminal-size-owner"
    BY <1>11 DEF OnSizeOwner, Handles, PhoneHears, w
  <2>2. k \in {4, 6, 7}
    BY <1>4, <1>7, <2>1
  <2>3. handshake \in {"ready", "awaiting-snapshot"}
    BY <1>3, <2>2 DEF PhoneAt
  <2>4. Reading(s) /\ handshake' = handshake /\ sized' = sized
    BY <1>11, <2>3 DEF OnSizeOwner, Handles, clientVars
  <2>5. CASE k = 4
    <3>1. PhoneAt(5, w, handshake, sized)
      BY <1>3, <2>5 DEF PhoneAt
    <3> QED BY <1>5, <1>7, <2>1, <2>4, <2>5, <3>1 DEF w, st
  <2>6. CASE k \in {6, 7}
    BY <1>6, <2>1, <2>4, <2>6 DEF w, st
  <2> QED BY <2>2, <2>5, <2>6
<1>12. CASE OnResize(s)
  <2>1. type = "resize"
    BY <1>12 DEF OnResize, Handles, PhoneHears, w
  <2>2. k \in {5, 7}
    BY <1>4, <1>7, <2>1
  <2>3. CASE k = 5
    <3>1. handshake = "awaiting-snapshot" /\ PhoneAt(6, w, handshake, TRUE)
      BY <1>3, <2>3 DEF PhoneAt
    <3>2. Reading(s) /\ handshake' = handshake /\ sized' = (sized \/ handshake = "awaiting-snapshot")
      BY <1>12, <3>1 DEF OnResize, Handles
    <3>3. sized' = TRUE
      BY <3>1, <3>2
    <3>4. \A g, y : PhoneAt(6, w, g, y) /\ (g \in Unsigned => handshake \in Unsigned)
                      => InStep(PhoneRead(w), g, y, st)
      BY <1>5, <1>7, <2>1, <2>3
    <3>5. InStep(PhoneRead(w), handshake, TRUE, st)
      BY <3>1, <3>4, Zenon
    <3> QED BY <3>2, <3>3, <3>5 DEF w, st
  <2>4. CASE k = 7
    <3>1. handshake = "ready" /\ sized
      BY <1>3, <2>4 DEF PhoneAt
    <3>2. Reading(s) /\ handshake' = handshake /\ sized' = (sized \/ handshake = "awaiting-snapshot")
      BY <1>12, <3>1 DEF OnResize, Handles
    <3>3. sized' = sized
      BY <3>1, <3>2, Zenon DEF ClientOK
    <3>4. InStep(PhoneRead(w), handshake, sized, st)
      BY <1>6, <2>1, <2>4
    <3> QED BY <3>2, <3>3, <3>4 DEF w, st
  <2> QED BY <2>2, <2>3, <2>4
<1>13. CASE OnSnapshot(s)
  <2>1. type = "session-snapshot"
    BY <1>13 DEF OnSnapshot, Handles, PhoneHears, w
  <2>2. k = 6
    BY <1>4, <1>7, <2>1
  <2>3. handshake = "awaiting-snapshot" /\ sized /\ PhoneAt(7, w, "ready", sized)
    BY <1>3, <2>2 DEF PhoneAt
  <2>4. Reading(s) /\ handshake' = "ready" /\ sized' = sized
    BY <1>13, <2>3 DEF OnSnapshot, Handles
  <2>5. "ready" \notin Unsigned
    BY DEF Unsigned
  <2>6. \A g, y : PhoneAt(7, w, g, y) /\ (g \in Unsigned => handshake \in Unsigned)
                    => InStep(PhoneRead(w), g, y, st)
    BY <1>5, <1>7, <2>1, <2>2
  <2>7. InStep(PhoneRead(w), "ready", sized, st)
    BY <2>3, <2>5, <2>6, Zenon
  <2> QED BY <2>4, <2>7 DEF w, st
<1>14. CASE OnOutput(s) \/ OnAlert(s)
  <2>1. type \in {"output", "alert"}
    BY <1>14 DEF OnOutput, OnAlert, Handles, PhoneHears, w
  <2>2. k = 7
    BY <1>4, <1>7, <2>1
  <2>3. handshake = "ready"
    BY <1>3, <2>2 DEF PhoneAt
  <2>4. Reading(s) /\ handshake' = handshake /\ sized' = sized
    BY <1>14, <2>3 DEF OnOutput, OnAlert, Handles, clientVars, HandshakeState
  <2> QED BY <1>6, <2>1, <2>2, <2>4 DEF w, st
<1> QED BY <1>8, <1>9, <1>10, <1>11, <1>12, <1>13, <1>14

\* The wire is open, and the phone says hello.
LEMMA OpenInStep ==
  ASSUME NetOK, NEW s \in Socket, IsCurrent(s), InStep(net[s], handshake, sized, stage[s]),
         OnOpen(s)
  PROVE  InStep(net'[s], handshake, sized, stage[s])
<1> DEFINE w == net[s]
           r == PhoneRead(w)
           opened == [r EXCEPT !.phone = IF @ = "connecting" THEN "open" ELSE @]
           v == PhoneSend(opened, Frame("hello"))
<1>0. w \in WireState /\ w.down # <<>> /\ ToPhone(w).type = "upgraded"
  BY DEF NetOK, OnOpen, PhoneHears
<1>1. PICK k \in 0..7 : InStepAt(k, w, handshake, sized, stage[s])
  BY DEF InStep
<1>2. w.down[1].type = "upgraded" /\ k = 0 /\ "upgraded" \in Script /\ Place("upgraded") = 1
  BY <1>0, <1>1, HeadInPlace DEF InStepAt, Place, Script
<1>3. w.phone = "connecting" /\ handshake = "awaiting-hello-ack" /\ ~sized
  BY <1>1, <1>2 DEF InStepAt, PhoneAt
<1>4. /\ r \in WireState /\ r.up = w.up /\ r.phone = w.phone /\ r.station = w.station
      /\ r.broken = w.broken
      /\ \A i \in DOMAIN r.down : i + 1 \in DOMAIN w.down /\ r.down[i] = w.down[i + 1]
  BY <1>0, Unread
<1>5. net'[s] = v
  BY <1>0 DEF NetOK, OnOpen
<1> HIDE DEF w, r
<1>6. /\ opened \in WireState /\ opened.phone = "open" /\ opened.up = w.up /\ opened.down = r.down
      /\ opened.station = w.station /\ opened.broken = w.broken
  BY <1>3, <1>4 DEF WireState
<1> HIDE DEF opened
<1>7. /\ v.phone = "open" /\ v.down = r.down /\ v.station = w.station /\ v.broken = w.broken
      /\ v.up = w.up \/ v.up = Append(w.up, Frame("hello"))
  BY <1>6 DEF PhoneSend, WireState
<1> HIDE DEF v
<1>8. 0 \in 0..6 /\ 0 + 1 = 1 /\ DownFits(0, w) /\ StationFits(0, w, stage[s])
  BY <1>1, <1>2 DEF InStepAt
<1>9. DownFits(0 + 1, v) /\ StationFits(0 + 1, v, stage[s])
  BY <1>0, <1>2, <1>7, <1>8, ReadScript DEF r
<1>10. PhoneAt(1, v, handshake, sized)
  BY <1>3, <1>7 DEF PhoneAt
<1>11. ChallengeFits(v, handshake)
  BY <1>1, <1>4, <1>7 DEF InStepAt, ChallengeFits
<1>12. UpFits(v, handshake)
  <2>1. \A i \in DOMAIN w.up : w.up[i].type # "auth-response"
    BY <1>1, <1>3 DEF InStepAt, UpFits, Unsigned
  <2>2. \A i \in DOMAIN v.up : v.up[i].type # "auth-response"
    <3>1. w.up \in Seq(WireFrame) /\ Frame("hello") \in WireFrame /\ Frame("hello").type = "hello"
      BY <1>0, WireTyped, FramesTyped DEF Frame
    <3> QED BY <1>7, <2>1, <3>1, AppendProperties
  <2> QED BY <1>7, <2>2 DEF UpFits
<1>13. InStepAt(1, v, handshake, sized, stage[s])
  BY <1>8, <1>9, <1>10, <1>11, <1>12 DEF InStepAt
<1> QED BY <1>5, <1>13 DEF InStep

\* A nonce of the connection in step is signed.
LEMMA SignInStep ==
  ASSUME NetOK, NEW s \in Socket, handshake = "signing-challenge",
         InStep(net[s], handshake, sized, stage[s])
  PROVE  InStep(PhoneSend(net[s], Nonced("auth-response", s)), "awaiting-auth-ok", sized, stage[s])
<1> DEFINE w == net[s]
           v == PhoneSend(w, Nonced("auth-response", s))
<1>0. w \in WireState
  BY DEF NetOK
<1>1. PICK k \in 0..7 : InStepAt(k, w, handshake, sized, stage[s])
  BY DEF InStep
<1>2. k = 3 /\ w.phone = "open"
  BY <1>1 DEF InStepAt, PhoneAt
<1>3. /\ v.phone = w.phone /\ v.down = w.down /\ v.station = w.station /\ v.broken = w.broken
      /\ v.up = w.up \/ v.up = Append(w.up, Nonced("auth-response", s))
  BY <1>0 DEF PhoneSend, WireState
<1> HIDE DEF w, v
<1>4. PhoneAt(k, v, "awaiting-auth-ok", sized) /\ "awaiting-auth-ok" \notin Unsigned
  BY <1>1, <1>2, <1>3 DEF InStepAt, PhoneAt, Unsigned
<1>5. DownFits(k, v) /\ StationFits(k, v, stage[s])
  BY <1>1, <1>3 DEF InStepAt, DownFits, FrameInPlace, StationFits
<1>6. ChallengeFits(v, "awaiting-auth-ok") /\ UpFits(v, "awaiting-auth-ok")
  BY <1>2, <1>3, <1>4 DEF ChallengeFits, UpFits
<1> QED BY <1>4, <1>5, <1>6 DEF InStep, InStepAt, w, v

\* The connection begins.
LEMMA DialInStep ==
  ASSUME NEW st
  PROVE  InStep(Dial, "awaiting-hello-ack", FALSE, st)
<1>1. /\ Dial.phone = "connecting" /\ Dial.station = "unaware"
      /\ Dial.up = <<>> /\ Dial.down = <<>>
  BY DEF Dial, Idle
<1>2. /\ PhoneAt(0, Dial, "awaiting-hello-ack", FALSE) /\ DownFits(0, Dial)
      /\ ChallengeFits(Dial, "awaiting-hello-ack") /\ UpFits(Dial, "awaiting-hello-ack")
      /\ StationFits(0, Dial, st)
  BY <1>1 DEF PhoneAt, DownFits, ChallengeFits, UpFits, StationFits
<1>3. InStepAt(0, Dial, "awaiting-hello-ack", FALSE, st)
  BY <1>2, Zenon DEF InStepAt
<1>4. 0 \in 0..7
  OBVIOUS
<1> QED BY <1>3, <1>4, Zenon DEF InStep

\* A step of the phone leaves a connection it has not begun to close in step.
LEMMA PhoneKeepsInStep ==
  ASSUME NetOK, ClientOK, AttemptInv, AttemptInv', OrderInv, NEW s \in Socket, Phone(s),
         UNCHANGED stage, NEW t \in Socket, Live(net'[t])
  PROVE  InStep(net'[t], handshake', sized', stage'[t])
<1>0. net[s] \in WireState /\ net[t] \in WireState
  BY DEF NetOK
<1>1. ws' = t
  BY DEF AttemptInv, OneAttempt, IsCurrent, Live
<1>2. Live(net[t]) => ws = t /\ InStep(net[t], handshake, sized, stage[t])
  BY DEF AttemptInv, OneAttempt, IsCurrent, Live, OrderInv
<1>3. CASE Connect(s) \/ Retry(s) \/ ReconnectTimerFires(s)
  <2>1. /\ ws' = s /\ handshake' = "awaiting-hello-ack" /\ sized' = FALSE
        /\ net' = [net EXCEPT ![s] = Dial] \/ net' = [CurrentClosed EXCEPT ![s] = Dial]
    BY <1>3 DEF Connect, Retry, ReconnectTimerFires, StartAttempts, OpenSocket
  <2>2. net'[t] = Dial
    BY <1>1, <2>1 DEF NetOK, CurrentClosed
  <2> QED BY <2>1, <2>2, DialInStep
<1>4. CASE OnOpen(s)
  <2>1. InStep(net[t], handshake, sized, stage[t]) /\ IsCurrent(t)
    BY <1>2, <1>4, OpeningRevivesNothing DEF IsCurrent
  <2>2. UNCHANGED <<handshake, sized, stage>>
    BY <1>4 DEF OnOpen, clientVars
  <2>3. CASE t = s
    BY <1>4, <2>1, <2>2, <2>3, OpenInStep
  <2>4. CASE t # s
    <3>1. net'[t] = net[t]
      BY <1>4, <2>4 DEF OnOpen, NetOK
    <3> QED BY <2>1, <2>2, <3>1
  <2> QED BY <2>3, <2>4
<1>5. CASE OnClose(s)
  <2>1. net' = [net EXCEPT ![s] = PhoneShut(net[s], ToPhone(net[s]).code)]
    BY <1>5 DEF OnClose
  <2>2. t # s /\ net'[t] = net[t]
    BY <1>0, <2>1, PhoneEnd DEF NetOK
  <2>3. ~IsCurrent(s)
    BY <1>2, <2>2 DEF IsCurrent
  <2>4. UNCHANGED <<handshake, sized>>
    BY <1>5, <2>3 DEF OnClose, clientVars
  <2> QED BY <1>2, <2>2, <2>4
<1>6. CASE OnStaleFrame(s)
  <2>1. Live(net[t])
    BY <1>6, ReadingEndsNothing DEF OnStaleFrame
  <2>2. t # s
    BY <1>2, <1>6, <2>1 DEF OnStaleFrame, IsCurrent
  <2>3. net'[t] = net[t] /\ UNCHANGED <<handshake, sized>>
    BY <1>6, <2>2 DEF OnStaleFrame, Reading, NetOK, clientVars
  <2> QED BY <1>2, <2>1, <2>3
<1>7. CASE \/ OnHelloAck(s) \/ OnAuthChallenge(s) \/ OnAuthOk(s) \/ OnSizeOwner(s)
           \/ OnResize(s) \/ OnSnapshot(s) \/ OnOutput(s) \/ OnAlert(s)
  <2>1. IsCurrent(s)
    BY <1>7 DEF OnHelloAck, OnAuthChallenge, OnAuthOk, OnSizeOwner, OnResize, OnSnapshot,
                OnOutput, OnAlert, Handles
  <2>2. Live(net[t])
    <3>1. \E type : /\ PhoneHears(s, type)
                    /\ Reading(s) \/ net' = [net EXCEPT ![s] = PhoneClose(PhoneRead(@), "protocol")]
      BY <1>7 DEF OnHelloAck, OnAuthChallenge, OnAuthOk, OnSizeOwner, OnResize, OnSnapshot,
                  OnOutput, OnAlert, Handles
    <3>2. \A u \in Socket : Live(net[u])' => Live(net[u])
      BY <3>1, ReadingEndsNothing
    <3> QED BY <3>2
  <2>3. t = s /\ InStep(net[s], handshake, sized, stage[s])
    BY <1>2, <2>1, <2>2 DEF IsCurrent
  <2>4. Reading(s) /\ InStep(PhoneRead(net[s]), handshake', sized', stage[s])
    BY <1>7, <2>1, <2>3, PhoneReadsInStep
  <2>5. net'[s] = PhoneRead(net[s])
    BY <2>4 DEF Reading, NetOK
  <2> QED BY <2>3, <2>4, <2>5
<1>8. CASE NonceSigned(s)
  <2>1. Live(net[t])
    <3>1. net'[t].phone = net[t].phone
      BY <1>0, <1>8, PhoneEnd DEF NonceSigned, NetOK
    <3> QED BY <3>1 DEF Live
  <2>2. CASE StillSigning(s)
    <3>1. t = s /\ handshake = "signing-challenge" /\ InStep(net[s], handshake, sized, stage[s])
      BY <1>2, <2>1, <2>2 DEF StillSigning, IsCurrent
    <3>2. /\ net'[s] = PhoneSend(net[s], Nonced("auth-response", s))
          /\ handshake' = "awaiting-auth-ok" /\ sized' = sized
      BY <1>8, <2>2 DEF NonceSigned, NetOK
    <3> QED BY <3>1, <3>2, SignInStep
  <2>3. CASE ~StillSigning(s)
    BY <1>2, <1>8, <2>1, <2>3 DEF NonceSigned
  <2> QED BY <2>2, <2>3
<1>9. ASSUME NEW kind \in SigningError, SigningFails(s, kind)
      PROVE  InStep(net'[t], handshake', sized', stage'[t])
  <2>1. Live(net[t])
    BY <1>9, PhoneEnd DEF SigningFails, NetOK
  <2>2. ~StillSigning(s)
    <3> SUFFICES ASSUME StillSigning(s)
                 PROVE  FALSE
      OBVIOUS
    <3>1. t = s
      BY <1>2, <2>1 DEF StillSigning, IsCurrent
    <3>2. net'[s] = PhoneClose(net[s], "policy")
      BY <1>9 DEF SigningFails, NetOK
    <3> QED BY <1>0, <3>1, <3>2, PhoneEnd
  <2> QED BY <1>2, <1>9, <2>1, <2>2 DEF SigningFails
<1> QED BY <1>3, <1>4, <1>5, <1>6, <1>7, <1>8, <1>9 DEF Phone, PhoneReceives

\* So does a step of the Station.
LEMMA StationKeepsInStep ==
  ASSUME NetOK, GateOK, OrderInv, NEW s \in Socket, Station(s), UNCHANGED <<handshake, sized>>,
         NEW t \in Socket, Live(net'[t])
  PROVE  InStep(net'[t], handshake', sized', stage'[t])
<1> DEFINE w == net[t]
           h == handshake
           z == sized
           st == stage[t]
<1>0. w \in WireState
  BY DEF NetOK
<1>1. PICK k \in 0..7 : InStepAt(k, w, h, z, st)
  BY StationLeavesPhone DEF Live, OrderInv, InStep
<1>2. SUFFICES ASSUME t = s
               PROVE  InStepAt(k, net'[s], h, z, stage'[s])
  <2>1. t # s => net'[t] = w /\ stage'[t] = st
    BY StationElsewhere
  <2> QED BY <1>1, <2>1 DEF InStep
<1>3. /\ NetOK /\ net[s] = w /\ stage[s] = st /\ stage \in [Socket -> Stage]
  BY <1>2 DEF GateOK
<1>4. CASE OnConnection(s)
  <2>1. w.station = "unaware"
    BY <1>3, <1>4 DEF OnConnection
  <2>2. InStepAt(k, Accept(w), h, z, "hello") /\ Accept(w) \in WireState
    BY <1>0, <1>1, <2>1, AcceptInStep, OperationsTyped
  <2>3. InStepAt(k, StationClose(Accept(w), "limit"), h, z, "deaf")
    BY <2>2, CloseInStep DEF CloseCodes
  <2>4. \/ net'[s] = Accept(w) /\ stage'[s] = "hello"
        \/ net'[s] = StationClose(Accept(w), "limit") /\ stage'[s] = "deaf"
    BY <1>3, <1>4 DEF OnConnection, Welcome, TurnAway, NetOK
  <2> QED BY <2>2, <2>3, <2>4
<1>5. CASE ConnectionFails(s)
  <2>1. net'[s] = Refuse(w) /\ stage'[s] = st
    BY <1>3, <1>5 DEF ConnectionFails, NetOK, gateVars
  <2>2. /\ Refuse(w).phone = w.phone /\ Refuse(w).station = "closed" /\ Refuse(w).up = <<>>
        /\ Refuse(w).down = <<CloseFrame("gone")>>
    BY <1>0 DEF Refuse, WireState
  <2>3. PhoneAt(k, w, h, z)
    BY <1>1 DEF InStepAt
  <2>4. InStepAt(k, Refuse(w), h, z, st)
    BY <2>2, <2>3, LostInStep
  <2> QED BY <2>1, <2>4
<1>6. CASE OnHello(s)
  <2>1. w.up # <<>> /\ Head(w.up).type = "hello" /\ st = "hello"
    BY <1>3, <1>6 DEF OnHello, StationHears, ToStation
  <2>2. StationRead(w) \in WireState /\ InStepAt(k, StationRead(w), h, z, "hello")
    BY <1>0, <1>1, <2>1, OperationsTyped, StationReadInStep
  <2>3. StationRead(w).phone = "open"
    <3>1. 1 \in DOMAIN w.up /\ w.up[1].type = "hello"
      BY <1>0, <2>1, WireTyped
    <3>2. w.phone = "open"
      BY <1>1, <3>1 DEF InStepAt, UpFits
    <3> QED BY <1>0, <3>2, PhoneEnd
  <2>4. InStepAt(k, StationSend(StationSend(StationRead(w), Frame("hello-ack")),
                                Nonced("auth-challenge", s)), h, z, "auth-response")
    BY <2>2, <2>3, HelloInStep
  <2>5. InStepAt(k, StationClose(StationRead(w), "mismatch"), h, z, "deaf")
    BY <2>2, CloseInStep DEF CloseCodes
  <2>6. \/ /\ net'[s] = StationSend(StationSend(StationRead(w), Frame("hello-ack")),
                                    Nonced("auth-challenge", s))
           /\ stage'[s] = "auth-response"
        \/ net'[s] = StationClose(StationRead(w), "mismatch") /\ stage'[s] = "deaf"
    BY <1>3, <1>6 DEF OnHello, NetOK
  <2> QED BY <2>4, <2>5, <2>6
<1>7. CASE OnAuthResponse(s)
  <2>1. w.up # <<>> /\ Head(w.up).type = "auth-response" /\ st = "auth-response"
    BY <1>3, <1>7 DEF OnAuthResponse, StationHears, ToStation
  <2>2. StationRead(w) \in WireState /\ InStepAt(k, StationRead(w), h, z, "auth-response")
    BY <1>0, <1>1, <2>1, OperationsTyped, StationReadInStep
  <2>3. h \notin Unsigned
    <3>1. 1 \in DOMAIN w.up /\ w.up[1].type = "auth-response"
      BY <1>0, <2>1, WireTyped
    <3> QED BY <1>1, <3>1 DEF InStepAt, UpFits
  <2>4. InStepAt(k, SendAttach(StationRead(w)), h, z, "capturing")
    BY <2>2, <2>3, AttachInStep
  <2>5. InStepAt(k, StationClose(StationRead(w), "rejected"), h, z, "deaf")
    BY <2>2, CloseInStep DEF CloseCodes
  <2>6. \/ net'[s] = SendAttach(StationRead(w)) /\ stage'[s] = "capturing"
        \/ net'[s] = StationClose(StationRead(w), "rejected") /\ stage'[s] = "deaf"
    BY <1>3, <1>7 DEF OnAuthResponse, NetOK
  <2> QED BY <2>4, <2>5, <2>6
<1>8. CASE OnUnheard(s)
  <2>1. w.up # <<>>
    BY <1>3, <1>8 DEF OnUnheard, StationHears
  <2>2. net'[s] = StationRead(w) /\ stage'[s] = st
    BY <1>3, <1>8 DEF OnUnheard, NetOK, gateVars
  <2> QED BY <1>0, <1>1, <2>1, <2>2, StationReadInStep
<1>9. CASE OnStationClose(s)
  <2>1. ToStation(w).code \in CloseCodes
    BY <1>3, <1>9, Heard, CloseCodeTyped DEF OnStationClose
  <2>2. w.phone # "closed"
    BY <1>2, StationLeavesPhone DEF Live
  <2>3. net'[s] = StationShut(w, ToStation(w).code)
    BY <1>3, <1>9 DEF OnStationClose, NetOK
  <2>4. InStepAt(k, StationShut(w, ToStation(w).code), h, z, stage'[s])
    BY <1>0, <1>1, <2>1, <2>2, ShutInStep
  <2> QED BY <2>3, <2>4
<1>10. CASE HandshakeTimeout(s) \/ SweepRevoked(s)
  <2>1. PICK c \in CloseCodes : net'[s] = StationClose(w, c)
    BY <1>3, <1>10 DEF HandshakeTimeout, SweepRevoked, NetOK, CloseCodes
  <2> QED BY <1>0, <1>1, <2>1, CloseInStep
<1>11. CASE SnapshotCaptured(s)
  <2>1. st = "capturing"
    BY <1>3, <1>11 DEF SnapshotCaptured
  <2>2. /\ net'[s] = StationSend(w, Frame("session-snapshot"))
        /\ stage'[s] = IF w.station = "open" THEN "attached" ELSE "deaf"
    BY <1>3, <1>11 DEF SnapshotCaptured, NetOK
  <2> QED BY <1>0, <1>1, <2>1, <2>2, CaptureInStep
<1>12. ASSUME NEW type \in {"output", "resize", "terminal-size-owner", "alert"}, Publish(s, type)
       PROVE  InStepAt(k, net'[s], h, z, stage'[s])
  <2>1. w.down = <<>> /\ (st = "attached" \/ (st = "capturing" /\ type = "terminal-size-owner"))
    BY <1>3, <1>12 DEF Publish
  <2>2. net'[s] = StationSend(w, Frame(type)) /\ stage'[s] = st
    BY <1>3, <1>12 DEF Publish, NetOK, gateVars
  <2> QED BY <1>0, <1>1, <2>1, <2>2, PublishInStep
<1> QED BY <1>4, <1>5, <1>6, <1>7, <1>8, <1>9, <1>10, <1>11, <1>12
        DEF Station, ConnectionDecided, StationReceives

\* A connection whose network or Station is gone is in step: nothing but the
\* close is under way.
LEMMA GoneInStep ==
  ASSUME NEW w \in WireState, NEW h, NEW z, NEW st, NEW st2, InStep(w, h, z, st), Live(w),
         NEW v, v = StationGone(w) \/ (v = Break(w) /\ w.station \in {"open", "closing"})
  PROVE  InStep(v, h, z, st2)
<1>1. PICK k \in 0..7 : InStepAt(k, w, h, z, st) /\ PhoneAt(k, w, h, z)
  BY DEF InStep, InStepAt
<1>2. CASE v = Break(w) /\ w.station \in {"open", "closing"}
  <2>1. /\ v.phone = w.phone /\ v.down = <<CloseFrame("gone")>> /\ v.up = <<CloseFrame("gone")>>
        /\ v.station = w.station /\ v.broken
    BY <1>2 DEF Break, WireState
  <2>2. InStepAt(k, v, h, z, st2)
    BY <1>1, <1>2, <2>1, LostInStep
  <2> QED BY <2>2 DEF InStep
<1>3. CASE v = StationGone(w) /\ w.station # "closed"
  <2>1. /\ v.phone = w.phone /\ v.down = <<CloseFrame("gone")>> /\ v.up = <<>>
        /\ v.station = "closed"
    BY <1>3 DEF StationGone, Refuse, Settle, WireState, Live
  <2>2. InStepAt(k, v, h, z, st2)
    BY <1>1, <2>1, LostInStep
  <2> QED BY <2>2 DEF InStep
<1>4. CASE v = StationGone(w) /\ w.station = "closed"
  <2>1. v = w
    BY <1>4 DEF StationGone
  <2>2. InStepAt(k, w, h, z, st2)
    BY <1>1, <1>4, SilentInStep
  <2> QED BY <2>1, <2>2 DEF InStep
<1> QED BY <1>2, <1>3, <1>4 DEF WireState

\* No step puts a close for a protocol error under way: a connection in step is
\* read, and one the phone has begun to close is not closed again.
LEMMA NoProtocolClose ==
  ASSUME NetOK, ClientOK, GateOK, RejectionInv, OrderInv, [Next]_vars, NEW t \in Socket
  PROVE  ~Carries(net'[t], CloseFrame("protocol"))
<1> SUFFICES ASSUME Carries(net'[t], CloseFrame("protocol"))
             PROVE  FALSE
  OBVIOUS
<1>0. net[t] \in WireState /\ ~Carries(net[t], CloseFrame("protocol"))
  BY DEF NetOK, OrderInv
<1>1. ProtocolClose(t)
  <2>1. CloseFrame("protocol") \notin StationFrame(t) \cup PhoneFrame(t) \cup {CloseFrame("rejected")}
    BY DEF StationFrame, PhoneFrame, CloseFrame, Frame, Nonced
  <2> QED BY <1>0, <2>1, PutsUnderWay
<1>2. net[t].down # <<>> /\ net'[t] = PhoneClose(PhoneRead(net[t]), "protocol")
  BY <1>1 DEF ProtocolClose, NetOK
<1>3. /\ PhoneRead(net[t]) \in WireState /\ PhoneRead(net[t]).phone = net[t].phone
      /\ ~Carries(PhoneRead(net[t]), CloseFrame("protocol"))
  BY <1>0, <1>2, OperationsTyped, OperationsCarry, PhoneEnd
<1>4. CASE Live(net[t])
  <2>1. IsCurrent(t)
    BY <1>1 DEF ProtocolClose, OnHelloAck, OnAuthChallenge, OnAuthOk, OnSizeOwner, OnResize,
                OnSnapshot, OnOutput, OnAlert, Handles
  <2>2. InStep(net[t], handshake, sized, stage[t])
    BY <1>4 DEF OrderInv
  <2>3. Reading(t)
    BY <1>1, <2>1, <2>2, PhoneReadsInStep DEF ProtocolClose
  <2>4. net'[t] = PhoneRead(net[t])
    BY <2>3 DEF Reading, NetOK
  <2> QED BY <1>3, <2>4
<1>5. CASE ~Live(net[t])
  <2>1. net'[t] = PhoneRead(net[t])
    BY <1>2, <1>3, <1>5 DEF PhoneClose, Live
  <2> QED BY <1>3, <2>1
<1> QED BY <1>4, <1>5

LEMMA OrderStep ==
  TypeOK /\ AttemptInv /\ AttemptInv' /\ RejectionInv /\ OrderInv /\ [Next]_vars => OrderInv'
<1> SUFFICES ASSUME NetOK, ClientOK, GateOK, AttemptInv, AttemptInv', RejectionInv, OrderInv,
                    [Next]_vars, NEW t \in Socket
             PROVE  /\ ~Carries(net'[t], CloseFrame("protocol"))
                    /\ Live(net'[t]) => InStep(net'[t], handshake', sized', stage'[t])
  BY TypeSplit DEF OrderInv
<1>0. net[t] \in WireState /\ (Live(net[t]) => InStep(net[t], handshake, sized, stage[t]))
  BY DEF NetOK, OrderInv
<1>1. ~Carries(net'[t], CloseFrame("protocol"))
  BY NoProtocolClose
<1> SUFFICES ASSUME Live(net'[t])
             PROVE  InStep(net'[t], handshake', sized', stage'[t])
  BY <1>1
<1>2. CASE Disconnect
  <2>1. ws' = NoSocket
    BY <1>2 DEF Disconnect
  <2> QED BY <2>1, SocketAssumption DEF AttemptInv, OneAttempt, IsCurrent, Live
<1>3. ASSUME NEW s \in Socket, Phone(s), UNCHANGED gateVars
      PROVE  InStep(net'[t], handshake', sized', stage'[t])
  BY <1>3, PhoneKeepsInStep DEF gateVars
<1>4. ASSUME NEW s \in Socket, Station(s), UNCHANGED clientVars
      PROVE  InStep(net'[t], handshake', sized', stage'[t])
  BY <1>4, StationKeepsInStep DEF clientVars
<1>5. ASSUME NEW s \in Socket, ConnectionLost(s)
      PROVE  InStep(net'[t], handshake', sized', stage'[t])
  <2>1. UNCHANGED <<handshake, sized, stage>>
    BY <1>5 DEF ConnectionLost, clientVars, gateVars
  <2>2. CASE t = s
    <3>1. net'[t] = Break(net[t]) /\ net[t].station \in {"open", "closing"}
      BY <1>5, <2>2 DEF ConnectionLost, Breakable, NetOK
    <3>2. Live(net[t])
      BY <1>0, <3>1, PhoneEnd DEF Live
    <3>3. InStep(Break(net[t]), handshake, sized, stage[t])
      BY <1>0, <3>1, <3>2, GoneInStep
    <3> QED BY <2>1, <3>1, <3>3
  <2>3. CASE t # s
    BY <1>0, <1>5, <2>1, <2>3 DEF ConnectionLost, NetOK
  <2> QED BY <2>2, <2>3
<1>6. CASE Revoke /\ UNCHANGED clientVars
  BY <1>0, <1>6 DEF Revoke, clientVars
<1>7. CASE Restart /\ UNCHANGED clientVars
  <2>1. net'[t] = StationGone(net[t]) /\ UNCHANGED <<handshake, sized>>
    BY <1>7 DEF Restart, clientVars
  <2>2. Live(net[t])
    BY <1>0, <2>1, PhoneEnd DEF Live
  <2>3. InStep(StationGone(net[t]), handshake, sized, stage'[t])
    BY <1>0, <2>2, GoneInStep
  <2> QED BY <2>1, <2>3
<1>8. CASE UNCHANGED vars
  BY <1>0, <1>8 DEF vars, clientVars, gateVars
<1> QED BY <1>2, <1>3, <1>4, <1>5, <1>6, <1>7, <1>8 DEF Next

LEMMA OrderInvariant == Spec => []OrderInv
<1>1. Init => OrderInv
  <2>1. \A f : ~Carries(Idle, f)
    BY NewQueueMembers DEF Idle, Carries
  <2>2. ~Live(Idle)
    BY DEF Live, Idle
  <2> QED BY <2>1, <2>2 DEF Init, OrderInv
<1> QED BY <1>1, TypeCorrect, AttemptInvariant, RejectionInvariant, OrderStep, PTL DEF Spec

\* However sockets are replaced and frames, signatures, restarts and losses
\* interleave, the phone never meets a frame it has to answer with PROTOCOL_ERROR.
THEOREM NoProtocolErrors == Spec => []NoProtocolError
<1>1. OrderInv => NoProtocolError
  BY DEF OrderInv, NoProtocolError, Carries, InQueue
<1> QED BY <1>1, OrderInvariant, PTL
=============================================================================
