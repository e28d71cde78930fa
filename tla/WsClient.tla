------------------------------ MODULE WsClient ------------------------------
(***************************************************************************)
(* The phone's connection to one Station: WsClient (client/wsClient.ts)     *)
(* as StationConnection.tsx and the user drive it.                          *)
(*                                                                         *)
(* JavaScript runs one callback at a time, so an action is one callback: a  *)
(* socket event, a timer, the answer to the biometric prompt, a tap.  The   *)
(* hazards are callbacks that outlive the socket they belong to: a frame, a *)
(* close event or a signature of a socket that was replaced meanwhile.      *)
(*                                                                         *)
(* isCurrentSocket compares the socket and its generation; the generation   *)
(* changes with every new socket and on disconnect, when ws is null, so the *)
(* comparison of the socket decides.  "ready" is handshake = "ready".       *)
(* After disconnect StationConnection drops the client, and connect makes a *)
(* new one: the client of this module is whichever is held, and there is    *)
(* none exactly when the state is "disconnected".                           *)
(***************************************************************************)
EXTENDS Wire, DeviceKey

CONSTANT MaxRetries   \* opts.maxRetries ?? 10
ASSUME RetriesAssumption == MaxRetries \in Nat

VARIABLES
  state,         \* ConnectionState
  retries,       \* failed attempts since the last success or connect()
  timers,        \* reconnect timers that are armed
  ws,            \* the current socket
  handshake,     \* handshakeState
  sized,         \* receivedInitialSize
  suppressed,    \* reconnectSuppressed
  authRejected,
  deliberate,    \* deliberatelyClosed
  errorKind,     \* why the connection has failed (read only while it has)
  prompts        \* sockets whose challenge is being signed

attemptVars == <<retries, timers>>
flagVars    == <<suppressed, authRejected, deliberate>>
clientVars  == <<state, attemptVars, ws, handshake, sized, flagVars, errorKind, prompts>>

ConnectionState == {"disconnected", "connecting", "connected", "reconnecting", "failed"}
HandshakeState == {"idle", "awaiting-hello-ack", "awaiting-challenge", "signing-challenge",
                    "awaiting-auth-ok", "awaiting-snapshot", "ready"}
\* What an outcome of signNonce other than a signature is reported as;
\* "biometric" stands for a prompt cancelled and for one that fails.
SigningErrorOf(outcome) ==
  {IF repair THEN "device-key-error" ELSE "biometric" : repair \in DeviceKeyRequiresRepair(outcome)}
SigningError ==
  UNION {SigningErrorOf(outcome) : outcome \in Sign({"alias"}, "alias") \ {"signature"}}
ErrorKind == SigningError \cup {"generic", "station-offline", "auth-rejection",
                                      "version-mismatch"}

ClientInit ==
  /\ state = "disconnected" /\ retries = 0 /\ timers = 0
  /\ ws = NoSocket /\ handshake = "idle" /\ sized = FALSE
  /\ suppressed = FALSE /\ authRejected = FALSE /\ deliberate = FALSE
  /\ errorKind = "generic" /\ prompts = {}

IsCurrent(s) == ws = s

-----------------------------------------------------------------------------
(* Opening a socket                                                          *)

\* openSocket, on the wire s.  A signature still pending for the connection
\* that used s before is never delivered.
OpenSocket(s) ==
  /\ net[s] = Idle
  /\ ws' = s /\ handshake' = "awaiting-hello-ack"
  /\ sized' = FALSE /\ suppressed' = FALSE
  /\ prompts' = prompts \ {s}

\* clearTimeout(this.reconnectTimer)
TimerCleared == IF timers > 0 THEN timers - 1 ELSE 0

\* connect(): a new series of attempts.
StartAttempts(s) ==
  /\ deliberate' = FALSE /\ authRejected' = FALSE
  /\ retries' = 0
  /\ state' = "connecting" /\ errorKind' = "generic"
  /\ OpenSocket(s)

\* disconnect(): the current socket, if there is one, is closed.
CurrentClosed == [s \in Socket |-> IF IsCurrent(s) THEN PhoneClose(net[s], "normal") ELSE net[s]]

\* StationConnection.connect: a Station is opened; a client that has failed is
\* disconnected and replaced, one that is trying or connected is kept.  The new
\* client knows nothing of a timer of the old one.
Connect(s) ==
  /\ state \in {"disconnected", "failed"}
  /\ StartAttempts(s)
  /\ timers' = IF state = "failed" THEN TimerCleared ELSE timers
  /\ net' = [CurrentClosed EXCEPT ![s] = Dial]

\* A connection that failed can be tried again, unless it needs a new pairing.
CanRetry == state = "failed" /\ errorKind \notin {"auth-rejection", "device-key-error"}

\* StationConnection.retry: by its button, or because the app comes back to the
\* foreground.
Retry(s) ==
  /\ CanRetry
  /\ timers' = TimerCleared
  /\ StartAttempts(s)
  /\ net' = [net EXCEPT ![s] = Dial]

\* Fault: the reconnect timer is left running.
DisconnectOnlySocket ==
  /\ state # "disconnected"
  /\ deliberate' = TRUE /\ state' = "disconnected"
  /\ ws' = NoSocket /\ handshake' = "idle" /\ sized' = FALSE
  /\ net' = CurrentClosed
  /\ retries' = 0 /\ suppressed' = FALSE /\ authRejected' = FALSE /\ errorKind' = "generic"
  /\ UNCHANGED <<timers, prompts>>

\* StationConnection.disconnect: the user leaves, and the client is dropped; of
\* what it knew only its timer, its socket and its prompts can act again.
Disconnect ==
  /\ state # "disconnected"
  /\ deliberate' = TRUE /\ state' = "disconnected"
  /\ ws' = NoSocket /\ handshake' = "idle" /\ sized' = FALSE
  /\ timers' = TimerCleared
  /\ net' = CurrentClosed
  /\ retries' = 0 /\ suppressed' = FALSE /\ authRejected' = FALSE /\ errorKind' = "generic"
  /\ UNCHANGED prompts

-----------------------------------------------------------------------------
(* Reconnecting                                                              *)

\* scheduleReconnect
ScheduleReconnect ==
  \/ /\ ~authRejected /\ retries < MaxRetries
     /\ state' = "reconnecting"
     /\ retries' = retries + 1 /\ timers' = timers + 1
     /\ UNCHANGED errorKind
  \/ /\ ~authRejected /\ retries >= MaxRetries
     /\ state' = "failed" /\ errorKind' = "station-offline"
     /\ UNCHANGED attemptVars

\* The backoff has passed: the next socket is opened.
ReconnectTimerFires(s) ==
  /\ timers > 0
  /\ timers' = timers - 1
  /\ state' = IF retries > 0 THEN "reconnecting" ELSE "connecting"
  /\ OpenSocket(s)
  /\ net' = [net EXCEPT ![s] = Dial]
  /\ UNCHANGED <<retries, authRejected, deliberate, errorKind>>

-----------------------------------------------------------------------------
(* Socket events                                                             *)

PhoneHears(s, type) ==
  net[s].phone # "closed" /\ net[s].down # <<>> /\ ToPhone(net[s]).type = type

\* What the phone's end of s does besides reading the frame.
Answering(s, f) == net' = [net EXCEPT ![s] = PhoneSend(PhoneRead(@), f)]
Reading(s) == net' = [net EXCEPT ![s] = PhoneRead(@)]

\* onopen of the current socket sends hello.
OnOpen(s) ==
  /\ PhoneHears(s, "upgraded")
  /\ LET opened == [PhoneRead(net[s]) EXCEPT !.phone = IF @ = "connecting" THEN "open" ELSE @]
     IN  net' = [net EXCEPT ![s] = IF IsCurrent(s) THEN PhoneSend(opened, Frame("hello"))
                                   ELSE opened]
  /\ UNCHANGED clientVars

\* A close event of the current socket ends the attempt or the connection; the
\* close code says whether another attempt can help.
OnClose(s) ==
  /\ PhoneHears(s, "close")
  /\ LET code == ToPhone(net[s]).code
     IN  /\ net' = [net EXCEPT ![s] = PhoneShut(@, code)]
         /\ \/ /\ ~IsCurrent(s)
               /\ UNCHANGED clientVars
            \/ /\ IsCurrent(s)
               /\ ws' = NoSocket /\ handshake' = "idle"
               /\ IF deliberate THEN
                    state' = "disconnected" /\ UNCHANGED <<attemptVars, authRejected, errorKind>>
                  ELSE IF suppressed THEN
                    UNCHANGED <<state, attemptVars, authRejected, errorKind>>
                  ELSE IF code = "rejected" THEN
                    /\ state' = "failed" /\ errorKind' = "auth-rejection"
                    /\ authRejected' = TRUE /\ UNCHANGED attemptVars
                  ELSE IF code = "mismatch" THEN
                    /\ state' = "failed" /\ errorKind' = "version-mismatch"
                    /\ UNCHANGED <<attemptVars, authRejected>>
                  ELSE ScheduleReconnect /\ UNCHANGED authRejected
               /\ UNCHANGED <<sized, suppressed, deliberate, prompts>>

\* A frame of a socket that was replaced is dropped.
OnStaleFrame(s) ==
  /\ ~IsCurrent(s)
  /\ \E type \in {"hello-ack", "auth-challenge", "auth-ok", "terminal-size-owner",
                  "resize", "session-snapshot", "output", "alert"} : PhoneHears(s, type)
  /\ Reading(s)
  /\ UNCHANGED clientVars

\* A frame of the current socket, in a handshake state that expects it; in any
\* other state the phone closes the connection with PROTOCOL_ERROR.
Handles(s, type, expected, Handler) ==
  /\ PhoneHears(s, type) /\ IsCurrent(s)
  /\ IF handshake \in expected THEN Handler
     ELSE /\ net' = [net EXCEPT ![s] = PhoneClose(PhoneRead(@), "protocol")]
          /\ UNCHANGED clientVars

HandshakeGoesTo(h) ==
  /\ handshake' = h
  /\ UNCHANGED <<state, attemptVars, ws, sized, flagVars, errorKind, prompts>>

OnHelloAck(s) ==
  Handles(s, "hello-ack", {"awaiting-hello-ack"},
          Reading(s) /\ HandshakeGoesTo("awaiting-challenge"))

\* signNonce is asked for a signature; the answer comes in a later callback.
OnAuthChallenge(s) ==
  Handles(s, "auth-challenge", {"awaiting-challenge"},
          /\ Reading(s)
          /\ handshake' = "signing-challenge"
          /\ prompts' = prompts \cup {s}
          /\ UNCHANGED <<state, attemptVars, ws, sized, flagVars, errorKind>>)

OnAuthOk(s) ==
  Handles(s, "auth-ok", {"awaiting-auth-ok"},
          Reading(s) /\ HandshakeGoesTo("awaiting-snapshot"))

OnSizeOwner(s) ==
  Handles(s, "terminal-size-owner", {"ready", "awaiting-snapshot"},
          Reading(s) /\ UNCHANGED clientVars)

\* Before the snapshot a resize only tells that the initial size has come.
OnResize(s) ==
  Handles(s, "resize", {"ready", "awaiting-snapshot"},
          /\ Reading(s)
          /\ sized' = (sized \/ handshake = "awaiting-snapshot")
          /\ UNCHANGED <<state, attemptVars, ws, handshake, flagVars, errorKind, prompts>>)

\* The snapshot needs the initial size before it; it completes the handshake.
OnSnapshot(s) ==
  Handles(s, "session-snapshot", IF sized THEN {"awaiting-snapshot"} ELSE {},
          /\ Reading(s)
          /\ handshake' = "ready" /\ state' = "connected" /\ retries' = 0
          /\ UNCHANGED <<timers, ws, sized, flagVars, errorKind, prompts>>)

\* Output before the handshake is done is a diagnostic, and is not shown.
OnOutput(s) ==
  Handles(s, "output", HandshakeState, Reading(s) /\ UNCHANGED clientVars)

\* Alerts and Session status.
OnAlert(s) ==
  Handles(s, "alert", {"ready"}, Reading(s) /\ UNCHANGED clientVars)

-----------------------------------------------------------------------------
(* The answer of signNonce                                                   *)

\* Fault: nobody asks after the socket once its nonce is signed.
StillSigningAssumed(s) == TRUE

\* The socket whose nonce was signed is still the one being authenticated.
StillSigning(s) == IsCurrent(s) /\ handshake = "signing-challenge"

NonceSigned(s) ==
  /\ s \in prompts
  /\ prompts' = prompts \ {s}
  /\ IF StillSigning(s)
       THEN /\ net' = [net EXCEPT ![s] = PhoneSend(@, Nonced("auth-response", s))]
            /\ handshake' = "awaiting-auth-ok"
       ELSE UNCHANGED <<net, handshake>>
  /\ UNCHANGED <<state, attemptVars, ws, sized, flagVars, errorKind>>

\* Fault: the null of a cancelled prompt is sent as a signature.
SigningFailsUnnoticed(s, kind) ==
  /\ s \in prompts
  /\ prompts' = prompts \ {s}
  /\ IF StillSigning(s)
       THEN /\ net' = [net EXCEPT ![s] = PhoneSend(@, Nonced("auth-response", NoSocket))]
            /\ handshake' = "awaiting-auth-ok"
       ELSE UNCHANGED <<net, handshake>>
  /\ UNCHANGED <<state, attemptVars, ws, sized, flagVars, errorKind>>

\* Fault: the attempt fails, but reconnecting is not suppressed.
SigningFailsUnsuppressed(s, kind) ==
  /\ s \in prompts
  /\ prompts' = prompts \ {s}
  /\ IF StillSigning(s)
       THEN /\ errorKind' = kind /\ state' = "failed"
            /\ net' = [net EXCEPT ![s] = PhoneClose(@, "policy")]
       ELSE UNCHANGED <<errorKind, state, net>>
  /\ UNCHANGED <<attemptVars, ws, handshake, sized, flagVars>>

\* Cancelled by the user, failed, or the key is gone: no attempt follows by itself.
SigningFails(s, kind) ==
  /\ s \in prompts
  /\ prompts' = prompts \ {s}
  /\ IF StillSigning(s)
       THEN /\ suppressed' = TRUE /\ errorKind' = kind /\ state' = "failed"
            /\ net' = [net EXCEPT ![s] = PhoneClose(@, "policy")]
       ELSE UNCHANGED <<suppressed, errorKind, state, net>>
  /\ UNCHANGED <<attemptVars, ws, handshake, sized, authRejected, deliberate>>
=============================================================================
