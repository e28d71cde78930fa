------------------------------- MODULE Protocol -------------------------------
(***************************************************************************)
(* Which frames decodeFrame accepts (shared/src/protocol.ts).  The receiver   *)
(* of one that it refuses closes the connection with MALFORMED_FRAME.         *)
(*                                                                         *)
(* A frame is a record of the fields that are validated.  A text stands as    *)
(* its length, a list of identifiers as its number of entries, and an         *)
(* optional field that is absent as Missing (a colour as NoColor).  A JSON    *)
(* value is the depth of its nesting, the size of its largest list or object  *)
(* and the length of its longest key.  What is left out is the alphabet of    *)
(* identifiers, cursors, methods and error codes.                             *)
(***************************************************************************)
EXTENDS Integers

MAX_ENCODED_FRAME_CHARS == 2 * 1024 * 1024
MAX_SESSION_SCROLLBACK_CHARS == 512 * 1024
MAX_SESSION_SCROLLBACK_CHUNK_CHARS == 64 * 1024
MAX_SNAPSHOT_CELLS == 100000
MAX_TERMINAL_ATTRIBUTES == 511
MAX_RPC_CHUNK_LENGTH == 16 * 1024

Missing == -1
Optional(values) == values \cup {Missing}
Text(longest) == 0..longest
NonEmpty(longest) == 1..longest
Identifier == 1..64
Cursor == 1..128
GridSide == 1..1000
MAX_SEQUENCE == 1000000
SequenceNumber == 0..MAX_SEQUENCE

SESSION_PHASES == {"working", "waiting", "finished", "idle"}
CursorStyles == {"block", "underline", "bar"}
Palette == 0..255
Rgb == 0..16777215
NoColor == [mode |-> "default", value |-> 0]

-----------------------------------------------------------------------------
(* Input, output and the handshake. *)

ValidateInputFrame(f) == f.data \in Text(32 * 1024) /\ f.latencyTag \in Optional(Identifier)
ValidateOutputFrame(f) == f.data \in Nat /\ f.latencyTags \in Optional(1..256)
ValidateResizeFrame(f) == f.cols \in GridSide /\ f.rows \in GridSide

ValidateHelloFrame(f) == f.protocolVersion \in Nat \ {0}
ValidateHelloAckFrame(f) == f.protocolVersion \in Nat \ {0}
ValidateAuthChallengeFrame(f) == f.nonce \in Nat \ {0}
ValidateAuthResponseFrame(f) == f.deviceId \in NonEmpty(128) /\ f.signature \in NonEmpty(4096)

-----------------------------------------------------------------------------
(* The snapshot of the Session, its history and who owns its size. *)

ValidateSnapshotCursor(c, cols, rows) ==
  /\ c.col \in 0..cols /\ c.row \in 0..rows - 1
  /\ c.visible \in BOOLEAN /\ c.blink \in BOOLEAN /\ c.style \in CursorStyles

ValidateTerminalColor(color) ==
  \/ color = NoColor
  \/ color.mode = "palette" /\ color.value \in Palette
  \/ color.mode = "rgb" /\ color.value \in Rgb

ValidateSnapshotCell(cell) ==
  /\ cell.chars \in Text(64) /\ cell.width \in 0..2
  /\ cell.width = 0 => cell.chars = 0
  /\ cell.attrs \in Optional(0..MAX_TERMINAL_ATTRIBUTES)
  /\ ValidateTerminalColor(cell.fg) /\ ValidateTerminalColor(cell.bg)

ValidateSessionSnapshotFrame(f) ==
  /\ f.cols \in GridSide /\ f.rows \in GridSide
  /\ f.cols * f.rows <= MAX_SNAPSHOT_CELLS
  /\ f.activeScreen \in {"normal", "alternate"}
  /\ ValidateSnapshotCursor(f.cursor, f.cols, f.rows)
  /\ DOMAIN f.grid = 1..f.rows
  /\ \A row \in 1..f.rows :
       /\ DOMAIN f.grid[row] = 1..f.cols
       /\ \A col \in 1..f.cols : ValidateSnapshotCell(f.grid[row][col])

ValidateSessionScrollbackFrame(f) ==
  /\ f.transferId \in Identifier /\ f.sequence \in SequenceNumber
  /\ f.data \in Text(MAX_SESSION_SCROLLBACK_CHUNK_CHARS) /\ f.done \in BOOLEAN

\* The Station's terminal is never the viewer that is told.
ValidateTerminalSizeOwnerFrame(f) ==
  /\ f.owner \in {"station", "android"} /\ f.ownedByRequester \in BOOLEAN
  /\ f.owner = "station" => ~f.ownedByRequester

-----------------------------------------------------------------------------
(* Structured requests and their answers. *)

IsJsonValue(value) == value.depth <= 8 /\ value.entries <= 256 /\ value.key <= 128

ValidateRpcError(error) == error.code \in Identifier /\ error.message \in NonEmpty(1024)

\* A request, or a response of exactly one result or error.
ValidateRpcFrame(f) ==
  LET shape == {"method", "params", "result", "error"} \cap DOMAIN f
  IN  /\ f.id \in Identifier
      /\ \/ shape = {"method", "params"} /\ f.method \in NonEmpty(128) /\ IsJsonValue(f.params)
         \/ shape = {"result"} /\ IsJsonValue(f.result)
         \/ shape = {"error"} /\ ValidateRpcError(f.error)

\* Only the end of a stream says how it ended.
ValidateRpcStreamFrame(f) ==
  /\ f.id \in Identifier /\ f.chunk \in Text(MAX_RPC_CHUNK_LENGTH) /\ f.done \in BOOLEAN
  /\ {"truncated", "nextCursor", "error"} \cap DOMAIN f # {} => f.done
  /\ "truncated" \in DOMAIN f => f.truncated \in BOOLEAN
  /\ "nextCursor" \in DOMAIN f => f.nextCursor \in Cursor
  /\ "error" \in DOMAIN f => ValidateRpcError(f.error)

-----------------------------------------------------------------------------
(* What the Station says of the Session's activity. *)

ValidateAlertFrame(f) == f.message \in NonEmpty(512)
ValidateSessionStatusFrame(f) == f.phase \in SESSION_PHASES /\ f.detail \in Optional(NonEmpty(160))

-----------------------------------------------------------------------------
(* decodeFrame: whether a frame of this many encoded characters reaches its  *)
(* handler.                                                                 *)

Bare == {"auth-ok", "session-snapshot-applied", "terminal-size-claim", "terminal-size-release",
         "terminal-reset"}

DecodeFrame(f, chars) ==
  /\ chars <= MAX_ENCODED_FRAME_CHARS
  /\ \/ f.type \in Bare
     \/ f.type = "input" /\ ValidateInputFrame(f)
     \/ f.type = "output" /\ ValidateOutputFrame(f)
     \/ f.type = "resize" /\ ValidateResizeFrame(f)
     \/ f.type = "hello" /\ ValidateHelloFrame(f)
     \/ f.type = "hello-ack" /\ ValidateHelloAckFrame(f)
     \/ f.type = "auth-challenge" /\ ValidateAuthChallengeFrame(f)
     \/ f.type = "auth-response" /\ ValidateAuthResponseFrame(f)
     \/ f.type = "session-snapshot" /\ ValidateSessionSnapshotFrame(f)
     \/ f.type = "session-scrollback" /\ ValidateSessionScrollbackFrame(f)
     \/ f.type = "terminal-size-owner" /\ ValidateTerminalSizeOwnerFrame(f)
     \/ f.type = "rpc" /\ ValidateRpcFrame(f)
     \/ f.type = "rpc-stream" /\ ValidateRpcStreamFrame(f)
     \/ f.type = "alert" /\ ValidateAlertFrame(f)
     \/ f.type = "session-status" /\ ValidateSessionStatusFrame(f)
=============================================================================
