----------------------------- MODULE StationFrames -----------------------------
(***************************************************************************)
(* The frames the Station builds from what it does not control: the screen    *)
(* of a program, a history, the output of git, a line of terminal text.        *)
(* Protocol says which of them a viewer takes.  Every definition gives the     *)
(* frame the code builds, as a record of the lengths Protocol looks at.        *)
(***************************************************************************)
EXTENDS Protocol

AtMost(length, limit) == IF length <= limit THEN length ELSE limit

-----------------------------------------------------------------------------
(* The canonical screen: cli/src/terminalScreen.ts.                          *)

NoCell == [absent |-> TRUE]

\* What the headless xterm may say of a cell and of the screen.  The cursor is
\* past the last column while a wrap is pending.
BufferColor ==
  {NoColor} \cup [mode : {"palette"}, value : Palette] \cup [mode : {"rgb"}, value : Rgb]
BufferCell ==
  [absent : {FALSE}, chars : Nat, width : Nat, fg : BufferColor, bg : BufferColor,
   bold : BOOLEAN, dim : BOOLEAN, italic : BOOLEAN, underline : BOOLEAN, blink : BOOLEAN,
   inverse : BOOLEAN, invisible : BOOLEAN, strikethrough : BOOLEAN, overline : BOOLEAN]
IsCell(c) == c = NoCell \/ c \in BufferCell
IsScreen(s) ==
  /\ s.cols \in Nat \ {0} /\ s.rows \in Nat \ {0}
  /\ s.type \in {"normal", "alternate"}
  /\ s.cursorX \in 0..s.cols /\ s.cursorY \in 0..s.rows - 1
  /\ s.visible \in BOOLEAN /\ s.shape \in Nat
  /\ \A row \in 1..s.rows, col \in 1..s.cols : IsCell(s.cell[row][col])

\* applyCursorStyle: the parameter of the last DECSCUSR.
CursorStyle(shape) ==
  CASE shape \in {3, 4} -> "underline" [] shape \in {5, 6} -> "bar" [] OTHER -> "block"
CursorBlink(shape) == shape \notin {2, 4, 6}

Bit(flag, value) == IF flag THEN value ELSE 0
Attributes(cell) ==
  Bit(cell.bold, 1) + Bit(cell.dim, 2) + Bit(cell.italic, 4) + Bit(cell.underline, 8)
  + Bit(cell.blink, 16) + Bit(cell.inverse, 32) + Bit(cell.invisible, 64)
  + Bit(cell.strikethrough, 128) + Bit(cell.overline, 256)

NormalizeCellWidth(width) == IF width \in {0, 2} THEN width ELSE 1

SnapshotCell(cell) ==
  IF cell = NoCell
  THEN [chars |-> 0, width |-> 1, fg |-> NoColor, bg |-> NoColor, attrs |-> Missing]
  ELSE [chars |-> cell.chars, width |-> NormalizeCellWidth(cell.width),
        fg |-> cell.fg, bg |-> cell.bg,
        attrs |-> IF Attributes(cell) = 0 THEN Missing ELSE Attributes(cell)]

Snapshot(s) ==
  [type |-> "session-snapshot", cols |-> s.cols, rows |-> s.rows, activeScreen |-> s.type,
   cursor |-> [col |-> s.cursorX, row |-> s.cursorY, visible |-> s.visible,
               style |-> CursorStyle(s.shape), blink |-> CursorBlink(s.shape)],
   grid |-> [row \in 1..s.rows |-> [col \in 1..s.cols |-> SnapshotCell(s.cell[row][col])]]]

\* The least length of its text: a cell is at least {"chars":"","width":1}, 22
\* characters, and the grid has the commas and the brackets around them.
MinEncoded(s) == 23 * (s.cols * s.rows) + 2 * s.rows + 1

\* sendRaw: a frame goes to a viewer if it fits beside what is buffered for it;
\* otherwise the viewer is closed.
MAX_BUFFERED_OUTPUT_BYTES == 1024 * 1024
Sends(bufferedAmount, bytes) == bufferedAmount + bytes <= MAX_BUFFERED_OUTPUT_BYTES

-----------------------------------------------------------------------------
(* The history of the Session: the chunks of cli/src/sessionScrollback.ts,   *)
(* and what WsClient takes of them.                                         *)

History(scrollback) == AtMost(scrollback, MAX_SESSION_SCROLLBACK_CHARS)

Chunk == MAX_SESSION_SCROLLBACK_CHUNK_CHARS
Chunks(history) == IF history = 0 THEN 1 ELSE (history + Chunk - 1) \div Chunk

\* The chunk with this sequence number, of 0..Chunks(history) - 1.
ScrollbackFrame(id, history, sequence) ==
  LET offset == sequence * Chunk
      data == AtMost(history - offset, Chunk)
  IN  [type |-> "session-scrollback", transferId |-> id, sequence |-> sequence,
       data |-> data, done |-> offset + data >= history]

\* The transfer on the phone once it has a number of chunks.
NoTransfer == [nextSequence |-> 0, chars |-> 0]
TakesChunk(transfer, f) ==
  /\ transfer.nextSequence = f.sequence
  /\ transfer.chars + f.data <= MAX_SESSION_SCROLLBACK_CHARS
WithChunk(transfer, f) ==
  [nextSequence |-> transfer.nextSequence + 1, chars |-> transfer.chars + f.data]

-----------------------------------------------------------------------------
(* Who owns the size (sessionSize.ts), and the output that echoes the tags   *)
(* of a viewer's input (session.ts).                                        *)

SizeOwnerFrame(sizeOwner, noOwner, viewer) ==
  [type |-> "terminal-size-owner",
   owner |-> IF sizeOwner # noOwner THEN "android" ELSE "station",
   ownedByRequester |-> sizeOwner = viewer]

TagsWith(tags) == AtMost(tags + 1, 256)
TaggedOutput(data, tags) ==
  [type |-> "output", data |-> data, latencyTags |-> IF tags = 0 THEN Missing ELSE tags]

-----------------------------------------------------------------------------
(* Answers of structured Git: gitService.ts, rpcRouter.ts.                   *)

\* streamDiff: one turn of the loop of append; a chunk of 0 is none.
MAX_DIFF_CHUNK == 16 * 1024
AppendTurn(buffer) ==
  LET taken == AtMost(buffer.remaining, MAX_DIFF_CHUNK - buffer.outbound)
      full == buffer.outbound + taken = MAX_DIFF_CHUNK
  IN  [outbound |-> IF full THEN 0 ELSE buffer.outbound + taken,
       remaining |-> buffer.remaining - taken,
       chunk |-> IF full THEN MAX_DIFF_CHUNK ELSE 0]
DiffChunkFrame(id, chunk) ==
  [type |-> "rpc-stream", id |-> id, chunk |-> chunk, done |-> FALSE]

\* cleanGitMessage: never empty, never long.
CleanGitMessage(clean) == AtMost(IF clean = 0 THEN 18 ELSE clean, 1024)
RpcError(code, message) == [code |-> code, message |-> AtMost(message, 1024)]
ErrorResponse(id, error) == [type |-> "rpc", id |-> id, error |-> error]
StreamError(id, error) == [type |-> "rpc-stream", id |-> id, chunk |-> 0, done |-> TRUE, error |-> error]

\* status and branches list what git lists; log has at most 100 commits.
Larger(a, b) == IF a < b THEN b ELSE a
StatusResponse(id, files) ==
  [type |-> "rpc", id |-> id, result |-> [depth |-> 3, entries |-> Larger(files, 7), key |-> 14]]
BranchesResponse(id, branches) ==
  [type |-> "rpc", id |-> id, result |-> [depth |-> 2, entries |-> Larger(branches, 3), key |-> 8]]
LogResponse(id, commits) ==
  [type |-> "rpc", id |-> id, result |-> [depth |-> 3, entries |-> Larger(commits, 6), key |-> 15]]

-----------------------------------------------------------------------------
(* What SessionPhaseTracker says of a line: alerts/phase.ts.                 *)

\* inspect: a line that is blank says nothing.
Inspected(line) == AtMost(line, 512)
StatusFrame(phase, line) ==
  [type |-> "session-status", phase |-> phase, detail |-> AtMost(Inspected(line), 160)]
AlertFrame(line) == [type |-> "alert", message |-> Inspected(line)]
IdleAlertFrame(line) == [type |-> "alert", message |-> AtMost(14 + Inspected(line), 512)]
=============================================================================
