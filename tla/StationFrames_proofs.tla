------------------------- MODULE StationFrames_proofs -------------------------
(***************************************************************************)
(* Every frame the Station builds is one its viewers decode, for every        *)
(* screen, history, line and error; and the exact limits where that ends.     *)
(***************************************************************************)
EXTENDS StationFrames, TLAPS

\* The text of an encoded frame is within the limit of decodeFrame.
Encoded(chars) == chars \in Nat /\ chars <= MAX_ENCODED_FRAME_CHARS

\* slice(0, limit) and slice(-limit) of a text.
LEMMA Sliced ==
  ASSUME NEW length \in Nat, NEW limit \in Nat
  PROVE  /\ AtMost(length, limit) \in 0..limit
         /\ length # 0 /\ limit # 0 => AtMost(length, limit) # 0
BY DEF AtMost

\* The nine attribute flags of a cell fit the mask of the protocol.
LEMMA AttributesFit ==
  ASSUME NEW cell \in BufferCell
  PROVE  Attributes(cell) \in 0..MAX_TERMINAL_ATTRIBUTES
<1> DEFINE a == Bit(cell.bold, 1)        b == Bit(cell.dim, 2)        c == Bit(cell.italic, 4)
           d == Bit(cell.underline, 8)   e == Bit(cell.blink, 16)     f == Bit(cell.inverse, 32)
           g == Bit(cell.invisible, 64)  h == Bit(cell.strikethrough, 128)
           i == Bit(cell.overline, 256)
<1>1. /\ a \in 0..1 /\ b \in 0..2 /\ c \in 0..4 /\ d \in 0..8 /\ e \in 0..16
      /\ f \in 0..32 /\ g \in 0..64 /\ h \in 0..128 /\ i \in 0..256
  BY DEF Bit
<1>2. Attributes(cell) = a + b + c + d + e + f + g + h + i
  BY Zenon DEF Attributes
<1> HIDE DEF a, b, c, d, e, f, g, h, i
<1>3. a + b + c + d + e + f + g + h + i \in 0..511
  BY <1>1
<1> QED BY <1>2, <1>3 DEF MAX_TERMINAL_ATTRIBUTES

\* A colour xterm reports is one the protocol knows.
LEMMA ColorDecoded ==
  ASSUME NEW color \in BufferColor
  PROVE  ValidateTerminalColor(color)
BY DEF BufferColor, ValidateTerminalColor, NoColor

\* What the protocol asks of the text of a cell, and the code copies from xterm
\* unchecked: at most 64 characters, and none in the second half of a wide one.
PlainText(cell) == cell # NoCell => cell.chars <= 64 /\ (cell.width = 0 => cell.chars = 0)

\* A cell that xterm reports, or does not, is sent as a cell viewers take,
\* whatever its attributes, colours and width, if its text is plain.
LEMMA CellDecoded ==
  ASSUME NEW cell, IsCell(cell), PlainText(cell)
  PROVE  ValidateSnapshotCell(SnapshotCell(cell))
<1>1. CASE cell = NoCell
  BY <1>1 DEF SnapshotCell, ValidateSnapshotCell, ValidateTerminalColor, Text, Optional
<1>2. CASE cell # NoCell
  <2>1. cell \in BufferCell
    BY <1>2 DEF IsCell
  <2>2. cell.chars \in 0..64 /\ cell.width \in Nat /\ (cell.width = 0 => cell.chars = 0)
    <3>1. cell.chars \in Nat /\ cell.width \in Nat /\ cell.chars <= 64
      BY <1>2, <2>1 DEF BufferCell, PlainText
    <3>2. cell.width = 0 => cell.chars = 0
      BY <1>2 DEF PlainText
    <3> QED BY <3>1, <3>2
  <2>3. ValidateTerminalColor(cell.fg) /\ ValidateTerminalColor(cell.bg)
    <3>1. cell.fg \in BufferColor /\ cell.bg \in BufferColor
      BY <2>1 DEF BufferCell
    <3> QED BY <3>1, ColorDecoded
  <2>4. Attributes(cell) \in 0..MAX_TERMINAL_ATTRIBUTES
    BY <2>1, AttributesFit
  <2> DEFINE sent == SnapshotCell(cell)
  <2>5. /\ sent.chars = cell.chars /\ sent.width = NormalizeCellWidth(cell.width)
        /\ sent.fg = cell.fg /\ sent.bg = cell.bg
        /\ sent.attrs = IF Attributes(cell) = 0 THEN Missing ELSE Attributes(cell)
    BY <1>2 DEF SnapshotCell
  <2>6. sent.width \in 0..2 /\ (sent.width = 0 => sent.chars = 0)
    BY <2>2, <2>5 DEF NormalizeCellWidth
  <2>7. sent.attrs \in Optional(0..MAX_TERMINAL_ATTRIBUTES)
    BY <2>4, <2>5 DEF Optional
  <2> HIDE DEF sent
  <2>8. ValidateSnapshotCell(sent)
    BY <2>2, <2>3, <2>5, <2>6, <2>7 DEF ValidateSnapshotCell, Text
  <2> QED BY <2>8 DEF sent
<1> QED BY <1>1, <1>2

\* A screen whose text may fit the buffer of a viewer has at most 45 590 cells.
LEMMA CellsThatFit ==
  ASSUME NEW s, IsScreen(s), MinEncoded(s) <= MAX_BUFFERED_OUTPUT_BYTES
  PROVE  s.cols * s.rows <= 45590
<1> DEFINE cells == s.cols * s.rows
<1>1. cells \in Nat /\ s.rows \in Nat
  BY DEF IsScreen
<1>2. 23 * cells + 2 * s.rows + 1 <= 1048576
  BY SMT DEF MinEncoded, MAX_BUFFERED_OUTPUT_BYTES
<1> HIDE DEF cells
<1>3. cells <= 45590
  BY <1>1, <1>2
<1> QED BY <1>3 DEF cells

\* Whatever a program draws, the snapshot of its screen that a viewer is sent is
\* one it decodes, if no side is over 1000 and the text of the cells is plain.
\* Its text has at least the characters of its cells, its bytes are no fewer, and
\* sendRaw sends no frame that is over 1 MiB: so neither the limit on cells nor
\* the limit on the text of a frame is ever what refuses a snapshot.
THEOREM SnapshotDecoded ==
  ASSUME NEW s, IsScreen(s), s.cols \in GridSide, s.rows \in GridSide,
         \A row \in 1..s.rows, col \in 1..s.cols : PlainText(s.cell[row][col]),
         NEW chars \in Nat, NEW bytes \in Nat, NEW bufferedAmount \in Nat,
         MinEncoded(s) <= chars, chars <= bytes, Sends(bufferedAmount, bytes)
  PROVE  DecodeFrame(Snapshot(s), chars)
<1>a. chars <= MAX_BUFFERED_OUTPUT_BYTES
  BY SMT DEF Sends, MAX_BUFFERED_OUTPUT_BYTES
<1>b. Encoded(chars)
  BY <1>a, SMT DEF Encoded, MAX_BUFFERED_OUTPUT_BYTES, MAX_ENCODED_FRAME_CHARS
<1>c. s.cols * s.rows <= MAX_SNAPSHOT_CELLS
  <2>1. MinEncoded(s) \in Nat
    BY SMT DEF MinEncoded, IsScreen
  <2>2. MinEncoded(s) <= MAX_BUFFERED_OUTPUT_BYTES
    BY <1>a, <2>1, SMT DEF MAX_BUFFERED_OUTPUT_BYTES
  <2>3. s.cols * s.rows <= 45590 /\ s.cols * s.rows \in Nat
    BY <2>2, CellsThatFit, SMT DEF IsScreen
  <2> QED BY <2>3, SMT DEF MAX_SNAPSHOT_CELLS
<1> DEFINE f == Snapshot(s)
<1>1. /\ f.type = "session-snapshot" /\ f.cols = s.cols /\ f.rows = s.rows
      /\ f.activeScreen = s.type
  BY DEF Snapshot
<1>2. ValidateSnapshotCursor(f.cursor, f.cols, f.rows)
  <2>1. CursorStyle(s.shape) \in CursorStyles /\ CursorBlink(s.shape) \in BOOLEAN
    BY DEF CursorStyle, CursorBlink, CursorStyles
  <2> QED BY <2>1 DEF Snapshot, IsScreen, ValidateSnapshotCursor
<1>3. /\ DOMAIN f.grid = 1..f.rows
      /\ \A row \in 1..f.rows :
           /\ DOMAIN f.grid[row] = 1..f.cols
           /\ \A col \in 1..f.cols : f.grid[row][col] = SnapshotCell(s.cell[row][col])
  BY DEF Snapshot
<1>4. \A row \in 1..f.rows, col \in 1..f.cols : ValidateSnapshotCell(f.grid[row][col])
  <2> SUFFICES ASSUME NEW row \in 1..s.rows, NEW col \in 1..s.cols
               PROVE  ValidateSnapshotCell(SnapshotCell(s.cell[row][col]))
    BY <1>1, <1>3
  <2>1. IsCell(s.cell[row][col]) /\ PlainText(s.cell[row][col])
    BY DEF IsScreen
  <2> QED BY <2>1, CellDecoded
<1>5. f.activeScreen \in {"normal", "alternate"}
  BY <1>1 DEF IsScreen
<1> HIDE DEF f
<1>6. ValidateSessionSnapshotFrame(f)
  BY <1>c, <1>1, <1>2, <1>3, <1>4, <1>5 DEF ValidateSessionSnapshotFrame
<1>7. DecodeFrame(f, chars)
  BY <1>b, <1>1, <1>6 DEF DecodeFrame, Encoded
<1> QED BY <1>7 DEF f

\* The other side of it: a screen of more than 45 590 cells, which the sides of
\* the protocol allow, is never sent: whatever it shows and however idle the
\* viewer is, sendRaw closes the viewer instead.
THEOREM LargeScreenIsNotSent ==
  ASSUME NEW s, IsScreen(s), s.cols * s.rows > 45590,
         NEW chars \in Nat, NEW bytes \in Nat, NEW bufferedAmount \in Nat,
         MinEncoded(s) <= chars, chars <= bytes
  PROVE  ~Sends(bufferedAmount, bytes)
<1> SUFFICES ASSUME Sends(bufferedAmount, bytes) PROVE FALSE
  OBVIOUS
<1>1. MinEncoded(s) \in Nat /\ s.cols * s.rows \in Nat
  BY SMT DEF MinEncoded, IsScreen
<1>2. MinEncoded(s) <= MAX_BUFFERED_OUTPUT_BYTES
  BY <1>1, SMT DEF Sends, MAX_BUFFERED_OUTPUT_BYTES
<1>3. s.cols * s.rows <= 45590
  BY <1>2, CellsThatFit
<1> QED BY <1>1, <1>3

-----------------------------------------------------------------------------
(* The history of the Session.                                              *)

\* How far a history reaches into its last chunk.
LEMMA LastChunk ==
  ASSUME NEW h \in Nat, h # 0
  PROVE  /\ Chunks(h) \in Nat \ {0}
         /\ (Chunks(h) - 1) * Chunk < h /\ h <= Chunks(h) * Chunk
<1> DEFINE n == (h + Chunk - 1) \div Chunk
<1>1. n \in Nat \ {0} /\ (n - 1) * Chunk < h /\ h <= n * Chunk
  BY SMT DEF Chunk, MAX_SESSION_SCROLLBACK_CHUNK_CHARS
<1>2. Chunks(h) = n
  BY DEF Chunks
<1> QED BY <1>1, <1>2

\* Where a chunk of a history begins and ends.
LEMMA ChunkOfHistory ==
  ASSUME NEW h \in Nat, h <= MAX_SESSION_SCROLLBACK_CHARS, NEW k \in Nat, k < Chunks(h)
  PROVE  /\ k \in SequenceNumber
         /\ AtMost(h, k * Chunk) = k * Chunk
         /\ AtMost(h - k * Chunk, Chunk) \in 0..Chunk
         /\ AtMost(h, (k + 1) * Chunk) = k * Chunk + AtMost(h - k * Chunk, Chunk)
         /\ AtMost(h, (k + 1) * Chunk) <= MAX_SESSION_SCROLLBACK_CHARS
         /\ k * Chunk + AtMost(h - k * Chunk, Chunk) >= h <=> k = Chunks(h) - 1
         /\ k = Chunks(h) - 1 => AtMost(h, (k + 1) * Chunk) = h
<1> DEFINE n == Chunks(h)
<1>1. /\ n \in Nat /\ n # 0
      /\ h # 0 => (n - 1) * Chunk < h /\ h <= n * Chunk
      /\ h = 0 => n = 1
  BY LastChunk, SMT DEF Chunks
<1>2. k < n
  OBVIOUS
<1> HIDE DEF n
<1>3. k <= 8 /\ k * Chunk <= h
  BY <1>1, <1>2, SMT
     DEF Chunk, MAX_SESSION_SCROLLBACK_CHUNK_CHARS, MAX_SESSION_SCROLLBACK_CHARS
<1>4. AtMost(h, k * Chunk) = k * Chunk
  BY <1>3, SMT
     DEF AtMost, Chunk, MAX_SESSION_SCROLLBACK_CHUNK_CHARS, MAX_SESSION_SCROLLBACK_CHARS
<1>5. AtMost(h - k * Chunk, Chunk) \in 0..Chunk
  <2>1. h - k * Chunk \in Nat /\ Chunk \in Nat
    BY <1>3, SMT DEF Chunk, MAX_SESSION_SCROLLBACK_CHUNK_CHARS
  <2> QED BY <2>1, Sliced, Zenon
<1>6. AtMost(h, (k + 1) * Chunk) = k * Chunk + AtMost(h - k * Chunk, Chunk)
  BY <1>3, SMT
     DEF AtMost, Chunk, MAX_SESSION_SCROLLBACK_CHUNK_CHARS, MAX_SESSION_SCROLLBACK_CHARS
<1>7. AtMost(h, (k + 1) * Chunk) <= MAX_SESSION_SCROLLBACK_CHARS
  BY SMT
     DEF AtMost, Chunk, MAX_SESSION_SCROLLBACK_CHUNK_CHARS, MAX_SESSION_SCROLLBACK_CHARS
<1>8. k * Chunk + AtMost(h - k * Chunk, Chunk) >= h <=> k = n - 1
  BY <1>1, <1>2, <1>3, SMT
     DEF AtMost, Chunk, MAX_SESSION_SCROLLBACK_CHUNK_CHARS, MAX_SESSION_SCROLLBACK_CHARS
<1>9. k = n - 1 => AtMost(h, (k + 1) * Chunk) = h
  BY <1>1, SMT
     DEF AtMost, Chunk, MAX_SESSION_SCROLLBACK_CHUNK_CHARS, MAX_SESSION_SCROLLBACK_CHARS
<1>10. k \in SequenceNumber
  <2>1. k <= MAX_SEQUENCE /\ MAX_SEQUENCE \in Nat
    BY <1>3, SMT DEF MAX_SEQUENCE
  <2> QED BY <2>1, SMT DEF SequenceNumber
<1> QED BY <1>4, <1>5, <1>6, <1>7, <1>8, <1>9, <1>10, Zenon DEF n

\* A history that is sent in chunks arrives whole: viewers decode each chunk
\* and take it in its turn, only the last one ends the transfer, and what has
\* arrived by then is the history, however long it is.
THEOREM HistoryTransferred ==
  ASSUME NEW scrollback \in Nat, NEW id \in Identifier, NEW chars, Encoded(chars),
         NEW k \in Nat, k < Chunks(History(scrollback))
  PROVE  LET h == History(scrollback)
             f == ScrollbackFrame(id, h, k)
             before == [nextSequence |-> k, chars |-> AtMost(h, k * Chunk)]
             after == [nextSequence |-> k + 1, chars |-> AtMost(h, (k + 1) * Chunk)]
         IN  /\ DecodeFrame(f, chars)
             /\ TakesChunk(before, f) /\ WithChunk(before, f) = after
             /\ f.done <=> k = Chunks(h) - 1
             /\ f.done => after.chars = h
<1> DEFINE h == History(scrollback)
           f == ScrollbackFrame(id, h, k)
           data == AtMost(h - k * Chunk, Chunk)
           received == AtMost(h, (k + 1) * Chunk)
           before == [nextSequence |-> k, chars |-> AtMost(h, k * Chunk)]
<1>1. h \in Nat /\ h <= MAX_SESSION_SCROLLBACK_CHARS
  BY SMT DEF History, AtMost, MAX_SESSION_SCROLLBACK_CHARS
<1>2. /\ k \in SequenceNumber /\ AtMost(h, k * Chunk) = k * Chunk
      /\ data \in 0..Chunk /\ received = k * Chunk + data
      /\ received <= MAX_SESSION_SCROLLBACK_CHARS
      /\ k * Chunk + data >= h <=> k = Chunks(h) - 1
      /\ k = Chunks(h) - 1 => received = h
  <2> HIDE DEF h
  <2>1. k < Chunks(h)
    BY DEF h
  <2> QED BY <1>1, <2>1, ChunkOfHistory, Zenon
<1>3. /\ f.type = "session-scrollback" /\ f.transferId = id /\ f.sequence = k /\ f.data = data
      /\ f.done = (k * Chunk + data >= h)
  BY Zenon DEF ScrollbackFrame
<1>4. before.nextSequence = k /\ before.chars = k * Chunk
  BY <1>2, Zenon
<1> HIDE DEF h, f, data, received, before
<1>5. DecodeFrame(f, chars)
  <2>1. f.done \in BOOLEAN
    <3>1. (k * Chunk + data >= h) \in BOOLEAN
      OBVIOUS
    <3> QED BY <1>3, <3>1, Zenon
  <2>2. ValidateSessionScrollbackFrame(f)
    BY <1>2, <1>3, <2>1, Zenon DEF ValidateSessionScrollbackFrame, Text, Chunk
  <2> QED BY <1>3, <2>2, Zenon DEF DecodeFrame, Encoded
<1>6. TakesChunk(before, f) /\ WithChunk(before, f) = [nextSequence |-> k + 1, chars |-> received]
  BY <1>2, <1>3, <1>4, Zenon DEF TakesChunk, WithChunk
<1>7. (f.done <=> k = Chunks(h) - 1) /\ (f.done => received = h)
  BY <1>2, <1>3, Zenon
<1> QED BY <1>5, <1>6, <1>7, Zenon DEF h, f, received, before

-----------------------------------------------------------------------------
(* Size ownership, echoed tags, and the activity of the Session.             *)

\* A viewer decodes what it is told about the owner of the size, whoever owns it.
THEOREM SizeOwnerDecoded ==
  ASSUME NEW sizeOwner, NEW noOwner, NEW viewer, viewer # noOwner, NEW chars, Encoded(chars)
  PROVE  DecodeFrame(SizeOwnerFrame(sizeOwner, noOwner, viewer), chars)
<1> DEFINE f == SizeOwnerFrame(sizeOwner, noOwner, viewer)
<1>1. /\ f.type = "terminal-size-owner"
      /\ f.owner = IF sizeOwner # noOwner THEN "android" ELSE "station"
      /\ f.ownedByRequester = (sizeOwner = viewer)
  BY DEF SizeOwnerFrame
<1> HIDE DEF f
<1>2. ValidateTerminalSizeOwnerFrame(f)
  BY <1>1 DEF ValidateTerminalSizeOwnerFrame
<1>3. DecodeFrame(f, chars)
  BY <1>1, <1>2, Zenon DEF DecodeFrame, Encoded
<1> QED BY <1>3 DEF f

\* However much input a viewer tags before the next output, the output that
\* echoes the tags is one it decodes.
THEOREM TaggedOutputDecoded ==
  ASSUME NEW data \in Nat, NEW tags \in 0..256, NEW chars, Encoded(chars)
  PROVE  TagsWith(tags) \in 0..256 /\ DecodeFrame(TaggedOutput(data, tags), chars)
<1> DEFINE f == TaggedOutput(data, tags)
<1>1. /\ f.type = "output" /\ f.data = data
      /\ f.latencyTags = IF tags = 0 THEN Missing ELSE tags
  BY DEF TaggedOutput
<1> HIDE DEF f
<1>2. ValidateOutputFrame(f)
  BY <1>1 DEF ValidateOutputFrame, Optional
<1>3. DecodeFrame(f, chars)
  BY <1>1, <1>2, Zenon DEF DecodeFrame, Encoded
<1>4. TagsWith(tags) \in 0..256
  BY DEF TagsWith, AtMost
<1> QED BY <1>3, <1>4 DEF f

\* What is said of a line of terminal text, of any length but blank, is a
\* status and an alert that viewers decode.
THEOREM ActivityDecoded ==
  ASSUME NEW line \in Nat \ {0}, NEW phase \in SESSION_PHASES, NEW chars, Encoded(chars)
  PROVE  /\ DecodeFrame(StatusFrame(phase, line), chars)
         /\ DecodeFrame(AlertFrame(line), chars)
         /\ DecodeFrame(IdleAlertFrame(line), chars)
<1>1. Inspected(line) \in 1..512
  BY DEF Inspected, AtMost
<1>2. AtMost(Inspected(line), 160) \in 1..160 /\ AtMost(14 + Inspected(line), 512) \in 1..512
  BY <1>1 DEF AtMost
<1>3. ValidateSessionStatusFrame(StatusFrame(phase, line))
  BY <1>2 DEF ValidateSessionStatusFrame, StatusFrame, Optional, NonEmpty
<1>4. ValidateAlertFrame(AlertFrame(line)) /\ ValidateAlertFrame(IdleAlertFrame(line))
  BY <1>1, <1>2 DEF ValidateAlertFrame, AlertFrame, IdleAlertFrame, NonEmpty
<1>5. /\ StatusFrame(phase, line).type = "session-status"
      /\ AlertFrame(line).type = "alert" /\ IdleAlertFrame(line).type = "alert"
  BY DEF StatusFrame, AlertFrame, IdleAlertFrame
<1> QED BY <1>3, <1>4, <1>5, Zenon DEF DecodeFrame, Encoded

-----------------------------------------------------------------------------
(* Structured Git.                                                          *)

\* The loop that cuts a diff into frames ends, loses no character, keeps less
\* than a chunk, and sends chunks that viewers decode.
THEOREM DiffChunked ==
  ASSUME NEW outbound \in 0..MAX_DIFF_CHUNK - 1, NEW remaining \in Nat \ {0},
         NEW id \in Identifier, NEW chars, Encoded(chars)
  PROVE  LET turn == AppendTurn([outbound |-> outbound, remaining |-> remaining])
         IN  /\ turn.remaining \in 0..remaining - 1
             /\ turn.outbound \in 0..MAX_DIFF_CHUNK - 1
             /\ turn.chunk + turn.outbound + turn.remaining = outbound + remaining
             /\ DecodeFrame(DiffChunkFrame(id, turn.chunk), chars)
<1> DEFINE taken == AtMost(remaining, MAX_DIFF_CHUNK - outbound)
           turn == AppendTurn([outbound |-> outbound, remaining |-> remaining])
           f == DiffChunkFrame(id, turn.chunk)
<1>1. /\ turn.outbound = IF outbound + taken = MAX_DIFF_CHUNK THEN 0 ELSE outbound + taken
      /\ turn.remaining = remaining - taken
      /\ turn.chunk = IF outbound + taken = MAX_DIFF_CHUNK THEN MAX_DIFF_CHUNK ELSE 0
  BY Zenon DEF AppendTurn
<1>2. /\ f.type = "rpc-stream" /\ f.id = id /\ f.chunk = turn.chunk /\ f.done = FALSE
      /\ DOMAIN f = {"type", "id", "chunk", "done"}
  BY DEF DiffChunkFrame
<1>3. /\ taken \in Nat /\ 0 < taken /\ taken <= remaining
      /\ outbound + taken <= MAX_DIFF_CHUNK
  BY SMT DEF AtMost, MAX_DIFF_CHUNK
<1> HIDE DEF taken, turn, f
<1>4. turn.remaining \in 0..remaining - 1 /\ turn.outbound \in 0..MAX_DIFF_CHUNK - 1
  BY <1>1, <1>3, SMT DEF MAX_DIFF_CHUNK
<1>5. turn.chunk + turn.outbound + turn.remaining = outbound + remaining
  BY <1>1, <1>3, SMT DEF MAX_DIFF_CHUNK
<1>6. turn.chunk \in 0..MAX_RPC_CHUNK_LENGTH
  BY <1>1, SMT DEF MAX_DIFF_CHUNK, MAX_RPC_CHUNK_LENGTH
<1>7. ValidateRpcStreamFrame(f)
  BY <1>2, <1>6, Zenon DEF ValidateRpcStreamFrame, Text
<1>8. DecodeFrame(f, chars)
  BY <1>2, <1>7, Zenon DEF DecodeFrame, Encoded
<1> QED BY <1>4, <1>5, <1>8, Zenon DEF turn, f

\* Whatever git prints when it fails, the caller gets an error it decodes, as
\* a response or as the end of a stream.
THEOREM ErrorDecoded ==
  ASSUME NEW id \in Identifier, NEW code \in Identifier, NEW printed \in Nat,
         NEW chars, Encoded(chars)
  PROVE  LET error == RpcError(code, CleanGitMessage(printed))
         IN  DecodeFrame(ErrorResponse(id, error), chars) /\ DecodeFrame(StreamError(id, error), chars)
<1> DEFINE error == RpcError(code, CleanGitMessage(printed))
           f == ErrorResponse(id, error)
           g == StreamError(id, error)
<1>1. AtMost(CleanGitMessage(printed), 1024) \in 1..1024
  BY SMT DEF CleanGitMessage, AtMost
<1>2. ValidateRpcError(error)
  BY <1>1, Zenon DEF RpcError, ValidateRpcError, NonEmpty
<1> HIDE DEF error
<1>3. f.type = "rpc" /\ f.id = id /\ f.error = error /\ DOMAIN f = {"type", "id", "error"}
  BY DEF ErrorResponse
<1>4. /\ g.type = "rpc-stream" /\ g.id = id /\ g.chunk = 0 /\ g.done = TRUE /\ g.error = error
      /\ DOMAIN g = {"type", "id", "chunk", "done", "error"}
  BY DEF StreamError
<1> HIDE DEF f, g
<1>5. ValidateRpcFrame(f)
  <2>1. {"method", "params", "result", "error"} \cap DOMAIN f = {"error"}
    BY <1>3
  <2> QED BY <1>2, <1>3, <2>1, Zenon DEF ValidateRpcFrame
<1>6. ValidateRpcStreamFrame(g)
  <2>1. g.chunk \in Text(MAX_RPC_CHUNK_LENGTH)
    BY <1>4, SMT DEF Text, MAX_RPC_CHUNK_LENGTH
  <2>2. "truncated" \notin DOMAIN g /\ "nextCursor" \notin DOMAIN g /\ g.done
    BY <1>4
  <2> QED BY <1>2, <1>4, <2>1, <2>2, Zenon DEF ValidateRpcStreamFrame
<1> QED BY <1>3, <1>4, <1>5, <1>6, Zenon DEF DecodeFrame, Encoded, error, f, g

\* An answer that lists what git lists is decoded exactly when the list is not
\* too long; the Station has no such limit.
THEOREM ListsDecoded ==
  ASSUME NEW id \in Identifier, NEW listed \in Nat, NEW chars, Encoded(chars)
  PROVE  /\ DecodeFrame(StatusResponse(id, listed), chars) <=> listed <= 256
         /\ DecodeFrame(BranchesResponse(id, listed), chars) <=> listed <= 256
         /\ listed <= 100 => DecodeFrame(LogResponse(id, listed), chars)
<1>1. \A f, result : f = [type |-> "rpc", id |-> id, result |-> result]
                      => (DecodeFrame(f, chars) <=> IsJsonValue(result))
  <2> SUFFICES ASSUME NEW f, NEW result, f = [type |-> "rpc", id |-> id, result |-> result]
               PROVE  DecodeFrame(f, chars) <=> IsJsonValue(result)
    OBVIOUS
  <2>1. /\ f.type = "rpc" /\ f.id = id /\ f.result = result
        /\ {"method", "params", "result", "error"} \cap DOMAIN f = {"result"}
    OBVIOUS
  <2>2. ValidateRpcFrame(f) <=> IsJsonValue(result)
    BY <2>1 DEF ValidateRpcFrame
  <2> QED BY <2>1, <2>2 DEF DecodeFrame, Encoded, Bare
<1>2. /\ IsJsonValue(StatusResponse(id, listed).result) <=> listed <= 256
      /\ IsJsonValue(BranchesResponse(id, listed).result) <=> listed <= 256
      /\ listed <= 100 => IsJsonValue(LogResponse(id, listed).result)
  BY SMT DEF StatusResponse, BranchesResponse, LogResponse, IsJsonValue, Larger
<1>3. \A f \in {StatusResponse(id, listed), BranchesResponse(id, listed), LogResponse(id, listed)} :
        f = [type |-> "rpc", id |-> id, result |-> f.result]
  BY DEF StatusResponse, BranchesResponse, LogResponse
<1> QED BY <1>1, <1>2, <1>3, Zenon
=============================================================================
