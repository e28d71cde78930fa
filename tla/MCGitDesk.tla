------------------------------ MODULE MCGitDesk ------------------------------
(***************************************************************************)
(* The instance of GitDesk, and the frames of the Station at the boundaries   *)
(* of the protocol: the first case past each limit is refused.                *)
(***************************************************************************)
EXTENDS GitDesk, StationFrames

Flags == {"bold", "dim", "italic", "underline", "blink", "inverse", "invisible", "strikethrough",
          "overline"}
CellOf(chars, width, flags, color) ==
  [absent |-> FALSE, chars |-> chars, width |-> width, fg |-> color, bg |-> NoColor,
   bold |-> "bold" \in flags, dim |-> "dim" \in flags, italic |-> "italic" \in flags,
   underline |-> "underline" \in flags, blink |-> "blink" \in flags, inverse |-> "inverse" \in flags,
   invisible |-> "invisible" \in flags, strikethrough |-> "strikethrough" \in flags,
   overline |-> "overline" \in flags]
Cells ==
  {NoCell} \cup
  { CellOf(chars, width, flags, color) :
      chars \in {0, 64}, width \in 1..3, flags \in {{}, {"bold"}, Flags},
      color \in {NoColor, [mode |-> "palette", value |-> 255], [mode |-> "rgb", value |-> 16777215]} }
ScreenOf(cell, cols, rows, shape) ==
  [cols |-> cols, rows |-> rows, type |-> "normal", cursorX |-> cols, cursorY |-> rows - 1,
   visible |-> TRUE, shape |-> shape,
   cell |-> [row \in 1..rows |-> [col \in 1..cols |-> cell]]]

\* Whether a viewer takes a screen of such cells with the least text it may have.
ShortestText(cell, cols, rows) ==
  DecodeFrame(Snapshot(ScreenOf(cell, cols, rows, 0)), MinEncoded(ScreenOf(cell, cols, rows, 0)))

ASSUME SnapshotsDecode ==
  /\ \A cell \in Cells, shape \in 0..7 : DecodeFrame(Snapshot(ScreenOf(cell, 2, 2, shape)), 1000)
  /\ ShortestText(NoCell, 1000, 45) /\ Sends(0, MinEncoded(ScreenOf(NoCell, 1000, 45, 0)))
  /\ ~Sends(0, MinEncoded(ScreenOf(NoCell, 1000, 46, 0)))
  /\ ShortestText(NoCell, 1000, 91) /\ ~ShortestText(NoCell, 1000, 92)
  /\ ~DecodeFrame(Snapshot(ScreenOf(NoCell, 1000, 101, 0)), 1000)
  /\ \A cell \in {CellOf(65, 1, {}, NoColor), CellOf(1, 0, {}, NoColor)} :
       ~DecodeFrame(Snapshot(ScreenOf(cell, 1, 1, 0)), 1000)
  /\ DecodeFrame(Snapshot(ScreenOf(CellOf(0, 0, {}, NoColor), 1, 1, 0)), 1000)
  /\ ~DecodeFrame(Snapshot(ScreenOf(NoCell, 1, 1, 0)), MAX_ENCODED_FRAME_CHARS + 1)

\* The lengths of a history around the ends of its chunks, and what is kept.
ASSUME HistoriesTransfer ==
  \A scrollback \in {0, 1, 65535, 65536, 65537, 524287, 524288, 524289} :
    LET h == History(scrollback)
        Frame_(k) == ScrollbackFrame(9, h, k)
        Upto(k) == [nextSequence |-> k, chars |-> AtMost(h, k * Chunk)]
    IN  \A k \in 0..Chunks(h) - 1 :
          /\ DecodeFrame(Frame_(k), 1000) /\ TakesChunk(Upto(k), Frame_(k))
          /\ WithChunk(Upto(k), Frame_(k)) = Upto(k + 1)
          /\ Frame_(k).done <=> k = Chunks(h) - 1

ASSUME AnswersDecode ==
  /\ \A files \in {0, 1, 256} : DecodeFrame(StatusResponse(1, files), 1000)
  /\ ~DecodeFrame(StatusResponse(1, 257), 1000) /\ ~DecodeFrame(BranchesResponse(1, 257), 1000)
  /\ \A printed \in {0, 1, 1024, 1025} :
       DecodeFrame(StreamError(1, RpcError(9, CleanGitMessage(printed))), 1000)
  /\ \A line \in {1, 160, 161, 499, 512, 513} :
       /\ DecodeFrame(StatusFrame("idle", line), 1000) /\ DecodeFrame(IdleAlertFrame(line), 1000)
=============================================================================
