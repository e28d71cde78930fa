------------------------------ MODULE MouseGuard ------------------------------
(***************************************************************************)
(* The guard between the mouse reports of the viewers and the PTY             *)
(* (cli/src/mouseReportingGuard.ts).  A program that stalls leaves reports     *)
(* unread, and the shell that follows it would run them as commands.  The      *)
(* guard follows the output of the program, and has the Session interrupt the  *)
(* shell at its first prompt (MOUSE_REPORTING_BOUNDARY_FLUSH; the caller is    *)
(* acceptBackendOutput of cli/src/session.ts).                                 *)
(*                                                                         *)
(* The guard runs inside the callbacks of the Session: each definition is one  *)
(* of its methods, from the guard before to the guard after.                   *)
(***************************************************************************)
EXTENDS Naturals, Sequences

DEFAULT_SUPPRESSION_WINDOW_MS == 1500

\* What BOUNDARY_PATTERN finds in the output: the prompt of the shell, a program
\* that takes the mouse, one that leaves the alternate screen, any other mode.
Mark == {"prompt", "enable", "leave", "other"}

\* The output of one read.  tail: the eight characters that are carried over to
\* the next read hold the last mark whole (the prompt is longer than that).
\* echo: the read holds a whole prompt and text shaped like a mouse report, which
\* the shell has echoed already.
OutputChunk == [empty : BOOLEAN, marks : Seq(Mark), tail : BOOLEAN, echo : BOOLEAN]

Guard ==
  [reportingArmed : BOOLEAN, mouseInputPending : BOOLEAN, suppressUntil : Nat, carry : Seq(Mark),
   flushOnNextOutput : BOOLEAN,
   deferredFlushHandle : BOOLEAN,    \* a timer is set
   deferredFlushHandler : BOOLEAN]   \* the Session writes what the timer asks for

NewGuard ==
  [reportingArmed |-> FALSE, mouseInputPending |-> FALSE, suppressUntil |-> 0, carry |-> <<>>,
   flushOnNextOutput |-> FALSE, deferredFlushHandle |-> FALSE, deferredFlushHandler |-> TRUE]

\* Reports may be waiting for a program that owns the mouse.
Dirty(g) == g.reportingArmed /\ g.mouseInputPending

ClearDeferredFlush(g) == [g EXCEPT !.flushOnNextOutput = FALSE, !.deferredFlushHandle = FALSE]

\* The shell reads again: what is on its way is dropped for a while.
Flushed(g, now) ==
  [g EXCEPT !.reportingArmed = FALSE, !.mouseInputPending = FALSE,
            !.suppressUntil = now + DEFAULT_SUPPRESSION_WINDOW_MS]
ConsumeDeferredFlush(g, now) ==
  LET cleared == ClearDeferredFlush(g)
  IN  IF Dirty(cleared) THEN [guard |-> Flushed(cleared, now), flush |-> TRUE]
      ELSE [guard |-> cleared, flush |-> FALSE]

-----------------------------------------------------------------------------
(* trackOutput: one turn of its loop for each mark.                          *)

\* The first prompt after the program has left the alternate screen is the old
\* one, shown again: the flush waits for the next read, or for the timer.
ScanPrompt(s, now) ==
  LET g == s.guard
      cleared == ClearDeferredFlush(g)
  IN  IF s.ignoreNextMobilyPrompt THEN [s EXCEPT !.ignoreNextMobilyPrompt = FALSE]
      ELSE IF Dirty(g) THEN [s EXCEPT !.guard = Flushed(cleared, now), !.flush = TRUE]
      ELSE [s EXCEPT !.guard = [cleared EXCEPT !.reportingArmed = FALSE, !.mouseInputPending = FALSE]]

ScanLeave(s) ==
  IF Dirty(s.guard)
  THEN [s EXCEPT !.guard = [s.guard EXCEPT !.flushOnNextOutput = TRUE, !.deferredFlushHandle = TRUE],
                 !.ignoreNextMobilyPrompt = TRUE]
  ELSE s

ScanEnable(s) ==
  [s EXCEPT !.guard = [ClearDeferredFlush(s.guard) EXCEPT !.reportingArmed = TRUE, !.suppressUntil = 0]]

ScanMark(s, mark, now) ==
  CASE mark = "prompt" -> ScanPrompt(s, now)
    [] mark = "enable" -> ScanEnable(s)
    [] mark = "leave"  -> ScanLeave(s)
    [] mark = "other"  -> s

Scanned(g, stream, now) ==
  LET scan[i \in 0..Len(stream)] ==
        IF i = 0 THEN [guard |-> g, flush |-> FALSE, ignoreNextMobilyPrompt |-> FALSE]
        ELSE ScanMark(scan[i - 1], stream[i], now)
  IN  scan[Len(stream)]

\* The mark that the next read will find again.
Carried(stream, tail) ==
  LET n == Len(stream)
  IN  IF tail /\ n # 0 /\ stream[n] # "prompt" THEN <<stream[n]>> ELSE <<>>

TrackOutput(g, chunk, now) ==
  IF g.flushOnNextOutput /\ Dirty(g) THEN ConsumeDeferredFlush(g, now)
  ELSE IF chunk.empty THEN [guard |-> g, flush |-> FALSE]
  ELSE LET stream == g.carry \o chunk.marks
           end == Scanned(g, stream, now)
       IN  [guard |-> [end.guard EXCEPT !.carry = Carried(stream, chunk.tail)], flush |-> end.flush]

\* acceptBackendOutput: how often the Session interrupts the shell at a read; a
\* second time when the shell has echoed reports, in case the first comes too early.
Interrupts(g, chunk, now) ==
  IF ~TrackOutput(g, chunk, now).flush THEN 0 ELSE IF chunk.echo THEN 2 ELSE 1

-----------------------------------------------------------------------------
(* The timer of a deferred flush, the input of the viewers, the end.         *)

DeferredFlushFires(g, now) ==
  LET fired == [g EXCEPT !.deferredFlushHandle = FALSE]
      consumed == ConsumeDeferredFlush(fired, now)
  IN  IF ~g.flushOnNextOutput THEN [guard |-> fired, flush |-> FALSE]
      ELSE [guard |-> consumed.guard, flush |-> consumed.flush /\ g.deferredFlushHandler]

\* isMouse: the input is nothing but mouse reports.
TrackInput(g, isMouse, now) ==
  IF ~isMouse THEN [guard |-> g, forward |-> TRUE]
  ELSE IF g.reportingArmed THEN [guard |-> [g EXCEPT !.mouseInputPending = TRUE], forward |-> TRUE]
  ELSE [guard |-> g, forward |-> now >= g.suppressUntil]

DisposeGuard(g) == [ClearDeferredFlush(g) EXCEPT !.deferredFlushHandler = FALSE]

-----------------------------------------------------------------------------
(* What the guard is, between two callbacks                                  *)

\* A flush is deferred just while its timer is set, and only for reports that
\* may be waiting; nothing is dropped while a program owns the mouse.
GuardInv(g) ==
  /\ g \in Guard
  /\ g.flushOnNextOutput <=> g.deferredFlushHandle
  /\ g.flushOnNextOutput => Dirty(g)
  /\ g.mouseInputPending => g.reportingArmed
  /\ g.reportingArmed => g.suppressUntil = 0

\* When a read makes the Session interrupt the shell, in terms of the output: a
\* flush is due, or reports may be waiting and the shell shows a prompt that is
\* not the first one after the alternate screen was left.
IsBoundary(stream, i) ==
  /\ stream[i] = "prompt"
  /\ \A j \in 1..i - 1 : stream[j] = "leave" => \E k \in j + 1..i - 1 : stream[k] = "prompt"
FlushDue(g, chunk) ==
  LET stream == g.carry \o chunk.marks
  IN  \/ g.flushOnNextOutput
      \/ ~chunk.empty /\ Dirty(g) /\ \E i \in DOMAIN stream : IsBoundary(stream, i)
=============================================================================
