-------------------------- MODULE MCStationSession --------------------------
(* StationSession on small instances, and the cases of the mouse guard.        *)
EXTENDS StationSession, MouseGuard, TLC

\* Viewers are interchangeable.
ViewerSymmetry == Permutations(Viewer)

-----------------------------------------------------------------------------
(* The mouse guard, for every read of up to three marks.                     *)

Guards ==
  { g \in [reportingArmed : BOOLEAN, mouseInputPending : BOOLEAN, suppressUntil : {0, 2000},
           carry : {<<>>, <<"enable">>, <<"leave">>}, flushOnNextOutput : BOOLEAN,
           deferredFlushHandle : BOOLEAN, deferredFlushHandler : BOOLEAN] : GuardInv(g) }
Reads ==
  {chunk \in [empty : {FALSE}, marks : UNION {[1..n -> Mark] : n \in 0..3}, tail : BOOLEAN,
              echo : BOOLEAN] :
     chunk.echo => \E i \in DOMAIN chunk.marks : chunk.marks[i] = "prompt"}
    \cup {[empty |-> TRUE, marks |-> <<>>, tail |-> FALSE, echo |-> FALSE]}

\* The marks say at which read the shell is interrupted; such a read has reports
\* of its own, and forgets them.
ASSUME FlushesAreDue ==
  \A g \in Guards, chunk \in Reads :
    LET read == TrackOutput(g, chunk, 1000)
    IN  /\ GuardInv(read.guard)
        /\ Interrupts(g, chunk, 1000) # 0 <=> FlushDue(g, chunk)
        /\ read.flush => Dirty(g) /\ ~read.guard.mouseInputPending

\* The read that releases a deferred flush is not scanned: a program that takes
\* the mouse in it is not seen.
ASSUME ReleaseHidesEnable ==
  \E g \in Guards, chunk \in Reads :
    "enable" \in {chunk.marks[i] : i \in DOMAIN chunk.marks}
    /\ "prompt" \notin {chunk.marks[i] : i \in DOMAIN chunk.marks}
    /\ ~TrackOutput(g, chunk, 1000).guard.reportingArmed
=============================================================================
