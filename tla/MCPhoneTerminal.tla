--------------------------- MODULE MCPhoneTerminal ---------------------------
(* PhoneTerminal on small instances, and what writing a queue of outputs does  *)
(* against writing them one by one.                                           *)
EXTENDS PhoneTerminal, SequencesExt

\* The callback of one write of xterm.
Write(screen, output) ==
  IF screen.conn = 0 THEN screen
  ELSE [screen EXCEPT !.upTo = output, !.ok = @ /\ output = screen.upTo + 1]

ASSUME WrittenOneByOne ==
  \A outputs \in BoundedSeq(1..3, 3), upTo \in 0..2, c \in 0..1, ok \in BOOLEAN :
    LET screen == [conn |-> c, upTo |-> upTo, ok |-> ok, grid |-> PhoneGrid]
    IN Written(screen, outputs) = FoldLeft(Write, screen, outputs)
=============================================================================
