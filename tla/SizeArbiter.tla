----------------------------- MODULE SizeArbiter -----------------------------
(***************************************************************************)
(* What Terminal Size Ownership promises (CONTEXT.md, ADR 0011), without   *)
(* timers, sockets or queues: claims form a stack, its top owns the grid,  *)
(* only the owner changes the grid, and the Station owns it when the stack *)
(* is empty.  StationSession implements it.                                *)
(***************************************************************************)
EXTENDS Naturals, Sequences

CONSTANTS Viewer, Dims, InitialDims

VARIABLES
  claims,       \* claimants, the oldest first; the last one is the owner
  grid,         \* dimensions of the shared Session
  stationGrid   \* dimensions the Station wants for itself

vars == <<claims, grid, stationGrid>>

Claimed(v) == \E i \in DOMAIN claims : claims[i] = v

Init ==
  /\ claims = <<>>
  /\ grid = InitialDims
  /\ stationGrid = InitialDims

Claim(v) ==
  /\ ~Claimed(v)
  /\ claims' = Append(claims, v)
  /\ UNCHANGED <<grid, stationGrid>>

\* A claim is released, expires or loses its connection.  With the last claim
\* the Station's grid comes back, if the terminal can be resized at all.
Drop(v) ==
  /\ \E i \in DOMAIN claims :
       /\ claims[i] = v
       /\ claims' = SubSeq(claims, 1, i - 1) \o SubSeq(claims, i + 1, Len(claims))
  /\ grid' \in (IF Len(claims) = 1 THEN {stationGrid, grid} ELSE {grid})
  /\ UNCHANGED stationGrid

OwnerResizes(d) ==
  /\ claims # <<>>
  /\ grid' = d
  /\ UNCHANGED <<claims, stationGrid>>

StationResizes(d) ==
  /\ stationGrid' = d
  /\ grid' \in (IF claims = <<>> THEN {d, grid} ELSE {grid})
  /\ UNCHANGED claims

\* The Session ends: nobody owns the grid, and it stays as it is.
End ==
  /\ claims' = <<>>
  /\ UNCHANGED <<grid, stationGrid>>

Next ==
  \/ \E v \in Viewer : Claim(v) \/ Drop(v)
  \/ \E d \in Dims : OwnerResizes(d) \/ StationResizes(d)
  \/ End

Spec == Init /\ [][Next]_vars
=============================================================================
