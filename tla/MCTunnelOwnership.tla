------------------------- MODULE MCTunnelOwnership --------------------------
(* TunnelOwnership on small instances.                                        *)
EXTENDS TunnelOwnership, TLC

\* Runs are interchangeable, but for those whose process id is reused.
RunSymmetry == Permutations(Run \ ReusedPid)
=============================================================================
