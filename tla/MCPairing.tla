------------------------------ MODULE MCPairing ------------------------------
EXTENDS Pairing, TLC
Symmetric == Permutations(Binding) \cup Permutations(Task)

\* Bound: a behaviour is followed up to its first race, and the state it leads to.
FirstRace == "race" \notin trouble
=============================================================================
