------------------------ MODULE MCBindingRepository ------------------------
(* BindingRepository on small instances.                                      *)
EXTENDS BindingRepository, TLC

\* Processes are interchangeable, and so are bindings.
Symmetry == Permutations(Process) \cup Permutations(Binding)
=============================================================================
