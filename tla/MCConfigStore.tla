---------------------------- MODULE MCConfigStore ----------------------------
(***************************************************************************)
(* Instances of ConfigStore for TLC.                                       *)
(***************************************************************************)
EXTENDS ConfigStore, TLC

\* Goroutines of the same kind are interchangeable.
Symmetric == Permutations(Editors) \union Permutations(Hot)
=============================================================================
