---- MODULE MCChainScanner ----
(* Instances of ChainScanner for TLC: the goroutines of one kind run the   *)
(* same code, so they are interchangeable.                                 *)
EXTENDS ChainScanner, TLC

Symmetry ==
    Permutations(Workers) \cup Permutations(Handlers) \cup Permutations(Retriers)
====
