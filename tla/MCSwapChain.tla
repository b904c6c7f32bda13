---------------------------- MODULE MCSwapChain ----------------------------
(* SwapChain for TLC: the surfaces, and the chains, are interchangeable. *)
EXTENDS SwapChainExchange, TLC

Symmetry == Permutations(Surfaces) \cup Permutations(Chains)
=============================================================================
