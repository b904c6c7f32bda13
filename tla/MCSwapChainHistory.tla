------------------------- MODULE MCSwapChainHistory -------------------------
(* SwapChainHistory for TLC: the surfaces are interchangeable. *)
EXTENDS SwapChainHistory, TLC

Symmetry == Permutations(Surfaces)
=============================================================================
